---------------------------- MODULE ClientProofs ----------------------------
(***************************************************************************)
(* What holds of the parts of the pages' script, whatever the constants:   *)
(* the promises and requests (Ajax: any number of requests, promises done  *)
(* twice among them), the images put into an article (Uploads: any number  *)
(* of batches of any length), the gallery of an article's images (Gallery: *)
(* any number of images, however many are asked for before the first one   *)
(* comes), the editor (NicEditor: any number of instances and elements),   *)
(* the decoding of base64 (StringTools: any text), and the loading of      *)
(* scripts (LazyLoad: any sources, any number of calls).  All of them keep *)
(* their types together (Client).                                          *)
(***************************************************************************)
EXTENDS Client, Integers, FiniteSetTheorems,
        FunctionTheorems, SequenceTheorems, TLAPS

--------------------
(* Ajax: the calls that are held, and that each tells once and in order. *)

TheWhole == <<"whole", 0>>

Continuer == [do : {"tell"}, of : Continuation] \cup [do : {"notify", "follow"}, of : Request]
            \cup [do : {"pass", "relay"}, of : Promise]

Call == [call : {"then"}, p : Promise, cb : Continuer] \cup [call : {"apply"}, cb : Continuer, a : Answer]
        \cup [call : {"done"}, p : Promise, a : Answer] \cup [call : {"empty"}, p : Promise]
        \cup [call : {"chain"}, n : 1 .. NRequest + 1, a : Answer]

--------------------
(* A callback is a right to do something once: to tell a continuation, to  *)
(* notify join, to go on with the chain, to have a promise done.  The      *)
(* right wanders from the call of then to the promise's callbacks and to   *)
(* the call of the callback, and a call of chain or of done has it too.    *)

RightOf(cb) ==
    CASE cb.do = "tell"   -> <<"tell", cb.of>>
      [] cb.do = "notify" -> <<"notify", cb.of>>
      [] cb.do = "follow" -> <<"chain", 0>>
      [] cb.do = "pass"   -> <<"done", cb.of>>
      [] cb = Relay       -> <<"done", Relayed>>
      [] OTHER            -> <<"tell", TheWhole>>

Right(h) ==
    CASE h.call \in {"then", "apply"} -> RightOf(h.cb)
      [] h.call = "chain"             -> <<"chain", 0>>
      [] h.call = "empty"             -> <<"empty", h.p>>
      [] h.call = "done"              -> IF h.p[1] = "ajax" THEN <<"answer", h.a>> ELSE <<"done", h.p>>

Waiting(p) == ~isdone[p] /\ callbacks[p] # <<>>
Waiter(p)  == callbacks[p][1]

Used(right) ==
    \/ right[1] = "tell" /\ told[right[2]] # <<>>
    \/ right[1] = "notify" /\ right[2] \in DOMAIN results
    \/ right[1] = "done" /\ right[2][1] # "ajax" /\ isdone[right[2]]

\* No two have the same right, and no right is used before.
Distinct ==
    /\ \A u, j \in 1 .. Len(agenda) : Right(agenda[u]) = Right(agenda[j]) => u = j
    /\ \A u \in 1 .. Len(agenda), p \in Promise :
           Waiting(p) => Right(agenda[u]) # RightOf(Waiter(p))
    /\ \A p, q \in Promise :
           Waiting(p) /\ Waiting(q) /\ RightOf(Waiter(p)) = RightOf(Waiter(q)) => p = q

Unused ==
    /\ \A u \in 1 .. Len(agenda) : ~Used(Right(agenda[u]))
    /\ \A p \in Promise : Waiting(p) => ~Used(RightOf(Waiter(p)))

--------------------
(* What waits for what, and what a call says. *)

\* What each way of asking has waiting for its promises.
Waits(p, cb) ==
    \/ plan = "each" /\ \E r \in Request : p = Of(r) /\ cb = Tell(<<"each", r>>)
    \/ plan = "join" /\ \E r \in Request : p = Of(r) /\ cb = Notify(r)
    \/ plan = "join" /\ p = Joined /\ cb = Tell(TheWhole)
    \/ plan = "chain" /\ \E r \in Request : p = Of(r) /\ cb = Follow(r)
    \/ plan = "chain" /\ p = Link(1) /\ cb = Tell(TheWhole)
    \/ plan = "chain" /\ \E n \in Request : p = Link(n + 1) /\ cb = Pass(Link(n))
    \/ plan = "relay" /\ p = Of(1) /\ cb = Relay
    \/ plan = "relay" /\ p = Relayed /\ cb = Tell(TheWhole)
    \/ plan = "relay" /\ p = Of(2) /\ cb = IF hasXhr THEN Pass(Relayed) ELSE Tell(TheWhole)

Late(p, cb) == plan = "each" /\ \E r \in Request : p = Of(r) /\ cb = Tell(<<"late", r>>)

\* The whole chain has been gone through, and a is how it ended.
Ended(a) == plan = "chain" /\ (\A r \in Request : isdone[Of(r)]) /\ a = FirstAnswer(NRequest)

AllNotified == plan = "join" /\ DOMAIN results = Request

\* What a callback is called with.
Told(cb, a) ==
    /\ cb.do = "notify" => plan = "join" /\ isdone[Of(cb.of)] /\ a = FirstAnswer(cb.of)
    /\ cb.do = "follow" => plan = "chain" /\ isdone[Of(cb.of)] /\ a = FirstAnswer(cb.of)
    /\ cb.do = "pass" => \/ cb.of = Relayed /\ plan = "relay"
                         \/ (\E n \in Request : cb.of = Link(n)) /\ Ended(a)
    /\ cb.do = "relay" => /\ plan = "relay"
                          /\ cb = IF hasXhr THEN Relay ELSE [Relay EXCEPT !.of = Of(2)]
    /\ cb = Tell(TheWhole) => AllNotified \/ Ended(a) \/ plan = "relay"
    /\ cb.do = "tell" /\ cb # Tell(TheWhole) => plan = "each" /\ isdone[Of(cb.of[2])]

\* Why a call is made: then before the promise is done or late, done for what it says.
Fits(h) ==
    /\ h.call = "then" => \/ Late(h.p, h.cb) /\ isdone[h.p]
                          \/ /\ Waits(h.p, h.cb)
                             /\ \A r \in Request : h.p = Of(r) => xhr[r] \in {"sent", "none"}
    /\ h.call = "apply" => Told(h.cb, h.a)
    /\ h.call = "empty" => isdone[h.p]
    /\ h.call = "chain" => /\ plan = "chain" /\ DOMAIN given = 1 .. h.n - 1
                           /\ h.n > 1 => isdone[Of(h.n - 1)] /\ h.a = FirstAnswer(h.n - 1)
    /\ h.call = "done" => \/ \E r \in Request : h.p = Of(r) /\ xhr[r] = "over"
                          \/ h.p = Joined /\ AllNotified
                          \/ (\E n \in 1 .. NRequest + 1 : h.p = Link(n)) /\ Ended(h.a)
                          \/ h.p = Relayed /\ plan = "relay"

\* The answer of a request comes first, and what onTimeout adds to it last.
AnswerFits(u, h) ==
    h.call = "done" /\ h.p[1] = "ajax" =>
        IF h.a # "ETIMEOUT" THEN u = 1 /\ ~isdone[h.p]
        ELSE /\ u = Len(agenda)
             /\ \/ isdone[h.p] /\ result[h.p] = "failed"
                \/ u = 2 /\ agenda[1] = CallDone(h.p, "failed")

CallsFit == \A u \in 1 .. Len(agenda) : Fits(agenda[u]) /\ AnswerFits(u, agenda[u])

WaitersFit ==
    \A p \in Promise : callbacks[p] # <<>> =>
        /\ Len(callbacks[p]) = 1 /\ Waits(p, callbacks[p][1])
        /\ isdone[p] => \E u \in 1 .. Len(agenda) : agenda[u] = Empty(p)
        /\ \A r \in Request : p = Of(r) => xhr[r] \notin {"unsent", "none"}

--------------------
(* Requests, and what they leave behind. *)

RequestsFit ==
    \A r \in Request :
        /\ xhr[r] = "none" => isdone[Of(r)] /\ ~hasXhr /\ result[Of(r)] = "ENOXHR"
        /\ xhr[r] \in {"unsent", "sent", "partial"} => ~isdone[Of(r)]
        /\ xhr[r] \in {"sent", "partial", "over"} => hasXhr
        /\ plan = "each" => (xhr[r] = "unsent" <=> r \notin called)
        /\ plan = "each" /\ r \notin called => told[<<"each", r>>] = <<>>
        /\ plan = "chain" => (xhr[r] = "unsent" <=> r \notin DOMAIN given)

DoneFits ==
    /\ isdone[Joined] => AllNotified
    /\ \A n \in 1 .. NRequest + 1 : isdone[Link(n)] => Ended(result[Link(n)])

ResultsFit ==
    /\ numdone = Cardinality(DOMAIN results)
    /\ \A r \in DOMAIN results : isdone[Of(r)] /\ results[r] = FirstAnswer(r)

GivenFits ==
    \A n \in DOMAIN given : n > 1 => isdone[Of(n - 1)] /\ given[n] = FirstAnswer(n - 1)

ToldFits ==
    /\ \A c \in Continuation : Len(told[c]) <= 1
    /\ plan = "join" /\ told[TheWhole] # <<>> => AllNotified
    /\ plan = "chain" /\ told[TheWhole] # <<>> => Ended(told[TheWhole][1])

\* While the chain goes on at its n-th call, nothing is passed on, and what will be is of
\* calls before.
GoesOn(n) ==
    /\ \A m \in 1 .. NRequest + 1 : ~isdone[Link(m)]
    /\ \A u \in 1 .. Len(agenda) : \A m \in 1 .. NRequest + 1 :
           Right(agenda[u]) = <<"done", Link(m)>> => agenda[u].call = "then" /\ m < n
    /\ \A p \in Promise : \A m \in 1 .. NRequest + 1 :
           Waiting(p) /\ Waiter(p) = Pass(Link(m)) => m < n

ChainFits ==
    /\ \A u \in 1 .. Len(agenda) :
           /\ agenda[u].call = "chain" => GoesOn(agenda[u].n)
           /\ agenda[u].call \in {"then", "apply"} /\ agenda[u].cb.do = "follow" =>
                  GoesOn(agenda[u].cb.of) /\ DOMAIN given = 1 .. agenda[u].cb.of
    /\ \A p \in Promise : Waiting(p) /\ Waiter(p).do = "follow" =>
           GoesOn(Waiter(p).of) /\ DOMAIN given = 1 .. Waiter(p).of

\* The relay is the first thing its page asks for, and asks for request 2 itself.
RelayFits ==
    /\ \A u \in 1 .. Len(agenda) :
           agenda[u].call \in {"then", "apply"} /\ agenda[u].cb.do = "relay" => xhr[2] = "unsent"
    /\ \A p \in Promise : Waiting(p) /\ Waiter(p) = Relay => xhr[2] = "unsent"
    /\ \A u \in 1 .. Len(agenda) : agenda[u].call = "then" /\ agenda[u].cb = Relay =>
           /\ Len(agenda) = 1 /\ told[TheWhole] = <<>>
           /\ \A p \in Promise : callbacks[p] = <<>>

\* Before a page has asked at all.
Untouched ==
    plan # "each" /\ called = {} =>
        /\ agenda = <<>> /\ DOMAIN results = {} /\ DOMAIN given = {}
        /\ xhr = [r \in Request |-> "unsent"]
        /\ \A p \in Promise : callbacks[p] = <<>> /\ ~isdone[p]
        /\ \A c \in Continuation : told[c] = <<>>

Types ==
    /\ AjaxTypeOK
    /\ callbacks \in [Promise -> Seq(Continuer)]
    /\ agenda \in Seq(Call)
    /\ results \in [DOMAIN results -> Answer]
    /\ given \in [DOMAIN given -> Answer] /\ DOMAIN given \subseteq Request

IInv == /\ Types /\ Distinct /\ Unused /\ CallsFit /\ WaitersFit /\ RequestsFit /\ DoneFits
        /\ ResultsFit /\ GivenFits /\ ToldFits /\ ChainFits /\ RelayFits /\ Untouched

--------------------
(* Calls and the agenda. *)

LEMMA CallIs ==
    ASSUME NEW h \in Call
    PROVE  /\ h.call \in {"then", "apply", "done", "empty", "chain"}
           /\ h.call = "then" => h.p \in Promise /\ h.cb \in Continuer /\ h = CallThen(h.p, h.cb)
           /\ h.call = "apply" => h.cb \in Continuer /\ h.a \in Answer /\ h = CallBack(h.cb, h.a)
           /\ h.call = "done" => h.p \in Promise /\ h.a \in Answer /\ h = CallDone(h.p, h.a)
           /\ h.call = "empty" => h.p \in Promise /\ h = Empty(h.p)
           /\ h.call = "chain" => h.n \in 1 .. NRequest + 1 /\ h.a \in Answer
  BY DEF Call, CallThen, CallBack, CallDone, Empty

LEMMA CallbackIs ==
    ASSUME NEW cb \in Continuer
    PROVE  /\ cb.do \in {"tell", "notify", "follow", "pass", "relay"}
           /\ cb.do = "tell" => cb.of \in Continuation /\ cb = Tell(cb.of)
           /\ cb.do = "notify" => cb.of \in Request /\ cb = Notify(cb.of)
           /\ cb.do = "follow" => cb.of \in Request /\ cb = Follow(cb.of)
           /\ cb.do = "pass" => cb.of \in Promise /\ cb = Pass(cb.of)
           /\ cb.do = "relay" => cb.of \in Promise
  BY DEF Continuer, Tell, Notify, Follow, Pass

\* The callbacks there are.
LEMMA Callbacks ==
    /\ \A c \in Continuation : Tell(c) \in Continuer /\ Tell(c).do = "tell" /\ Tell(c).of = c
    /\ \A r \in Request : /\ Notify(r) \in Continuer /\ Notify(r).do = "notify" /\ Notify(r).of = r
                          /\ Follow(r) \in Continuer /\ Follow(r).do = "follow" /\ Follow(r).of = r
    /\ \A p \in Promise : Pass(p) \in Continuer /\ Pass(p).do = "pass" /\ Pass(p).of = p
    /\ Relay \in Continuer /\ Relay.do = "relay" /\ Relay.of = Relayed
    /\ LET other == [Relay EXCEPT !.of = Of(2)]
       IN  other \in Continuer /\ other.do = "relay" /\ other.of = Of(2) /\ other # Relay
  BY NRequestAssumption
     DEF Continuer, Tell, Notify, Follow, Pass, Relay, Promise, Of, Relayed, Request

LEMMA Promises ==
    /\ \A r \in Request : Of(r) \in Promise /\ Of(r)[1] = "ajax" /\ Of(r)[2] = r
    /\ \A n \in 1 .. NRequest + 1 : Link(n) \in Promise /\ Link(n)[1] = "chain" /\ Link(n)[2] = n
    /\ Joined \in Promise /\ Joined[1] = "join"
    /\ Relayed \in Promise /\ Relayed[1] = "then"
    /\ 1 \in Request /\ 2 \in Request
    /\ \A n \in Request : n + 1 \in 1 .. NRequest + 1 /\ n \in 1 .. NRequest + 1
    /\ 1 \in 1 .. NRequest + 1 /\ NRequest \in Request
    /\ TheWhole \in Continuation
    /\ \A r \in Request : <<"each", r>> \in Continuation /\ <<"late", r>> \in Continuation
  BY NRequestAssumption DEF Promise, Of, Link, Joined, Relayed, Request, TheWhole, Continuation

LEMMA PromiseIs ==
    ASSUME NEW p \in Promise
    PROVE  \/ \E r \in Request : p = Of(r)
           \/ \E n \in 1 .. NRequest + 1 : p = Link(n)
           \/ p = Joined \/ p = Relayed
  BY DEF Promise, Of, Link, Joined, Relayed

--------------------
(* Rights. *)

LEMMA RightOfIs ==
    ASSUME NEW cb \in Continuer
    PROVE  /\ cb.do = "tell" => RightOf(cb) = <<"tell", cb.of>>
           /\ cb.do = "notify" => RightOf(cb) = <<"notify", cb.of>>
           /\ cb.do = "follow" => RightOf(cb) = <<"chain", 0>>
           /\ cb.do = "pass" => RightOf(cb) = <<"done", cb.of>>
           /\ cb = Relay => RightOf(cb) = <<"done", Relayed>>
           /\ cb.do = "relay" /\ cb # Relay => RightOf(cb) = <<"tell", TheWhole>>
           /\ RightOf(cb)[1] \in {"tell", "notify", "chain", "done"}
<1>1. cb = Relay => cb.do = "relay"
  BY DEF Relay
<1> QED
  BY <1>1, CallbackIs DEF RightOf

LEMMA RightIs ==
    ASSUME NEW h \in Call
    PROVE  /\ h.call \in {"then", "apply"} => Right(h) = RightOf(h.cb)
           /\ h.call = "chain" => Right(h) = <<"chain", 0>>
           /\ h.call = "empty" => Right(h) = <<"empty", h.p>>
           /\ h.call = "done" /\ h.p[1] = "ajax" => Right(h) = <<"answer", h.a>>
           /\ h.call = "done" /\ h.p[1] # "ajax" => Right(h) = <<"done", h.p>>
  BY CallIs DEF Right

\* What has a right.
LEMMA HasRightOf ==
    ASSUME NEW cb \in Continuer
    PROVE  /\ RightOf(cb) = <<"chain", 0>> => cb.do = "follow"
           /\ \A q : RightOf(cb) = <<"done", q>> => cb = Pass(q) \/ (cb = Relay /\ q = Relayed)
           /\ \A c : RightOf(cb) = <<"tell", c>> =>
                  cb = Tell(c) \/ (cb.do = "relay" /\ cb # Relay /\ c = TheWhole)
           /\ \A r : RightOf(cb) = <<"notify", r>> => cb = Notify(r)
           /\ \A q : RightOf(cb) # <<"empty", q>> /\ RightOf(cb) # <<"answer", q>>
<1>1. CASE cb.do = "tell"
  <2>1. RightOf(cb) = <<"tell", cb.of>> /\ cb = Tell(cb.of)
    BY <1>1, RightOfIs, CallbackIs
  <2>2. \A c : <<"tell", cb.of>> = <<"tell", c>> => c = cb.of
    OBVIOUS
  <2>3. \A c : RightOf(cb) = <<"tell", c>> => cb = Tell(c)
    BY <2>1, <2>2
  <2> QED
    BY <2>1, <2>3
<1>2. CASE cb.do = "notify"
  <2>1. RightOf(cb) = <<"notify", cb.of>> /\ cb = Notify(cb.of)
    BY <1>2, RightOfIs, CallbackIs
  <2> QED
    BY <2>1
<1>3. CASE cb.do = "follow"
  <2>1. RightOf(cb) = <<"chain", 0>>
    BY <1>3, RightOfIs
  <2> QED
    BY <1>3, <2>1
<1>4. CASE cb.do = "pass"
  <2>1. RightOf(cb) = <<"done", cb.of>> /\ cb = Pass(cb.of)
    BY <1>4, RightOfIs, CallbackIs
  <2>2. \A q : <<"done", cb.of>> = <<"done", q>> => q = cb.of
    OBVIOUS
  <2>3. \A q : RightOf(cb) = <<"done", q>> => cb = Pass(q)
    BY <2>1, <2>2
  <2> QED
    BY <2>1, <2>3
<1>5. CASE cb.do = "relay"
  <2>1. RightOf(cb) = IF cb = Relay THEN <<"done", Relayed>> ELSE <<"tell", TheWhole>>
    BY <1>5, RightOfIs
  <2> QED
    BY <1>5, <2>1
<1> QED
  BY <1>1, <1>2, <1>3, <1>4, <1>5, CallbackIs

LEMMA HasRight ==
    ASSUME NEW h \in Call
    PROVE  /\ Right(h) = <<"chain", 0>> =>
                  h.call = "chain" \/ (h.call \in {"then", "apply"} /\ h.cb.do = "follow")
           /\ \A q : Right(h) = <<"done", q>> =>
                  \/ h.call = "done" /\ h.p = q
                  \/ h.call \in {"then", "apply"} /\ RightOf(h.cb) = <<"done", q>>
           /\ \A q : Right(h) = <<"tell", q>> =>
                  h.call \in {"then", "apply"} /\ RightOf(h.cb) = <<"tell", q>>
           /\ \A q : Right(h) = <<"notify", q>> =>
                  h.call \in {"then", "apply"} /\ RightOf(h.cb) = <<"notify", q>>
           /\ \A q : Right(h) = <<"empty", q>> => h.call = "empty" /\ h.p = q
           /\ \A q : Right(h) = <<"answer", q>> => h.call = "done" /\ h.p[1] = "ajax" /\ h.a = q
<1>1. CASE h.call \in {"then", "apply"}
  <2>1. Right(h) = RightOf(h.cb) /\ h.cb \in Continuer
    BY <1>1, RightIs, CallIs
  <2> QED
    BY <1>1, <2>1, HasRightOf
<1>2. CASE h.call = "chain"
  BY <1>2, RightIs
<1>4. CASE h.call = "empty"
  <2>1. Right(h) = <<"empty", h.p>>
    BY <1>4, RightIs
  <2>2. \A q : <<"empty", h.p>> = <<"empty", q>> => h.p = q
    OBVIOUS
  <2> QED
    BY <1>4, <2>1, <2>2
<1>3. CASE h.call = "done"
  BY <1>3, RightIs
<1> QED
  BY <1>1, <1>2, <1>3, <1>4, CallIs

\* The calls made by a handler.
LEMMA NewCalls ==
    /\ \A p \in Promise, cb \in Continuer :
           /\ CallThen(p, cb) \in Call /\ CallThen(p, cb).call = "then"
           /\ CallThen(p, cb).p = p /\ CallThen(p, cb).cb = cb
           /\ Right(CallThen(p, cb)) = RightOf(cb)
    /\ \A cb \in Continuer, a \in Answer :
           /\ CallBack(cb, a) \in Call /\ CallBack(cb, a).call = "apply"
           /\ CallBack(cb, a).cb = cb /\ CallBack(cb, a).a = a
           /\ Right(CallBack(cb, a)) = RightOf(cb)
    /\ \A p \in Promise, a \in Answer :
           /\ CallDone(p, a) \in Call /\ CallDone(p, a).call = "done"
           /\ CallDone(p, a).p = p /\ CallDone(p, a).a = a
           /\ Right(CallDone(p, a)) = IF p[1] = "ajax" THEN <<"answer", a>> ELSE <<"done", p>>
    /\ \A p \in Promise :
           /\ Empty(p) \in Call /\ Empty(p).call = "empty" /\ Empty(p).p = p
           /\ Right(Empty(p)) = <<"empty", p>>
    /\ \A n \in 1 .. NRequest + 1, a \in Answer :
           /\ CallChain(n, a) \in Call /\ CallChain(n, a).call = "chain"
           /\ CallChain(n, a).n = n /\ CallChain(n, a).a = a
           /\ Right(CallChain(n, a)) = <<"chain", 0>>
<1>1. ASSUME NEW p \in Promise, NEW cb \in Continuer
      PROVE  /\ CallThen(p, cb) \in Call /\ CallThen(p, cb).call = "then"
             /\ CallThen(p, cb).p = p /\ CallThen(p, cb).cb = cb
             /\ Right(CallThen(p, cb)) = RightOf(cb)
  <2>1. /\ CallThen(p, cb) \in Call /\ CallThen(p, cb).call = "then"
        /\ CallThen(p, cb).p = p /\ CallThen(p, cb).cb = cb
    BY DEF CallThen, Call
  <2> QED
    BY <2>1, RightIs
<1>2. ASSUME NEW cb \in Continuer, NEW a \in Answer
      PROVE  /\ CallBack(cb, a) \in Call /\ CallBack(cb, a).call = "apply"
             /\ CallBack(cb, a).cb = cb /\ CallBack(cb, a).a = a
             /\ Right(CallBack(cb, a)) = RightOf(cb)
  <2>1. /\ CallBack(cb, a) \in Call /\ CallBack(cb, a).call = "apply"
        /\ CallBack(cb, a).cb = cb /\ CallBack(cb, a).a = a
    BY DEF CallBack, Call
  <2> QED
    BY <2>1, RightIs
<1>3. ASSUME NEW p \in Promise, NEW a \in Answer
      PROVE  /\ CallDone(p, a) \in Call /\ CallDone(p, a).call = "done"
             /\ CallDone(p, a).p = p /\ CallDone(p, a).a = a
             /\ Right(CallDone(p, a)) = IF p[1] = "ajax" THEN <<"answer", a>> ELSE <<"done", p>>
  <2>1. /\ CallDone(p, a) \in Call /\ CallDone(p, a).call = "done"
        /\ CallDone(p, a).p = p /\ CallDone(p, a).a = a
    BY DEF CallDone, Call
  <2> QED
    BY <2>1, RightIs
<1>4. ASSUME NEW p \in Promise
      PROVE  /\ Empty(p) \in Call /\ Empty(p).call = "empty" /\ Empty(p).p = p
             /\ Right(Empty(p)) = <<"empty", p>>
  <2>1. Empty(p) \in Call /\ Empty(p).call = "empty" /\ Empty(p).p = p
    BY DEF Empty, Call
  <2> QED
    BY <2>1, RightIs
<1>5. ASSUME NEW n \in 1 .. NRequest + 1, NEW a \in Answer
      PROVE  /\ CallChain(n, a) \in Call /\ CallChain(n, a).call = "chain"
             /\ CallChain(n, a).n = n /\ CallChain(n, a).a = a
             /\ Right(CallChain(n, a)) = <<"chain", 0>>
  <2>1. /\ CallChain(n, a) \in Call /\ CallChain(n, a).call = "chain"
        /\ CallChain(n, a).n = n /\ CallChain(n, a).a = a
    BY DEF CallChain, Call
  <2> QED
    BY <2>1, RightIs
<1> QED
  BY <1>1, <1>2, <1>3, <1>4, <1>5

\* What waits, by what it does; a promise has one thing waiting for it.
LEMMA WaitsIs ==
    ASSUME NEW p, NEW cb, Waits(p, cb)
    PROVE  /\ p \in Promise /\ cb \in Continuer
           /\ cb.do = "relay" => plan = "relay" /\ p = Of(1) /\ cb = Relay
           /\ cb.do = "follow" => plan = "chain" /\ cb.of \in Request /\ p = Of(cb.of)
           /\ cb.do = "notify" => plan = "join" /\ cb.of \in Request /\ p = Of(cb.of)
           /\ cb.do = "pass" =>
                 \/ plan = "chain" /\ \E n \in Request : p = Link(n + 1) /\ cb = Pass(Link(n))
                 \/ plan = "relay" /\ hasXhr /\ p = Of(2) /\ cb = Pass(Relayed)
           /\ cb.do = "tell" =>
                 \/ plan = "each" /\ \E r \in Request : p = Of(r) /\ cb = Tell(<<"each", r>>)
                 \/ plan = "join" /\ p = Joined /\ cb = Tell(TheWhole)
                 \/ plan = "chain" /\ p = Link(1) /\ cb = Tell(TheWhole)
                 \/ plan = "relay" /\ p = Relayed /\ cb = Tell(TheWhole)
                 \/ plan = "relay" /\ ~hasXhr /\ p = Of(2) /\ cb = Tell(TheWhole)
<1>1. /\ \A r \in Request : /\ Of(r) \in Promise /\ Tell(<<"each", r>>) \in Continuer
                            /\ Notify(r) \in Continuer /\ Follow(r) \in Continuer
      /\ \A n \in Request : Link(n + 1) \in Promise /\ Pass(Link(n)) \in Continuer
      /\ Link(1) \in Promise /\ Joined \in Promise /\ Relayed \in Promise
      /\ Of(1) \in Promise /\ Of(2) \in Promise
      /\ Relay \in Continuer /\ Tell(TheWhole) \in Continuer /\ Pass(Relayed) \in Continuer
  <2>1. \A r \in Request : /\ Of(r) \in Promise /\ <<"each", r>> \in Continuation
                          /\ Notify(r) \in Continuer /\ Follow(r) \in Continuer
    BY Promises, Callbacks
  <2>2. \A n \in Request : n + 1 \in 1 .. NRequest + 1 /\ n \in 1 .. NRequest + 1
    BY Promises
  <2>3. \A n \in 1 .. NRequest + 1 : Link(n) \in Promise
    BY Promises
  <2>4. \A q \in Promise : Pass(q) \in Continuer
    BY Callbacks
  <2>5. \A c \in Continuation : Tell(c) \in Continuer
    BY Callbacks
  <2>6. /\ 1 \in 1 .. NRequest + 1 /\ Joined \in Promise /\ Relayed \in Promise
        /\ 1 \in Request /\ 2 \in Request /\ TheWhole \in Continuation /\ Relay \in Continuer
    BY Promises, Callbacks
  <2> QED
    BY <2>1, <2>2, <2>3, <2>4, <2>5, <2>6
<1>3. p \in Promise /\ cb \in Continuer
  BY <1>1 DEF Waits
<1> QED
  BY <1>3 DEF Waits, Tell, Notify, Follow, Pass, Relay

LEMMA WaiterIs ==
    ASSUME Types, NEW p \in Promise, callbacks[p] # <<>> PROVE Waiter(p) \in Continuer
  BY DEF Types, Waiter

--------------------
(* What a step must do to leave what was true of the calls, whatever they  *)
(* are.                                                                    *)

\* Promises stay done, and their first answers stay.
Calm ==
    /\ UNCHANGED <<plan, hasXhr>>
    /\ \A p \in Promise : isdone[p] => isdone'[p]
    /\ \A r \in Request : isdone[Of(r)] => FirstAnswer(r)' = FirstAnswer(r)
    /\ DOMAIN results \subseteq DOMAIN results' /\ DOMAIN results' \subseteq Request

\* Requests are sent at most.
SentStays == \A r \in Request : xhr[r] # "unsent" => xhr'[r] = xhr[r]

LEMMA EndedKept ==
    ASSUME Calm, NEW a, Ended(a) PROVE Ended(a)'
<1>1. \A r \in Request : isdone'[Of(r)]
  BY Promises DEF Calm, Ended
<1>2. FirstAnswer(NRequest)' = FirstAnswer(NRequest)
  BY Promises DEF Calm, Ended
<1> QED
  BY <1>1, <1>2 DEF Calm, Ended

LEMMA AllNotifiedKept ==
    ASSUME Calm, AllNotified PROVE AllNotified'
  BY DEF Calm, AllNotified

LEMMA ToldKept ==
    ASSUME Calm, NEW cb \in Continuer, NEW a, Told(cb, a) PROVE Told(cb, a)'
<1>1. CASE cb = Tell(TheWhole)
  <2>1. cb.do = "tell"
    BY <1>1, Promises, Callbacks
  <2> QED
    BY <1>1, <2>1, EndedKept, AllNotifiedKept DEF Told, Calm
<1>4. CASE cb.do = "tell" /\ cb # Tell(TheWhole)
  <2>1. cb.of \in Continuation /\ cb.of # TheWhole
    BY <1>4, CallbackIs
  <2>2. cb.of[2] \in Request
    BY <2>1 DEF Continuation, TheWhole
  <2>3. Of(cb.of[2]) \in Promise
    BY <2>2, Promises
  <2> QED
    BY <1>4, <2>3 DEF Told, Calm
<1>2. CASE cb.do \in {"notify", "follow"}
  <2>1. cb.of \in Request /\ cb # Tell(TheWhole)
    BY <1>2, CallbackIs, Callbacks, Promises
  <2> QED
    BY <1>2, <2>1, Promises DEF Told, Calm
<1>3. CASE cb.do \in {"pass", "relay"}
  <2>1. cb # Tell(TheWhole)
    BY <1>3, Callbacks, Promises
  <2> QED
    BY <1>3, <2>1, EndedKept DEF Told, Calm
<1> QED
  BY <1>1, <1>2, <1>3, <1>4, CallbackIs

LEMMA WaitsKept ==
    ASSUME UNCHANGED <<plan, hasXhr>>, NEW p, NEW cb
    PROVE  (Waits(p, cb)' <=> Waits(p, cb)) /\ (Late(p, cb)' <=> Late(p, cb))
  BY DEF Waits, Late

LEMMA FitsKept ==
    ASSUME Calm, SentStays, NEW h \in Call, Fits(h), h.call = "chain" => UNCHANGED given
    PROVE  Fits(h)'
<1>1. CASE h.call = "then"
  <2>1. h.p \in Promise /\ UNCHANGED <<plan, hasXhr>>
    BY <1>1, CallIs DEF Calm
  <2> QED
    BY <1>1, <2>1, WaitsKept DEF Fits, Calm, SentStays
<1>2. CASE h.call = "apply"
  BY <1>2, CallIs, ToldKept DEF Fits
<1>3. CASE h.call = "empty"
  BY <1>3, CallIs DEF Fits, Calm
<1>4. CASE h.call = "chain"
  <2>1. h.n > 1 => h.n - 1 \in Request
    BY <1>4, CallIs, NRequestAssumption DEF Request
  <2> QED
    BY <1>4, <2>1, Promises DEF Fits, Calm
<1>5. CASE h.call = "done"
  <2>1. CASE \E r \in Request : h.p = Of(r) /\ xhr[r] = "over"
    BY <1>5, <2>1 DEF Fits, SentStays
  <2>2. CASE h.p = Joined /\ AllNotified
    BY <1>5, <2>2, AllNotifiedKept DEF Fits
  <2>3. CASE (\E n \in 1 .. NRequest + 1 : h.p = Link(n)) /\ Ended(h.a)
    BY <1>5, <2>3, EndedKept DEF Fits
  <2>4. CASE h.p = Relayed /\ plan = "relay"
    BY <1>5, <2>4 DEF Fits, Calm
  <2> QED
    BY <1>5, <2>1, <2>2, <2>3, <2>4 DEF Fits
<1> QED
  BY <1>1, <1>2, <1>3, <1>4, <1>5, CallIs

--------------------
(* The agenda after its head has been worked on, when no callback is added. *)

\* Someone other than the head of the agenda has the right.
Elsewhere(right) ==
    \/ \E u \in 2 .. Len(agenda) : Right(agenda[u]) = right
    \/ \E p \in Promise : Waiting(p) /\ RightOf(Waiter(p)) = right

\* The same, of those who stay.
Stays(right) ==
    \/ \E u \in 2 .. Len(agenda) : Right(agenda[u]) = right
    \/ \E p \in Promise : Waiting(p) /\ Waiting(p)' /\ RightOf(Waiter(p)) = right

LEMMA StaysElsewhere ==
    ASSUME NEW right, Stays(right) PROVE Elsewhere(right)
  BY DEF Stays, Elsewhere

\* The calls new come before what was behind the head.
Before(new) ==
    /\ new \in Seq(Call)
    /\ agenda' = IF agenda = <<>> THEN new ELSE new \o Tail(agenda)

\* The same, and nobody waits who did not.
Replaced(new) ==
    /\ Before(new)
    /\ \A p \in Promise : Waiting(p)' => Waiting(p) /\ callbacks'[p] = callbacks[p]

\* The calls of the new agenda: what was put there, and what was behind the head.
LEMMA AgendaIs ==
    ASSUME Types, NEW new, Before(new)
    PROVE  /\ agenda' \in Seq(Call) /\ Len(agenda) \in Nat /\ Len(new) \in Nat
           /\ Len(agenda') = Len(new) + (IF agenda = <<>> THEN 0 ELSE Len(agenda) - 1)
           /\ \A u \in 1 .. Len(agenda') :
                  IF u <= Len(new) THEN agenda'[u] = new[u]
                  ELSE u - Len(new) + 1 \in 2 .. Len(agenda) /\ agenda'[u] = agenda[u - Len(new) + 1]
           /\ \A u \in 2 .. Len(agenda) :
                  u + Len(new) - 1 \in 1 .. Len(agenda') /\ agenda'[u + Len(new) - 1] = agenda[u]
<1>1. agenda \in Seq(Call) /\ new \in Seq(Call) /\ Len(agenda) \in Nat /\ Len(new) \in Nat
  BY DEF Types, Before
<1>2. CASE agenda = <<>>
  BY <1>1, <1>2 DEF Before
<1>3. CASE agenda # <<>>
  <2>1. /\ Tail(agenda) \in Seq(Call) /\ Len(Tail(agenda)) = Len(agenda) - 1
        /\ Len(agenda) \in Nat \ {0}
        /\ \A u \in 1 .. Len(agenda) - 1 : Tail(agenda)[u] = agenda[u + 1]
    BY <1>1, <1>3
  <2>2. /\ agenda' \in Seq(Call) /\ Len(agenda') = Len(new) + Len(agenda) - 1
        /\ \A u \in 1 .. Len(agenda') :
               agenda'[u] = IF u <= Len(new) THEN new[u] ELSE Tail(agenda)[u - Len(new)]
    BY <1>1, <1>3, <2>1 DEF Before
  <2>3. ASSUME NEW u \in 1 .. Len(agenda')
        PROVE  IF u <= Len(new) THEN agenda'[u] = new[u]
               ELSE u - Len(new) + 1 \in 2 .. Len(agenda) /\ agenda'[u] = agenda[u - Len(new) + 1]
    <3>1. CASE u <= Len(new)
      BY <2>2, <3>1
    <3>2. CASE ~(u <= Len(new))
      <4>2. agenda'[u] = Tail(agenda)[u - Len(new)]
        BY <2>2, <3>2
      <4>1. u - Len(new) \in 1 .. Len(agenda) - 1 /\ agenda'[u] = Tail(agenda)[u - Len(new)]
        <5> DEFINE a == Len(agenda)
                   b == Len(new)
        <5>1. a \in Nat /\ b \in Nat /\ u \in 1 .. b + a - 1 /\ ~(u <= b)
          BY <1>1, <2>2, <3>2
        <5> HIDE DEF a, b
        <5>2. u - b \in 1 .. a - 1
          BY <5>1
        <5> QED
          BY <4>2, <5>2 DEF a, b
      <4> QED
        BY <1>1, <2>1, <3>2, <4>1
    <3> QED
      BY <3>1, <3>2
  <2>4. ASSUME NEW u \in 2 .. Len(agenda)
        PROVE  u + Len(new) - 1 \in 1 .. Len(agenda') /\ agenda'[u + Len(new) - 1] = agenda[u]
    <3> DEFINE k == u + Len(new) - 1
    <3>1. k \in 1 .. Len(agenda') /\ ~(k <= Len(new)) /\ k - Len(new) = u - 1 /\ u - 1 \in 1 .. Len(agenda) - 1
      BY <1>1, <2>2
    <3>2. agenda'[k] = Tail(agenda)[u - 1] /\ Tail(agenda)[u - 1] = agenda[u - 1 + 1]
      BY <2>1, <2>2, <3>1
    <3> QED
      BY <3>1, <3>2
  <2> QED
    BY <1>1, <1>3, <2>2, <2>3, <2>4
<1> QED
  BY <1>2, <1>3

LEMMA HeadAlone ==
    ASSUME Types, Distinct, agenda # <<>> PROVE ~Elsewhere(Right(agenda[1]))
<1>1. Len(agenda) \in Nat \ {0}
  BY DEF Types
<1> QED
  BY <1>1 DEF Distinct, Elsewhere

LEMMA DistinctKept ==
    ASSUME Types, Distinct, NEW new, Replaced(new),
           \A u, j \in 1 .. Len(new) : Right(new[u]) = Right(new[j]) => u = j,
           \A u \in 1 .. Len(new) : ~Stays(Right(new[u]))
    PROVE  Distinct'
<1>1. /\ agenda \in Seq(Call) /\ Len(agenda) \in Nat /\ Len(new) \in Nat
      /\ Before(new)
  BY DEF Types, Replaced, Before
<1>2. \A p \in Promise : Waiting(p)' => Waiting(p) /\ Waiter(p)' = Waiter(p)
  BY DEF Replaced, Waiter
<1>3. ASSUME NEW u \in 1 .. Len(agenda'), NEW j \in 1 .. Len(agenda'),
             Right(agenda'[u]) = Right(agenda'[j])
      PROVE  u = j
  <2>0. ASSUME NEW k \in 1 .. Len(agenda')
        PROVE  \/ k \in 1 .. Len(new) /\ agenda'[k] = new[k]
               \/ k - Len(new) + 1 \in 2 .. Len(agenda) /\ agenda'[k] = agenda[k - Len(new) + 1]
    BY <1>1, AgendaIs
  <2>1. CASE u \in 1 .. Len(new) /\ agenda'[u] = new[u] /\ j \in 1 .. Len(new) /\ agenda'[j] = new[j]
    BY <1>3, <2>1
  <2>2. ASSUME NEW k \in 1 .. Len(new), NEW l \in 2 .. Len(agenda) PROVE Right(new[k]) # Right(agenda[l])
    BY DEF Stays
  <2>3. ASSUME u - Len(new) + 1 \in 2 .. Len(agenda), agenda'[u] = agenda[u - Len(new) + 1],
               j - Len(new) + 1 \in 2 .. Len(agenda), agenda'[j] = agenda[j - Len(new) + 1]
        PROVE  u = j
    <3>1. u - Len(new) + 1 = j - Len(new) + 1
      BY <1>1, <1>3, <2>3, SMTT(30) DEF Distinct
    <3> QED
      BY <1>1, <3>1
  <2> QED
    BY <1>3, <2>0, <2>1, <2>2, <2>3
<1>4. \A u \in 1 .. Len(agenda'), p \in Promise :
          Waiting(p)' => Right(agenda'[u]) # RightOf(Waiter(p)')
  <2> SUFFICES ASSUME NEW u \in 1 .. Len(agenda'), NEW p \in Promise, Waiting(p)'
               PROVE  Right(agenda'[u]) # RightOf(Waiter(p)')
    OBVIOUS
  <2>1. CASE u <= Len(new)
    BY <1>1, <1>2, <2>1, AgendaIs DEF Stays
  <2>2. CASE ~(u <= Len(new))
    BY <1>1, <1>2, <2>2, AgendaIs, SMTT(30) DEF Distinct
  <2> QED
    BY <2>1, <2>2
<1>5. \A p, q \in Promise :
          Waiting(p)' /\ Waiting(q)' /\ RightOf(Waiter(p)') = RightOf(Waiter(q)') => p = q
  BY <1>2 DEF Distinct
<1> QED
  BY <1>3, <1>4, <1>5 DEF Distinct

LEMMA UnusedKept ==
    ASSUME Types, Unused, NEW new, Replaced(new),
           \A right : Stays(right) /\ Used(right)' => Used(right),
           \A u \in 1 .. Len(new) : ~Used(Right(new[u]))'
    PROVE  Unused'
<1>1. /\ agenda \in Seq(Call) /\ Len(agenda) \in Nat /\ Len(new) \in Nat
      /\ Before(new)
  BY DEF Types, Replaced, Before
<1>2. \A u \in 1 .. Len(agenda') : ~Used(Right(agenda[u]))'
  <2> SUFFICES ASSUME NEW u \in 1 .. Len(agenda') PROVE ~Used(Right(agenda[u]))'
    OBVIOUS
  <2>1. CASE u <= Len(new)
    BY <1>1, <2>1, AgendaIs
  <2>2. CASE ~(u <= Len(new))
    <3>1. agenda'[u] = agenda[u - Len(new) + 1] /\ u - Len(new) + 1 \in 2 .. Len(agenda)
          /\ u - Len(new) + 1 \in 1 .. Len(agenda)
      BY <1>1, <2>2, AgendaIs
    <3>2. Stays(Right(agenda[u - Len(new) + 1])) /\ ~Used(Right(agenda[u - Len(new) + 1]))
      BY <3>1 DEF Stays, Unused
    <3> QED
      BY <3>1, <3>2
  <2> QED
    BY <2>1, <2>2
<1>3. ASSUME NEW p \in Promise, Waiting(p)' PROVE ~Used(RightOf(Waiter(p)))'
  <2>1. Waiting(p) /\ Waiter(p)' = Waiter(p)
    BY <1>3 DEF Replaced, Waiter
  <2>2. Stays(RightOf(Waiter(p))) /\ ~Used(RightOf(Waiter(p)))
    BY <1>3, <2>1 DEF Stays, Unused
  <2> QED
    BY <2>1, <2>2
<1> QED
  BY <1>2, <1>3 DEF Unused

\* Behind the head no request is answered for the first time.
LEMMA CallsFitMoved ==
    ASSUME Types, CallsFit, NEW new, Before(new), Calm, SentStays,
           \A u \in 2 .. Len(agenda) : agenda[u].call = "chain" => UNCHANGED given,
           \A u \in 2 .. Len(agenda) :
               agenda[u].call = "done" /\ agenda[u].p[1] = "ajax" /\ agenda[u].a = "ETIMEOUT" =>
                   isdone'[agenda[u].p] /\ result'[agenda[u].p] = "failed",
           \A u \in 1 .. Len(new) :
               Fits(new[u])' /\ (new[u].call = "done" => new[u].p[1] # "ajax")
    PROVE  CallsFit'
<1>1. /\ agenda \in Seq(Call) /\ Len(agenda) \in Nat /\ Len(new) \in Nat
      /\ Before(new)
  BY DEF Types, Replaced, Before
<1> SUFFICES ASSUME NEW u \in 1 .. Len(agenda')
             PROVE  Fits(agenda[u])' /\ AnswerFits(u, agenda[u])'
  BY DEF CallsFit
<1>2. CASE u <= Len(new)
  <2>1. agenda'[u] = new[u] /\ u \in 1 .. Len(new)
    BY <1>1, <1>2, AgendaIs
  <2>2. Fits(new[u])' /\ (new[u].call = "done" => new[u].p[1] # "ajax")
    BY <2>1
  <2> QED
    BY <2>1, <2>2 DEF AnswerFits
<1>3. CASE ~(u <= Len(new))
  <2>1. PICK j \in 2 .. Len(agenda), h \in Call :
            /\ agenda'[u] = h /\ h = agenda[j] /\ j \in 1 .. Len(agenda)
            /\ j = Len(agenda) => u = Len(agenda')
    <3> DEFINE j == u - Len(new) + 1
    <3>1. /\ agenda'[u] = agenda[j] /\ j \in 2 .. Len(agenda)
          /\ Len(agenda') = Len(new) + Len(agenda) - 1
      BY <1>1, <1>3, AgendaIs
    <3>2. j \in 1 .. Len(agenda) /\ (j = Len(agenda) => u = Len(agenda'))
      BY <1>1, <3>1
    <3>3. agenda[j] \in Call
      BY <1>1, <3>2
    <3> QED
      BY <3>1, <3>2, <3>3
  <2>2. Fits(h) /\ AnswerFits(j, h)
    BY <2>1 DEF CallsFit
  <2>3. Fits(h)'
    BY <2>1, <2>2, FitsKept
  <2>4. AnswerFits(u, h)'
    <3> SUFFICES ASSUME h.call = "done", h.p[1] = "ajax"
                 PROVE  h.a = "ETIMEOUT" /\ u = Len(agenda') /\ isdone'[h.p] /\ result'[h.p] = "failed"
      BY DEF AnswerFits
    <3>1. h.a = "ETIMEOUT" /\ j = Len(agenda)
      BY <1>1, <2>1, <2>2 DEF AnswerFits
    <3> QED
      BY <2>1, <3>1
  <2> QED
    BY <2>1, <2>3, <2>4
<1> QED
  BY <1>2, <1>3

LEMMA CallsFitKept ==
    ASSUME Types, CallsFit, NEW new, Before(new), Calm, SentStays,
           \A u \in 2 .. Len(agenda) : agenda[u].call = "chain" => UNCHANGED given,
           agenda # <<>> => agenda[1].call # "done", \A p \in Promise : isdone[p] => result'[p] = result[p],
           \A u \in 1 .. Len(new) :
               Fits(new[u])' /\ (new[u].call = "done" => new[u].p[1] # "ajax")
    PROVE  CallsFit'
<1>1. ASSUME NEW u \in 2 .. Len(agenda),
             agenda[u].call = "done" /\ agenda[u].p[1] = "ajax" /\ agenda[u].a = "ETIMEOUT"
      PROVE  isdone'[agenda[u].p] /\ result'[agenda[u].p] = "failed"
  <2>1. u \in 1 .. Len(agenda) /\ agenda[u] \in Call /\ agenda # <<>>
    BY DEF Types
  <2>2. agenda[u].p \in Promise /\ \A p, a : agenda[1] # CallDone(p, a)
    BY <1>1, <2>1, CallIs DEF CallDone
  <2>3. isdone[agenda[u].p] /\ result[agenda[u].p] = "failed"
    BY <1>1, <2>1, <2>2 DEF CallsFit, AnswerFits
  <2> QED
    BY <2>2, <2>3 DEF Calm
<1> QED
  BY <1>1, CallsFitMoved

LEMMA WaitersFitKept ==
    ASSUME Types, WaitersFit, NEW new, Replaced(new), Calm, UNCHANGED callbacks,
           agenda # <<>> => agenda[1].call # "empty",
           \A r \in Request : xhr[r] \notin {"unsent", "none"} => xhr'[r] \notin {"unsent", "none"},
           \A p \in Promise : isdone'[p] /\ ~isdone[p] => callbacks[p] = <<>>
    PROVE  WaitersFit'
<1>1. /\ agenda \in Seq(Call) /\ Len(agenda) \in Nat /\ Len(new) \in Nat
      /\ Before(new)
  BY DEF Types, Replaced, Before
<1> SUFFICES ASSUME NEW p \in Promise, callbacks[p] # <<>>
             PROVE  /\ Len(callbacks[p]) = 1 /\ Waits(p, callbacks[p][1])'
                    /\ isdone'[p] => \E u \in 1 .. Len(agenda') : agenda'[u] = Empty(p)
                    /\ \A r \in Request : p = Of(r) => xhr'[r] \notin {"unsent", "none"}
  BY DEF WaitersFit
<1>2. Len(callbacks[p]) = 1 /\ Waits(p, callbacks[p][1])
  BY DEF WaitersFit
<1>3. Waits(p, callbacks[p][1])'
  BY <1>2, WaitsKept DEF Calm
<1>4. ASSUME isdone'[p] PROVE \E u \in 1 .. Len(agenda') : agenda'[u] = Empty(p)
  <2>1. PICK u \in 1 .. Len(agenda) : agenda[u] = Empty(p)
    BY <1>4 DEF WaitersFit
  <2>2. u # 1
    BY <2>1 DEF Empty
  <2>3. u \in 2 .. Len(agenda)
    BY <1>1, <2>2, AgendaIs
  <2>4. u + Len(new) - 1 \in 1 .. Len(agenda') /\ agenda'[u + Len(new) - 1] = agenda[u]
    BY <1>1, <2>3, AgendaIs
  <2> QED
    BY <2>1, <2>4
<1>5. \A r \in Request : p = Of(r) => xhr'[r] \notin {"unsent", "none"}
  BY DEF WaitersFit
<1> QED
  BY <1>2, <1>3, <1>4, <1>5

LEMMA GoesOnKept ==
    ASSUME Types, NEW new, Replaced(new), NEW n, GoesOn(n),
           \A m \in 1 .. NRequest + 1 : isdone'[Link(m)] => isdone[Link(m)],
           \A u \in 1 .. Len(new) : \A m \in 1 .. NRequest + 1 : Right(new[u]) # <<"done", Link(m)>>
    PROVE  GoesOn(n)'
<1>1. /\ agenda \in Seq(Call) /\ Len(agenda) \in Nat /\ Len(new) \in Nat
      /\ Before(new)
  BY DEF Types, Replaced, Before
<1>2. \A m \in 1 .. NRequest + 1 : ~isdone'[Link(m)]
  BY DEF GoesOn
<1>3. ASSUME NEW u \in 1 .. Len(agenda'), NEW m \in 1 .. NRequest + 1,
             Right(agenda'[u]) = <<"done", Link(m)>>
      PROVE  agenda'[u].call = "then" /\ m < n
  <2>1. ~(u <= Len(new))
    BY <1>1, <1>3, AgendaIs
  <2>2. PICK j \in 2 .. Len(agenda) : agenda'[u] = agenda[j]
    BY <1>1, <2>1, AgendaIs
  <2>3. j \in 1 .. Len(agenda)
    BY <1>1, AgendaIs
  <2> QED
    BY <1>3, <2>2, <2>3 DEF GoesOn
<1>4. \A p \in Promise : \A m \in 1 .. NRequest + 1 :
          Waiting(p)' /\ Waiter(p)' = Pass(Link(m)) => m < n
  BY DEF GoesOn, Replaced, Waiter
<1> QED
  BY <1>2, <1>3, <1>4 DEF GoesOn

\* The chain goes on somewhere else only if the step has nothing to do with it.
LEMMA ChainFitsKept ==
    ASSUME Types, ChainFits, NEW new, Replaced(new),
           Elsewhere(<<"chain", 0>>) =>
               /\ UNCHANGED given
               /\ \A m \in 1 .. NRequest + 1 : isdone'[Link(m)] => isdone[Link(m)]
               /\ \A u \in 1 .. Len(new) : \A m \in 1 .. NRequest + 1 :
                      Right(new[u]) # <<"done", Link(m)>>,
           \A u \in 1 .. Len(new) :
               /\ new[u].call = "chain" => GoesOn(new[u].n)'
               /\ new[u].call \in {"then", "apply"} /\ new[u].cb.do = "follow" =>
                      GoesOn(new[u].cb.of)' /\ DOMAIN given' = 1 .. new[u].cb.of
    PROVE  ChainFits'
<1>1. /\ agenda \in Seq(Call) /\ Len(agenda) \in Nat /\ Len(new) \in Nat
      /\ Before(new)
  BY DEF Types, Replaced, Before
<1>2. ASSUME Elsewhere(<<"chain", 0>>), NEW n, GoesOn(n) PROVE GoesOn(n)' /\ UNCHANGED given
  BY <1>2, GoesOnKept
<1>3. ASSUME NEW u \in 1 .. Len(agenda')
      PROVE  /\ agenda'[u].call = "chain" => GoesOn(agenda[u].n)'
             /\ agenda'[u].call \in {"then", "apply"} /\ agenda'[u].cb.do = "follow" =>
                    GoesOn(agenda[u].cb.of)' /\ DOMAIN given' = 1 .. agenda'[u].cb.of
  <2>1. CASE u <= Len(new)
    <3>1. agenda'[u] = new[u] /\ u \in 1 .. Len(new)
      BY <1>1, <2>1, AgendaIs
    <3> QED
      BY <3>1
  <2>2. CASE ~(u <= Len(new))
    <3>1. PICK j \in 2 .. Len(agenda), h \in Call : agenda'[u] = h /\ h = agenda[j]
      <4>1. PICK j \in 2 .. Len(agenda) : agenda'[u] = agenda[j]
        BY <1>1, <2>2, AgendaIs
      <4>2. agenda[j] \in Call
        BY <1>1, <4>1
      <4> QED
        BY <4>1, <4>2
    <3>2. j \in 1 .. Len(agenda)
      BY <1>1, AgendaIs
    <3>3. CASE h.call = "chain"
      <4>1. Right(h) = <<"chain", 0>> /\ GoesOn(h.n)
        BY <3>1, <3>2, <3>3, RightIs DEF ChainFits
      <4>2. Elsewhere(<<"chain", 0>>)
        BY <3>1, <4>1 DEF Elsewhere
      <4>3. GoesOn(h.n)'
        BY <1>2, <4>1, <4>2
      <4> QED
        BY <3>1, <3>3, <4>3
    <3>4. CASE h.call \in {"then", "apply"} /\ h.cb.do = "follow"
      <4>1. Right(h) = <<"chain", 0>> /\ GoesOn(h.cb.of) /\ DOMAIN given = 1 .. h.cb.of
        BY <3>1, <3>2, <3>4, RightIs, RightOfIs, CallIs DEF ChainFits
      <4>2. Elsewhere(<<"chain", 0>>)
        BY <3>1, <4>1 DEF Elsewhere
      <4>3. GoesOn(h.cb.of)' /\ UNCHANGED given
        BY <1>2, <4>1, <4>2
      <4> QED
        BY <3>1, <3>4, <4>1, <4>3
    <3> QED
      BY <3>1, <3>3, <3>4
  <2> QED
    BY <2>1, <2>2
<1>4. ASSUME NEW p \in Promise, Waiting(p)', Waiter(p)'.do = "follow"
      PROVE  GoesOn(Waiter(p).of)' /\ DOMAIN given' = 1 .. Waiter(p).of'
  <2>1. PICK cb : Waiting(p) /\ Waiter(p) = cb /\ Waiter(p)' = cb
    <3>1. Waiting(p) /\ Waiter(p)' = Waiter(p)
      BY <1>4 DEF Replaced, Waiter
    <3> QED
      BY <3>1
  <2>2. RightOf(cb) = <<"chain", 0>>
    BY <1>4, <2>1, WaiterIs, RightOfIs DEF Waiting
  <2>3. Elsewhere(<<"chain", 0>>)
    BY <2>1, <2>2 DEF Elsewhere
  <2>4. GoesOn(cb.of) /\ DOMAIN given = 1 .. cb.of
    BY <1>4, <2>1 DEF ChainFits
  <2>5. GoesOn(cb.of)' /\ UNCHANGED given
    BY <1>2, <2>3, <2>4
  <2> QED
    BY <2>1, <2>4, <2>5
<1> QED
  BY <1>3, <1>4 DEF ChainFits

LEMMA RelayFitsKept ==
    ASSUME Types, CallsFit, RelayFits, NEW new, Replaced(new),
           \/ xhr'[2] = xhr[2]
           \/ /\ \A u \in 2 .. Len(agenda) :
                     ~(agenda[u].call \in {"then", "apply"} /\ agenda[u].cb.do = "relay")
              /\ \A p \in Promise : ~(Waiting(p) /\ Waiter(p) = Relay),
           \A u \in 1 .. Len(new) :
               new[u].call \in {"then", "apply"} /\ new[u].cb.do = "relay" =>
                   new[u].call = "apply" /\ xhr'[2] = "unsent"
    PROVE  RelayFits'
<1>1. /\ agenda \in Seq(Call) /\ Len(agenda) \in Nat /\ Len(new) \in Nat
      /\ Before(new)
  BY DEF Types, Replaced, Before
<1>2. ASSUME NEW u \in 1 .. Len(agenda'),
             agenda'[u].call \in {"then", "apply"} /\ agenda'[u].cb.do = "relay"
      PROVE  agenda'[u].call = "apply" /\ xhr'[2] = "unsent"
  <2>1. CASE u <= Len(new)
    <3>1. agenda'[u] = new[u] /\ Len(new) \in Nat
      BY <1>1, <2>1, AgendaIs, SMTT(30)
    <3>2. u \in 1 .. Len(new)
      BY <2>1, <3>1
    <3> QED
      BY <1>2, <3>1, <3>2
  <2>2. CASE ~(u <= Len(new))
    <3>1. PICK j \in 2 .. Len(agenda) : agenda'[u] = agenda[j]
      BY <1>1, <2>2, AgendaIs
    <3>2. j \in 1 .. Len(agenda) /\ Len(agenda) # 1 /\ xhr'[2] = xhr[2]
      BY <1>1, <1>2, <3>1
    <3>3. agenda[j].cb # Relay \/ agenda[j].call # "then"
      BY <3>2 DEF RelayFits
    <3>4. agenda[j].call = "then" => agenda[j].cb = Relay
      <4>1. ASSUME agenda[j].call = "then"
            PROVE  Waits(agenda[j].p, agenda[j].cb) \/ Late(agenda[j].p, agenda[j].cb)
        BY <3>2, <4>1 DEF CallsFit, Fits
      <4>2. ~Late(agenda[j].p, agenda[j].cb)
        <5>1. agenda[j].cb.do = "relay" /\ \A c : Tell(c).do = "tell"
          BY <1>2, <3>1 DEF Tell
        <5> QED
          BY <5>1 DEF Late
      <4> QED
        BY <1>2, <3>1, <4>1, <4>2, WaitsIs
    <3> QED
      BY <1>2, <3>1, <3>2, <3>3, <3>4 DEF RelayFits
  <2> QED
    BY <2>1, <2>2
<1>3. \A p \in Promise : Waiting(p)' /\ Waiter(p)' = Relay => xhr'[2] = "unsent"
  BY DEF Replaced, Waiter, RelayFits
<1>4. Relay.do = "relay"
  BY Callbacks
<1> QED
  BY <1>2, <1>3, <1>4 DEF RelayFits

--------------------
(* The other parts, when a step leaves alone what they are about. *)

\* Nothing is sent and nothing is answered.
Unanswered == UNCHANGED <<plan, hasXhr, xhr, timer, isdone, result>>

LEMMA QuietIsCalm ==
    ASSUME Unanswered, DOMAIN results \subseteq DOMAIN results', DOMAIN results' \subseteq Request
    PROVE  Calm /\ SentStays
  BY DEF Unanswered, Calm, SentStays, FirstAnswer

LEMMA DoneFitsKept ==
    ASSUME DoneFits, Calm,
           \A p \in Promise : p[1] # "ajax" /\ isdone'[p] => isdone[p] /\ result'[p] = result[p]
    PROVE  DoneFits'
<1>1. isdone'[Joined] => AllNotified'
  BY Promises, AllNotifiedKept DEF DoneFits
<1>2. ASSUME NEW n \in 1 .. NRequest + 1, isdone'[Link(n)] PROVE Ended(result[Link(n)])'
  <2>1. isdone[Link(n)] /\ result'[Link(n)] = result[Link(n)]
    BY <1>2, Promises
  <2>2. PICK a : a = result[Link(n)] /\ a = result'[Link(n)]
    BY <2>1
  <2>3. Ended(a)'
    BY <2>1, <2>2, EndedKept DEF DoneFits
  <2> QED
    BY <2>2, <2>3
<1> QED
  BY <1>1, <1>2 DEF DoneFits

LEMMA AnswersKept ==
    ASSUME Types, Calm
    PROVE  /\ ResultsFit /\ UNCHANGED <<results, numdone>> => ResultsFit'
           /\ GivenFits /\ UNCHANGED given => GivenFits'
           /\ ToldFits /\ UNCHANGED told => ToldFits'
<1>1. ASSUME ResultsFit, UNCHANGED <<results, numdone>> PROVE ResultsFit'
  <2>1. \A r \in DOMAIN results : r \in Request /\ Of(r) \in Promise
    BY Promises DEF Types, AjaxTypeOK
  <2> QED
    BY <1>1, <2>1 DEF ResultsFit, Calm
<1>2. ASSUME GivenFits, UNCHANGED given PROVE GivenFits'
  <2>1. \A n \in DOMAIN given : n > 1 => n - 1 \in Request /\ Of(n - 1) \in Promise
    <3>1. \A n \in Request : n > 1 => n - 1 \in Request
      BY NRequestAssumption DEF Request
    <3> QED
      BY <3>1, Promises DEF Types
  <2> QED
    BY <1>2, <2>1 DEF GivenFits, Calm
<1>3. ASSUME ToldFits, UNCHANGED told PROVE ToldFits'
  <2>1. \A a : Ended(a) => Ended(a)'
    BY EndedKept
  <2>2. PICK a : a = told[TheWhole][1] /\ a = told'[TheWhole][1]
    BY <1>3
  <2> QED
    BY <1>3, <2>1, <2>2, AllNotifiedKept DEF ToldFits, Calm
<1> QED
  BY <1>1, <1>2, <1>3

LEMMA RequestsKept ==
    ASSUME RequestsFit, Unanswered, UNCHANGED <<given, told>>, plan = "each" => UNCHANGED called
    PROVE  RequestsFit'
  BY DEF RequestsFit, Unanswered

LEMMA UntouchedKept ==
    ASSUME Untouched, UNCHANGED plan, called \subseteq called',
           agenda # <<>> \/ called' # {} \/ plan = "each"
    PROVE  Untouched'
  BY DEF Untouched

\* A step that makes calls, and does nothing else.
LEMMA QuietStep ==
    ASSUME IInv, Unanswered, UNCHANGED <<callbacks, results, numdone, given, told>>,
           called \subseteq called', called' \subseteq Request, plan = "each" => UNCHANGED called,
           agenda # <<>> \/ called' # {} \/ plan = "each",
           NEW new \in Seq(Call), agenda' = IF agenda = <<>> THEN new ELSE new \o Tail(agenda),
           agenda # <<>> => agenda[1].call \notin {"done", "empty"},
           \A u, j \in 1 .. Len(new) : Right(new[u]) = Right(new[j]) => u = j,
           \A u \in 1 .. Len(new) :
               /\ ~Elsewhere(Right(new[u])) /\ ~Used(Right(new[u])) /\ Fits(new[u])
               /\ new[u].call = "done" => new[u].p[1] # "ajax"
               /\ new[u].call = "chain" => GoesOn(new[u].n)'
               /\ new[u].call \in {"then", "apply"} /\ new[u].cb.do = "follow" =>
                      GoesOn(new[u].cb.of)' /\ DOMAIN given = 1 .. new[u].cb.of
               /\ new[u].call \in {"then", "apply"} /\ new[u].cb.do = "relay" =>
                      new[u].call = "apply" /\ xhr[2] = "unsent"
               /\ Elsewhere(<<"chain", 0>>) =>
                      \A m \in 1 .. NRequest + 1 : Right(new[u]) # <<"done", Link(m)>>
    PROVE  IInv'
<1>1. /\ Types /\ Distinct /\ Unused /\ CallsFit /\ WaitersFit /\ RequestsFit /\ DoneFits
      /\ ResultsFit /\ GivenFits /\ ToldFits /\ ChainFits /\ RelayFits /\ Untouched
  BY DEF IInv
<1>2. Replaced(new) /\ Before(new)
  BY DEF Replaced, Before, Unanswered, Waiting
<1>3. Calm /\ SentStays
  <2>1. DOMAIN results \subseteq Request
    BY <1>1 DEF Types, AjaxTypeOK
  <2> QED
    BY <2>1, QuietIsCalm
<1>4. Types'
  <2>1. agenda' \in Seq(Call)
    BY <1>1, <1>2, AgendaIs
  <2>2. AjaxTypeOK'
    BY <1>1 DEF Types, AjaxTypeOK, Unanswered
  <2> QED
    BY <1>1, <2>1, <2>2 DEF Types, Unanswered
<1>5. Distinct'
  BY <1>1, <1>2, DistinctKept, StaysElsewhere
<1>6. Unused'
  <2>1. \A right : Used(right)' <=> Used(right)
    BY DEF Used, Unanswered
  <2> QED
    BY <1>1, <1>2, <2>1, UnusedKept, StaysElsewhere
<1>7. CallsFit'
  <2>1. \A h \in Call : Fits(h) => Fits(h)'
    BY <1>3, FitsKept
  <2>2. \A u \in 1 .. Len(new) : new[u] \in Call
    OBVIOUS
  <2>3. \A p \in Promise : isdone[p] => result'[p] = result[p]
    BY DEF Unanswered
  <2>4. \A u \in 1 .. Len(new) : Fits(new[u])'
    BY <2>1, <2>2
  <2> QED
    BY <1>1, <1>2, <1>3, <2>3, <2>4, CallsFitKept
<1>8. WaitersFit'
  BY <1>1, <1>2, <1>3, WaitersFitKept DEF Unanswered
<1>9. RequestsFit' /\ DoneFits' /\ ResultsFit' /\ GivenFits' /\ ToldFits'
  <2>1. DoneFits'
    BY <1>1, <1>3, DoneFitsKept DEF Unanswered
  <2> QED
    BY <1>1, <1>3, <2>1, RequestsKept, AnswersKept
<1>10. ChainFits'
  <2>1. \A m \in 1 .. NRequest + 1 : isdone'[Link(m)] => isdone[Link(m)]
    BY DEF Unanswered
  <2> QED
    BY <1>1, <1>2, <2>1, ChainFitsKept
<1>11. RelayFits' /\ Untouched'
  <2>1. xhr'[2] = xhr[2] /\ UNCHANGED plan
    BY DEF Unanswered
  <2> QED
    BY <1>1, <1>2, <2>1, RelayFitsKept, UntouchedKept
<1> QED
  BY <1>4, <1>5, <1>6, <1>7, <1>8, <1>9, <1>10, <1>11 DEF IInv

\* The head of the agenda.
LEMMA HeadIs ==
    ASSUME IInv, agenda # <<>>
    PROVE  /\ Head(agenda) = agenda[1] /\ agenda[1] \in Call
           /\ Fits(agenda[1]) /\ AnswerFits(1, agenda[1])
           /\ ~Used(Right(agenda[1])) /\ ~Elsewhere(Right(agenda[1]))
           /\ 1 \in 1 .. Len(agenda)
<1>1. Types /\ Distinct /\ Unused /\ CallsFit
  BY DEF IInv
<1>2. Head(agenda) = agenda[1] /\ agenda[1] \in Call /\ 1 \in 1 .. Len(agenda)
  BY <1>1 DEF Types
<1> QED
  BY <1>1, <1>2, HeadAlone DEF CallsFit, Unused

\* Whoever has the right to go on with the chain knows where it goes on.
LEMMA SomewhereGoesOn ==
    ASSUME Types, ChainFits,
           Elsewhere(<<"chain", 0>>) \/ \E u \in 1 .. Len(agenda) : Right(agenda[u]) = <<"chain", 0>>
    PROVE  \E n : GoesOn(n)
<1>1. CASE \E u \in 1 .. Len(agenda) : Right(agenda[u]) = <<"chain", 0>>
  <2>1. PICK u \in 1 .. Len(agenda) : Right(agenda[u]) = <<"chain", 0>>
    BY <1>1
  <2>2. agenda[u] \in Call
    BY DEF Types
  <2> QED
    BY <2>1, <2>2, HasRight DEF ChainFits
<1>2. CASE \E p \in Promise : Waiting(p) /\ RightOf(Waiter(p)) = <<"chain", 0>>
  <2>1. PICK p \in Promise : Waiting(p) /\ RightOf(Waiter(p)) = <<"chain", 0>>
    BY <1>2
  <2>2. Waiter(p) \in Continuer
    BY <2>1, WaiterIs DEF Waiting
  <2> QED
    BY <2>1, <2>2, HasRightOf DEF ChainFits
<1>3. Len(agenda) \in Nat
  BY DEF Types
<1> QED
  BY <1>1, <1>2, <1>3 DEF Elsewhere

\* A single call, made in a handler or by the page.
LEMMA OneCall ==
    ASSUME IInv, Unanswered, UNCHANGED <<called, callbacks, results, numdone, given, told>>,
           NEW y \in Call, agenda' = IF agenda = <<>> THEN <<y>> ELSE <<y>> \o Tail(agenda),
           agenda # <<>> => agenda[1].call \notin {"done", "empty"},
           agenda # <<>> \/ plan = "each",
           ~Elsewhere(Right(y)), ~Used(Right(y)), Fits(y),
           y.call = "done" => y.p[1] # "ajax", y.call # "chain",
           y.call \in {"then", "apply"} /\ y.cb.do = "follow" =>
               GoesOn(y.cb.of)' /\ DOMAIN given = 1 .. y.cb.of,
           y.call \in {"then", "apply"} /\ y.cb.do = "relay" => y.call = "apply" /\ xhr[2] = "unsent",
           Elsewhere(<<"chain", 0>>) => \A m \in 1 .. NRequest + 1 : Right(y) # <<"done", Link(m)>>
    PROVE  IInv'
<1>1. PICK new \in Seq(Call) : new = <<y>> /\ Len(new) = 1 /\ new[1] = y
  <2>1. <<y>> \in Seq(Call) /\ Len(<<y>>) = 1 /\ <<y>>[1] = y
    OBVIOUS
  <2> QED
    BY <2>1
<1>2. \A u \in 1 .. Len(new) : u = 1 /\ new[u] = y
  BY <1>1
<1>3. \A u, j \in 1 .. Len(new) : Right(new[u]) = Right(new[j]) => u = j
  BY <1>2
<1>4. called \subseteq called' /\ called' \subseteq Request
  BY DEF IInv, Types, AjaxTypeOK
<1>5. agenda' = IF agenda = <<>> THEN new ELSE new \o Tail(agenda)
  BY <1>1
<1>6. agenda # <<>> \/ called' # {} \/ plan = "each"
  OBVIOUS
<1>7. /\ \A u \in 1 .. Len(new) :
          /\ ~Elsewhere(Right(new[u])) /\ ~Used(Right(new[u])) /\ Fits(new[u])
          /\ new[u].call = "done" => new[u].p[1] # "ajax"
          /\ new[u].call # "chain"
          /\ new[u].call \in {"then", "apply"} /\ new[u].cb.do = "relay" =>
                 new[u].call = "apply" /\ xhr[2] = "unsent"
          /\ Elsewhere(<<"chain", 0>>) =>
                 \A m \in 1 .. NRequest + 1 : Right(new[u]) # <<"done", Link(m)>>
  BY <1>2
<1>8. \A u \in 1 .. Len(new) : new[u].call \in {"then", "apply"} /\ new[u].cb.do = "follow" =>
          GoesOn(new[u].cb.of)' /\ DOMAIN given = 1 .. new[u].cb.of
  BY <1>2
<1> QED
  BY <1>3, <1>4, <1>5, <1>6, <1>7, <1>8, QuietStep

--------------------
(* Steps that only make calls. *)

LEMMA PairsDiffer ==
    /\ \A p, q : <<"done", p>> = <<"done", q>> => p = q
    /\ \A p, q : <<"tell", p>> = <<"tell", q>> => p = q
    /\ \A p, q : <<"empty", p>> = <<"empty", q>> => p = q
    /\ \A m, n : Link(m) = Link(n) => m = n
    /\ \A m, n : Of(m) = Of(n) => m = n
    /\ \A m : Link(m) # Relayed /\ Link(m) # Joined /\ Of(m) # Relayed /\ Of(m) # Joined
    /\ \A m, n : Link(m) # Of(n)
    /\ Joined # Relayed
    /\ \A p, q : Pass(p) = Pass(q) => p = q
    /\ \A p, q : Tell(p) = Tell(q) => p = q
<1>1. \A p, q : Pass(p) = Pass(q) => p = q
  <2>1. \A p : Pass(p).of = p
    BY DEF Pass
  <2> QED
    BY <2>1
<1>2. \A p, q : Tell(p) = Tell(q) => p = q
  <2>1. \A p : Tell(p).of = p
    BY DEF Tell
  <2> QED
    BY <2>1
<1> QED
  BY <1>1, <1>2 DEF Link, Of, Relayed, Joined

LEMMA TellsDiffer ==
    /\ \A r : /\ Tell(<<"each", r>>).of[2] = r /\ Tell(<<"late", r>>).of[2] = r
             /\ Tell(<<"each", r>>) # Tell(TheWhole) /\ Tell(<<"late", r>>) # Tell(TheWhole)
    /\ \A q, r : Tell(<<"late", r>>) # Tell(<<"each", q>>)
    /\ \A cb : cb.do # "tell" => \A c : cb # Tell(c)
<1>1. \A c, d : c # d => Tell(c) # Tell(d)
  BY PairsDiffer
<1>2. \A q, r : /\ <<"each", r>> # TheWhole /\ <<"late", r>> # TheWhole
               /\ <<"late", r>> # <<"each", q>>
  BY DEF TheWhole
<1>3. \A c : Tell(c).of = c /\ Tell(c).do = "tell"
  BY DEF Tell
<1>4. \A r : <<"each", r>>[2] = r /\ <<"late", r>>[2] = r
  OBVIOUS
<1> QED
  BY <1>1, <1>2, <1>3, <1>4

LEMMA LateIs ==
    ASSUME NEW p, NEW cb, Late(p, cb)
    PROVE  /\ plan = "each" /\ cb.do = "tell" /\ ~Waits(p, cb) /\ cb # Tell(TheWhole)
           /\ \E r \in Request : p = Of(r) /\ cb = Tell(<<"late", r>>) /\ cb.of[2] = r
<1>1. PICK r \in Request : plan = "each" /\ p = Of(r) /\ cb = Tell(<<"late", r>>)
  BY DEF Late
<1>2. cb.do = "tell" /\ cb.of[2] = r /\ cb # Tell(TheWhole) /\ \A q : cb # Tell(<<"each", q>>)
  BY <1>1, TellsDiffer
<1>3. ~Waits(p, cb)
  <2>1. ~\E q \in Request : p = Of(q) /\ cb = Tell(<<"each", q>>)
    BY <1>2
  <2> QED
    BY <1>1, <1>2, <2>1, WaitsIs
<1> QED
  BY <1>1, <1>2, <1>3

\* The callback is called at once: the promise is done already.
LEMMA ThenDone ==
    ASSUME IInv, Then, isdone[Head(agenda).p] PROVE IInv'
<1>0. /\ Types /\ Distinct /\ Unused /\ CallsFit /\ WaitersFit /\ RequestsFit /\ DoneFits
      /\ ResultsFit /\ GivenFits /\ ToldFits /\ ChainFits /\ RelayFits
  BY DEF IInv
<1>1. agenda # <<>>
  BY DEF Then, Doing
<1>2. PICK h \in Call : /\ h = agenda[1] /\ Head(agenda) = h
                        /\ h.call = "then" /\ h.p \in Promise /\ h.cb \in Continuer
                        /\ Fits(h) /\ ~Used(Right(h)) /\ ~Elsewhere(Right(h))
                        /\ Right(h) = RightOf(h.cb) /\ isdone[h.p] /\ 1 \in 1 .. Len(agenda)
  <2>1. Head(agenda).call = "then"
    BY DEF Then, Doing
  <2> QED
    BY <1>1, <2>1, HeadIs, CallIs, RightIs
<1>3. PICK cb : cb = IF h.cb = Relay THEN [Relay EXCEPT !.of = Of(2)] ELSE h.cb
  OBVIOUS
<1>4. PICK y : y = CallBack(cb, result[h.p])
  OBVIOUS
<1>5. /\ Unanswered /\ UNCHANGED <<called, callbacks, results, numdone, given, told>>
      /\ agenda' = <<y>> \o Tail(agenda)
  BY <1>2, <1>3, <1>4 DEF Then, SendNothing, Unanswered
<1>6. /\ cb \in Continuer /\ (h.cb = Relay => cb.do = "relay" /\ cb # Relay)
      /\ (h.cb # Relay => cb = h.cb)
  BY <1>2, <1>3, Callbacks
<1>7. result[h.p] \in Answer
  BY <1>0, <1>2 DEF Types, AjaxTypeOK
<1>8. /\ y \in Call /\ y.call = "apply" /\ y.cb = cb /\ y.a = result[h.p] /\ Right(y) = RightOf(cb)
  BY <1>4, <1>6, <1>7, NewCalls
<1>9. Waits(h.p, h.cb) \/ Late(h.p, h.cb)
  BY <1>2 DEF Fits
<1>10. ASSUME NEW r \in Request, h.p = Of(r), Waits(h.p, h.cb)
       PROVE  xhr[r] = "none" /\ ~hasXhr /\ result[h.p] = FirstAnswer(r)
  <2>1. xhr[r] \in {"sent", "none"}
    <3>1. ~Late(h.p, h.cb)
      BY <1>10, LateIs
    <3> QED
      BY <1>2, <1>10, <3>1 DEF Fits
  <2>2. isdone[Of(r)]
    BY <1>2, <1>10
  <2>3. xhr[r] = "none" /\ ~hasXhr /\ result[Of(r)] = "ENOXHR"
    BY <1>0, <2>1, <2>2 DEF RequestsFit
  <2> QED
    BY <1>10, <2>3 DEF FirstAnswer
<1>11. Told(cb, result[h.p])
  <2>1. CASE h.cb = Relay
    <3>1. h.cb.do = "relay" /\ ~Late(h.p, h.cb)
      BY <2>1, Callbacks, LateIs
    <3>2. plan = "relay" /\ h.p = Of(1) /\ ~hasXhr
      BY <1>9, <1>10, <3>1, WaitsIs, Promises
    <3>3. cb # Tell(TheWhole)
      BY <1>6, <2>1, TellsDiffer
    <3> QED
      BY <1>3, <1>6, <2>1, <3>2, <3>3 DEF Told
  <2>2. CASE h.cb # Relay /\ h.cb.do = "relay"
    <3>1. ~Late(h.p, h.cb)
      BY <2>2, LateIs
    <3> QED
      BY <1>9, <2>2, <3>1, WaitsIs
  <2>3. CASE h.cb.do \in {"notify", "follow"}
    <3>1. ~Late(h.p, h.cb) /\ h.cb # Tell(TheWhole) /\ h.cb # Relay
      BY <2>3, Callbacks, TellsDiffer, LateIs
    <3>2. Waits(h.p, h.cb)
      BY <1>9, <3>1
    <3> QED
      BY <1>2, <1>6, <1>10, <2>3, <3>1, <3>2, WaitsIs DEF Told
  <2>4. CASE h.cb.do = "pass"
    <3>1. ~Late(h.p, h.cb) /\ h.cb # Tell(TheWhole) /\ h.cb # Relay
      BY <2>4, Callbacks, TellsDiffer, LateIs
    <3>2. CASE plan = "chain" /\ \E n \in Request : h.p = Link(n + 1) /\ h.cb = Pass(Link(n))
      <4>1. PICK n \in Request : h.p = Link(n + 1) /\ h.cb = Pass(Link(n))
        BY <3>2
      <4>2. Ended(result[h.p]) /\ h.cb.of = Link(n)
        BY <1>0, <1>2, <4>1, Promises, Callbacks, SMTT(30) DEF DoneFits
      <4> QED
        BY <1>6, <2>4, <3>1, <4>2 DEF Told
    <3>3. CASE plan = "relay" /\ h.cb = Pass(Relayed)
      BY <1>6, <2>4, <3>1, <3>3, Promises, Callbacks DEF Told
    <3> QED
      BY <1>9, <2>4, <3>1, <3>2, <3>3, WaitsIs
  <2>5. CASE h.cb.do = "tell"
    <3>1. cb = h.cb
      BY <1>6, <2>5, Callbacks
    <3>2. CASE Late(h.p, h.cb)
      <4>0. plan = "each"
        BY <3>2, LateIs
      <4>1. PICK r \in Request : h.p = Of(r) /\ h.cb = Tell(<<"late", r>>)
        BY <3>2 DEF Late
      <4>2. h.cb # Tell(TheWhole)
        BY <3>2, LateIs
      <4>3. isdone[Of(h.cb.of[2])]
        <5>1. Of(h.cb.of[2]) = h.p
          BY <4>1, TellsDiffer
        <5> QED
          BY <1>2, <5>1
      <4> QED
        BY <2>5, <3>1, <4>0, <4>2, <4>3 DEF Told
    <3>3. CASE plan = "each" /\ \E r \in Request : h.p = Of(r) /\ h.cb = Tell(<<"each", r>>)
      <4>1. PICK r \in Request : plan = "each" /\ h.p = Of(r) /\ h.cb = Tell(<<"each", r>>)
        BY <3>3
      <4>2. h.cb # Tell(TheWhole) /\ h.cb.of[2] = r
        BY <4>1, TellsDiffer
      <4> QED
        BY <1>2, <2>5, <3>1, <4>1, <4>2 DEF Told
    <3>4. CASE plan = "join" /\ h.p = Joined /\ h.cb = Tell(TheWhole)
      BY <1>0, <1>2, <2>5, <3>1, <3>4 DEF Told, DoneFits
    <3>5. CASE plan = "chain" /\ h.p = Link(1) /\ h.cb = Tell(TheWhole)
      <4>1. Ended(result[h.p])
        BY <1>0, <1>2, <3>5, Promises DEF DoneFits
      <4> QED
        BY <2>5, <3>1, <3>5, <4>1 DEF Told
    <3>6. CASE plan = "relay" /\ h.cb = Tell(TheWhole)
      BY <2>5, <3>1, <3>6 DEF Told
    <3> QED
      BY <1>9, <2>5, <3>2, <3>3, <3>4, <3>5, <3>6, WaitsIs, SMTT(30)
  <2> QED
    BY <1>2, <2>1, <2>2, <2>3, <2>4, <2>5, CallbackIs
<1>12. ~Elsewhere(Right(y)) /\ ~Used(Right(y))
  <2>1. CASE h.cb # Relay
    BY <1>2, <1>6, <1>8, <2>1
  <2>2. CASE h.cb = Relay
    <3>1. Right(y) = <<"tell", TheWhole>>
      BY <1>6, <1>8, <2>2, RightOfIs
    <3>2. Len(agenda) = 1 /\ told[TheWhole] = <<>> /\ \A p \in Promise : callbacks[p] = <<>>
      BY <1>0, <1>2, <2>2 DEF RelayFits
    <3> QED
      BY <3>1, <3>2 DEF Elsewhere, Used, Waiting
  <2> QED
    BY <2>1, <2>2
<1>13. ASSUME y.cb.do = "follow" PROVE GoesOn(y.cb.of)' /\ DOMAIN given = 1 .. y.cb.of
  <2>1. h.cb.do = "follow" /\ y.cb = h.cb
    BY <1>6, <1>8, <1>13, Callbacks
  <2>2. GoesOn(h.cb.of) /\ DOMAIN given = 1 .. h.cb.of
    BY <1>0, <1>2, <2>1 DEF ChainFits
  <2>3. PICK n : n = h.cb.of
    OBVIOUS
  <2>4. Right(y) = <<"chain", 0>>
    BY <1>6, <1>8, <2>1, RightOfIs
  <2>5. Replaced(<<y>>)
    BY <1>1, <1>5, <1>8 DEF Replaced, Before, Unanswered, Waiting
  <2>6. \A u \in 1 .. Len(<<y>>) : <<y>>[u] = y
    OBVIOUS
  <2>7. \A m \in 1 .. NRequest + 1 : isdone'[Link(m)] => isdone[Link(m)]
    BY <1>5 DEF Unanswered
  <2>8. \A u \in 1 .. Len(<<y>>) : \A m \in 1 .. NRequest + 1 : Right(<<y>>[u]) # <<"done", Link(m)>>
    BY <2>4, <2>6
  <2>9. GoesOn(n)'
    BY <1>0, <2>2, <2>3, <2>5, <2>7, <2>8, GoesOnKept
  <2> QED
    BY <2>1, <2>2, <2>3, <2>9
<1>14. ASSUME y.cb.do = "relay" PROVE xhr[2] = "unsent"
  <2>1. h.cb.do = "relay"
    BY <1>6, <1>8, <1>14, Callbacks
  <2> QED
    BY <1>0, <1>2, <2>1 DEF RelayFits
<1>15. ASSUME Elsewhere(<<"chain", 0>>), NEW m \in 1 .. NRequest + 1
       PROVE  Right(y) # <<"done", Link(m)>>
  <2>1. PICK n : GoesOn(n)
    BY <1>0, <1>15, SomewhereGoesOn
  <2>2. ASSUME Right(y) = <<"done", Link(m)>> PROVE FALSE
    <3>1. cb = Pass(Link(m)) /\ h.cb = cb
      <4>1. RightOf(cb) = <<"done", Link(m)>> /\ Link(m) # Relayed
        BY <1>8, <2>2, PairsDiffer
      <4>2. cb = Pass(Link(m))
        BY <1>6, <4>1, HasRightOf
      <4>3. cb.do = "pass"
        BY <4>2, Promises, Callbacks
      <4> QED
        BY <1>6, <4>2, <4>3
    <3>2. h.cb.do = "pass" /\ h.cb.of = Link(m) /\ ~Late(h.p, h.cb)
      BY <3>1, Promises, Callbacks, LateIs
    <3>3. \/ \E k \in Request : h.p = Link(k + 1)
          \/ h.cb = Pass(Relayed)
      BY <1>9, <3>2, WaitsIs
    <3>4. h.cb # Pass(Relayed)
      BY <3>1, PairsDiffer
    <3> QED
      BY <1>2, <2>1, <3>3, <3>4, Promises DEF GoesOn
  <2> QED
    BY <2>2
<1>16. Fits(y)
  BY <1>8, <1>11 DEF Fits
<1>17. agenda' = IF agenda = <<>> THEN <<y>> ELSE <<y>> \o Tail(agenda)
  BY <1>1, <1>5
<1> QED
  BY <1>1, <1>2, <1>5, <1>8, <1>12, <1>13, <1>14, <1>15, <1>16, <1>17, OneCall

\* Two calls, made in a handler or by the page.
LEMMA TwoCalls ==
    ASSUME NEW y \in Call, NEW z \in Call
    PROVE  /\ <<y, z>> \in Seq(Call) /\ Len(<<y, z>>) = 2
           /\ <<y, z>>[1] = y /\ <<y, z>>[2] = z
           /\ \A u \in 1 .. Len(<<y, z>>) : u = 1 \/ u = 2
  OBVIOUS

LEMMA ApplyFollowStep ==
    ASSUME IInv, ApplyFollow PROVE IInv'
<1>0. Types /\ ChainFits
  BY DEF IInv
<1>1. agenda # <<>>
  BY DEF ApplyFollow, Applying, Doing
<1>2. PICK h \in Call : /\ h = agenda[1] /\ Head(agenda) = h /\ h.call = "apply"
                        /\ h.cb \in Continuer /\ h.a \in Answer /\ h.cb.do = "follow"
                        /\ Fits(h) /\ ~Used(Right(h)) /\ ~Elsewhere(Right(h))
                        /\ Right(h) = <<"chain", 0>> /\ 1 \in 1 .. Len(agenda)
  <2>1. Head(agenda).call = "apply" /\ Head(agenda).cb.do = "follow"
    BY DEF ApplyFollow, Applying, Doing
  <2> QED
    BY <1>1, <2>1, HeadIs, CallIs, RightIs, RightOfIs
<1>3. PICK n \in Request : /\ n = h.cb.of /\ GoesOn(n) /\ DOMAIN given = 1 .. n
                           /\ plan = "chain" /\ isdone[Of(n)] /\ h.a = FirstAnswer(n)
  BY <1>0, <1>2, CallbackIs DEF ChainFits, Fits, Told
<1>4. PICK y, z : y = CallChain(n + 1, h.a) /\ z = CallThen(Link(n + 1), Pass(Link(n)))
  OBVIOUS
<1>5. /\ Unanswered /\ UNCHANGED <<called, callbacks, results, numdone, given, told>>
      /\ agenda' = <<y, z>> \o Tail(agenda)
  BY <1>2, <1>3, <1>4 DEF ApplyFollow, SendNothing, Unanswered
<1>6. /\ n \in 1 .. NRequest + 1 /\ n + 1 \in 1 .. NRequest + 1 /\ n \in Nat /\ n > 0
      /\ Link(n) \in Promise /\ Link(n + 1) \in Promise /\ Pass(Link(n)) \in Continuer
      /\ Pass(Link(n)).do = "pass" /\ Pass(Link(n)).of = Link(n)
  <2>1. n \in 1 .. NRequest + 1 /\ n + 1 \in 1 .. NRequest + 1 /\ n \in Nat /\ n > 0
    BY NRequestAssumption DEF Request
  <2>2. Link(n) \in Promise /\ Link(n + 1) \in Promise
    BY <2>1, Promises
  <2> QED
    BY <2>1, <2>2, Callbacks
<1>7. /\ y \in Call /\ y.call = "chain" /\ y.n = n + 1 /\ y.a = h.a /\ Right(y) = <<"chain", 0>>
      /\ z \in Call /\ z.call = "then" /\ z.p = Link(n + 1) /\ z.cb = Pass(Link(n))
      /\ Right(z) = <<"done", Link(n)>>
  <2>1. RightOf(Pass(Link(n))) = <<"done", Link(n)>>
    BY <1>6, RightOfIs
  <2> QED
    BY <1>2, <1>4, <1>6, <2>1, NewCalls
<1>8. PICK new \in Seq(Call) : new = <<y, z>> /\ Len(new) = 2 /\ new[1] = y /\ new[2] = z
  <2>1. /\ <<y, z>> \in Seq(Call) /\ Len(<<y, z>>) = 2
        /\ <<y, z>>[1] = y /\ <<y, z>>[2] = z
    BY <1>7
  <2> QED
    BY <2>1
<1>9. \A u \in 1 .. Len(new) : (u = 1 /\ new[u] = y) \/ (u = 2 /\ new[u] = z)
  BY <1>8
<1>10. ~Elsewhere(Right(z)) /\ ~Used(Right(z))
  <2>1. ~isdone[Link(n)]
    BY <1>3, <1>6 DEF GoesOn
  <2>2. ASSUME NEW u \in 2 .. Len(agenda), Right(agenda[u]) = <<"done", Link(n)>> PROVE FALSE
    <3>1. u \in 1 .. Len(agenda)
      BY <1>0 DEF Types
    <3> QED
      BY <1>3, <1>6, <2>2, <3>1 DEF GoesOn
  <2>3. ASSUME NEW p \in Promise, Waiting(p), RightOf(Waiter(p)) = <<"done", Link(n)>> PROVE FALSE
    <3>1. Waiter(p) \in Continuer
      BY <1>0, <2>3, WaiterIs DEF Waiting
    <3>2. Waiter(p) = Pass(Link(n))
      BY <2>3, <3>1, HasRightOf, PairsDiffer
    <3> QED
      BY <1>3, <1>6, <2>3, <3>2 DEF GoesOn
  <2> QED
    BY <1>7, <2>1, <2>2, <2>3 DEF Elsewhere, Used
<1>11. ~Elsewhere(Right(y)) /\ ~Used(Right(y))
  BY <1>2, <1>7
<1>12. Fits(y) /\ Fits(z)
  <2>1. Fits(y)
    <3>1. DOMAIN given = 1 .. y.n - 1 /\ isdone[Of(y.n - 1)] /\ y.a = FirstAnswer(y.n - 1)
      BY <1>3, <1>6, <1>7
    <3> QED
      BY <1>3, <1>7, <3>1 DEF Fits
  <2>2. Fits(z)
    <3>1. Waits(z.p, z.cb)
      BY <1>3, <1>7 DEF Waits
    <3> QED
      BY <1>7, <3>1, PairsDiffer DEF Fits
  <2> QED
    BY <2>1, <2>2
<1>13. Replaced(new) /\ Before(new)
  BY <1>1, <1>5, <1>8 DEF Replaced, Before, Unanswered, Waiting
<1>14. ASSUME NEW k, k = n + 1 PROVE GoesOn(k)'
  <2>1. \A m \in 1 .. NRequest + 1 : ~isdone'[Link(m)]
    BY <1>3, <1>5 DEF GoesOn, Unanswered
  <2>2. ASSUME NEW u \in 1 .. Len(agenda'), NEW m \in 1 .. NRequest + 1,
               Right(agenda'[u]) = <<"done", Link(m)>>
        PROVE  agenda'[u].call = "then" /\ m < k
    <3>1. CASE u <= Len(new)
      <4>1. u \in 1 .. Len(new) /\ agenda'[u] = new[u]
        BY <1>0, <1>13, <3>1, AgendaIs
      <4>2. agenda'[u] = z /\ Link(m) = Link(n)
        BY <1>7, <1>9, <2>2, <4>1, PairsDiffer
      <4>3. m = n
        BY <4>2, PairsDiffer
      <4> QED
        BY <1>6, <1>7, <1>14, <4>2, <4>3
    <3>2. CASE ~(u <= Len(new))
      <4>1. PICK j \in 2 .. Len(agenda) : agenda'[u] = agenda[j]
        BY <1>0, <1>13, <3>2, AgendaIs
      <4>2. j \in 1 .. Len(agenda)
        BY <1>0 DEF Types
      <4>3. agenda[j].call = "then" /\ m < n
        BY <1>3, <2>2, <4>1, <4>2 DEF GoesOn
      <4> QED
        BY <1>6, <1>14, <4>1, <4>3
    <3> QED
      BY <3>1, <3>2
  <2>3. ASSUME NEW p \in Promise, NEW m \in 1 .. NRequest + 1, Waiting(p)', Waiter(p)' = Pass(Link(m))
        PROVE  m < k
    <3>1. Waiting(p) /\ Waiter(p) = Pass(Link(m))
      BY <1>5, <2>3 DEF Unanswered, Waiting, Waiter
    <3> QED
      BY <1>3, <1>6, <1>14, <3>1 DEF GoesOn
  <2> QED
    BY <2>1, <2>2, <2>3 DEF GoesOn
<1>15. \A u \in 1 .. Len(new) :
           /\ ~Elsewhere(Right(new[u])) /\ ~Used(Right(new[u])) /\ Fits(new[u])
           /\ new[u].call # "done"
           /\ ~(new[u].call \in {"then", "apply"} /\ new[u].cb.do = "follow")
           /\ ~(new[u].call \in {"then", "apply"} /\ new[u].cb.do = "relay")
  BY <1>6, <1>7, <1>9, <1>10, <1>11, <1>12
<1>16. \A u \in 1 .. Len(new) : new[u].call = "chain" => GoesOn(new[u].n)'
  <2>1. PICK k : k = n + 1 /\ GoesOn(k)'
    BY <1>14
  <2>2. \A u \in 1 .. Len(new) : new[u].call = "chain" => new[u].n = k
    BY <1>7, <1>9, <2>1
  <2> QED
    BY <2>1, <2>2
<1>17. \A u, j \in 1 .. Len(new) : Right(new[u]) = Right(new[j]) => u = j
  BY <1>7, <1>9
<1>18. ~Elsewhere(<<"chain", 0>>)
  BY <1>2
<1>19. called \subseteq called' /\ called' \subseteq Request
  BY <1>0, <1>5 DEF Types, AjaxTypeOK
<1>20. agenda' = IF agenda = <<>> THEN new ELSE new \o Tail(agenda)
  BY <1>1, <1>5, <1>8
<1> QED
  BY <1>1, <1>2, <1>5, <1>15, <1>16, <1>17, <1>18, <1>19, <1>20, QuietStep

LEMMA ApplyPassStep ==
    ASSUME IInv, ApplyPass PROVE IInv'
<1>0. Types /\ ChainFits
  BY DEF IInv
<1>1. agenda # <<>>
  BY DEF ApplyPass, Applying, Doing
<1>2. PICK h \in Call : /\ h = agenda[1] /\ Head(agenda) = h /\ h.call = "apply"
                        /\ h.cb \in Continuer /\ h.a \in Answer /\ h.cb.do = "pass"
                        /\ Fits(h) /\ ~Used(Right(h)) /\ ~Elsewhere(Right(h))
                        /\ Right(h) = <<"done", h.cb.of>> /\ 1 \in 1 .. Len(agenda)
  <2>1. Head(agenda).call = "apply" /\ Head(agenda).cb.do = "pass"
    BY DEF ApplyPass, Applying, Doing
  <2> QED
    BY <1>1, <2>1, HeadIs, CallIs, RightIs, RightOfIs
<1>3. PICK q \in Promise : /\ q = h.cb.of
                           /\ \/ q = Relayed /\ plan = "relay"
                              \/ (\E n \in Request : q = Link(n)) /\ Ended(h.a)
  BY <1>2, CallbackIs DEF Fits, Told
<1>4. q[1] # "ajax"
  BY <1>3, Promises
<1>5. PICK y : y = CallDone(q, h.a)
  OBVIOUS
<1>6. /\ y \in Call /\ y.call = "done" /\ y.p = q /\ y.a = h.a /\ Right(y) = Right(h)
  BY <1>2, <1>3, <1>4, <1>5, NewCalls
<1>7. /\ Unanswered /\ UNCHANGED <<called, callbacks, results, numdone, given, told>>
      /\ agenda' = <<y>> \o Tail(agenda)
  BY <1>2, <1>3, <1>5 DEF ApplyPass, SendNothing, Unanswered
<1>8. Fits(y)
  BY <1>3, <1>6, Promises DEF Fits
<1>9. ASSUME Elsewhere(<<"chain", 0>>), NEW m \in 1 .. NRequest + 1, Right(y) = <<"done", Link(m)>>
      PROVE  FALSE
  <2>1. PICK n : GoesOn(n)
    BY <1>0, <1>9, SomewhereGoesOn
  <2> QED
    BY <1>2, <1>6, <1>9, <2>1 DEF GoesOn
<1>10. agenda' = IF agenda = <<>> THEN <<y>> ELSE <<y>> \o Tail(agenda)
  BY <1>1, <1>7
<1> QED
  BY <1>1, <1>2, <1>4, <1>6, <1>7, <1>8, <1>9, <1>10, OneCall

\* No function is left: the chain is done.
LEMMA ChainEnds ==
    ASSUME IInv, Chain, Head(agenda).n = NRequest + 1 PROVE IInv'
<1>0. Types /\ ChainFits /\ GivenFits
  BY DEF IInv
<1>1. agenda # <<>>
  BY DEF Chain, Doing
<1>2. PICK h \in Call : /\ h = agenda[1] /\ Head(agenda) = h /\ h.call = "chain"
                        /\ h.n = NRequest + 1 /\ h.a \in Answer
                        /\ Fits(h) /\ ~Used(Right(h)) /\ ~Elsewhere(Right(h))
                        /\ Right(h) = <<"chain", 0>> /\ 1 \in 1 .. Len(agenda)
  <2>1. Head(agenda).call = "chain"
    BY DEF Chain, Doing
  <2> QED
    BY <1>1, <2>1, HeadIs, CallIs, RightIs
<1>3. PICK n \in 1 .. NRequest + 1 : n = NRequest + 1 /\ n \in Nat
  BY NRequestAssumption
<1>4. GoesOn(n) /\ plan = "chain" /\ DOMAIN given = Request
      /\ isdone[Of(NRequest)] /\ h.a = FirstAnswer(NRequest)
  <2>1. h.n = n /\ h.n > 1 /\ h.n - 1 = NRequest
    BY <1>2, <1>3, NRequestAssumption
  <2> QED
    BY <1>0, <1>2, <2>1 DEF ChainFits, Fits, Request
<1>5. Link(n) \in Promise /\ Link(n)[1] # "ajax"
  BY <1>3, Promises
<1>6. PICK y : y = CallDone(Link(n), h.a)
  OBVIOUS
<1>7. /\ y \in Call /\ y.call = "done" /\ y.p = Link(n) /\ y.a = h.a
      /\ Right(y) = <<"done", Link(n)>>
  BY <1>2, <1>5, <1>6, NewCalls
<1>8. /\ Unanswered /\ UNCHANGED <<called, callbacks, results, numdone, given, told>>
      /\ agenda' = <<y>> \o Tail(agenda)
  BY <1>2, <1>3, <1>6 DEF Chain, SendNothing, Unanswered
<1>9. ~Elsewhere(Right(y)) /\ ~Used(Right(y))
  <2>1. ~isdone[Link(n)]
    BY <1>4 DEF GoesOn
  <2>2. ASSUME NEW u \in 2 .. Len(agenda), Right(agenda[u]) = <<"done", Link(n)>> PROVE FALSE
    <3>1. u \in 1 .. Len(agenda)
      BY <1>0 DEF Types
    <3> QED
      BY <1>3, <1>4, <2>2, <3>1 DEF GoesOn
  <2>3. ASSUME NEW p \in Promise, Waiting(p), RightOf(Waiter(p)) = <<"done", Link(n)>> PROVE FALSE
    <3>1. Waiter(p) \in Continuer
      BY <1>0, <2>3, WaiterIs DEF Waiting
    <3>2. Waiter(p) = Pass(Link(n))
      BY <2>3, <3>1, HasRightOf, PairsDiffer
    <3> QED
      BY <1>3, <1>4, <2>3, <3>2 DEF GoesOn
  <2> QED
    BY <1>7, <2>1, <2>2, <2>3 DEF Elsewhere, Used
<1>10. Fits(y)
  <2>1. \A r \in Request : isdone[Of(r)]
    <3> SUFFICES ASSUME NEW r \in Request PROVE isdone[Of(r)]
      OBVIOUS
    <3>1. CASE r = NRequest
      BY <1>4, <3>1
    <3>2. CASE r # NRequest
      <4>0. PICK k : k = r + 1
        OBVIOUS
      <4>1. k \in Request /\ k > 1 /\ k - 1 = r
        BY <3>2, <4>0, NRequestAssumption DEF Request
      <4>2. isdone[Of(k - 1)]
        BY <1>0, <1>4, <4>1 DEF GivenFits
      <4> QED
        BY <4>1, <4>2
    <3> QED
      BY <3>1, <3>2
  <2>2. Ended(y.a)
    BY <1>4, <1>7, <2>1 DEF Ended
  <2> QED
    BY <1>7, <2>2 DEF Fits
<1>11. ~Elsewhere(<<"chain", 0>>)
  BY <1>2
<1>12. agenda' = IF agenda = <<>> THEN <<y>> ELSE <<y>> \o Tail(agenda)
  BY <1>1, <1>8
<1> QED
  BY <1>1, <1>2, <1>5, <1>7, <1>8, <1>9, <1>10, <1>11, <1>12, OneCall

LEMMA AskLateStep ==
    ASSUME IInv, NEW r \in Request, AskLate(r) PROVE IInv'
<1>0. Types /\ WaitersFit
  BY DEF IInv
<1>1. PICK y : y = CallThen(Of(r), Tell(<<"late", r>>))
  OBVIOUS
<1>2. /\ Unanswered /\ UNCHANGED <<called, callbacks, results, numdone, given, told>>
      /\ agenda = <<>> /\ agenda' = <<y>> /\ plan = "each" /\ isdone[Of(r)]
      /\ told[<<"late", r>>] = <<>>
  BY <1>1 DEF AskLate, SendNothing, Unanswered
<1>3. /\ Tell(<<"late", r>>) \in Continuer /\ Tell(<<"late", r>>).do = "tell"
      /\ Tell(<<"late", r>>).of = <<"late", r>> /\ Of(r) \in Promise
  BY Promises, Callbacks, ZenonT(60)
<1>4. /\ y \in Call /\ y.call = "then" /\ y.p = Of(r) /\ y.cb = Tell(<<"late", r>>)
      /\ Right(y) = <<"tell", <<"late", r>>>>
  <2>1. RightOf(Tell(<<"late", r>>)) = <<"tell", <<"late", r>>>>
    BY <1>3, RightOfIs
  <2> QED
    BY <1>1, <1>3, <2>1, NewCalls
<1>5. Fits(y)
  BY <1>2, <1>4 DEF Fits, Late
<1>6. ~Used(Right(y))
  BY <1>2, <1>4 DEF Used
<1>7. ASSUME NEW p \in Promise, Waiting(p), RightOf(Waiter(p)) = Right(y) PROVE FALSE
  <2>1. Waits(p, Waiter(p)) /\ Waiter(p) \in Continuer
    BY <1>0, <1>7, WaiterIs DEF WaitersFit, Waiting, Waiter
  <2>2. Waiter(p).do # "relay"
    BY <1>2, <2>1, WaitsIs
  <2>3. Waiter(p) = Tell(<<"late", r>>)
    BY <1>4, <1>7, <2>1, <2>2, HasRightOf
  <2>4. PICK q \in Request : Waiter(p) = Tell(<<"each", q>>)
    BY <1>2, <1>3, <2>1, <2>3, WaitsIs
  <2> QED
    BY <2>3, <2>4, TellsDiffer
<1>8. ~Elsewhere(Right(y))
  BY <1>2, <1>7 DEF Elsewhere
<1>9. agenda' = IF agenda = <<>> THEN <<y>> ELSE <<y>> \o Tail(agenda)
  BY <1>2
<1>10. y.call # "done" /\ y.call # "chain" /\ y.cb.do = "tell"
       /\ \A m \in 1 .. NRequest + 1 : Right(y) # <<"done", Link(m)>>
  BY <1>3, <1>4
<1> QED
  BY <1>2, <1>4, <1>5, <1>6, <1>8, <1>9, <1>10, OneCall

LEMMA AskChainStep ==
    ASSUME IInv, AskChain PROVE IInv'
<1>0. Types /\ Untouched
  BY DEF IInv
<1>1. /\ agenda = <<>> /\ DOMAIN given = {} /\ \A p \in Promise : callbacks[p] = <<>> /\ ~isdone[p]
      /\ \A c \in Continuation : told[c] = <<>>
      /\ plan = "chain" /\ called' = Request
  BY <1>0 DEF AskChain, Untouched
<1>2. PICK y, z : y = CallChain(1, "ok") /\ z = CallThen(Link(1), Tell(TheWhole))
  OBVIOUS
<1>3. /\ Unanswered /\ UNCHANGED <<callbacks, results, numdone, given, told>>
      /\ agenda' = <<y, z>>
  BY <1>2 DEF AskChain, SendNothing, Unanswered, TheWhole
<1>4. /\ 1 \in 1 .. NRequest + 1 /\ Link(1) \in Promise /\ Tell(TheWhole) \in Continuer
      /\ Tell(TheWhole).do = "tell" /\ Tell(TheWhole).of = TheWhole
      /\ "ok" \in Answer /\ TheWhole \in Continuation
  BY Promises, Callbacks DEF Answer
<1>5. /\ y \in Call /\ y.call = "chain" /\ y.n = 1 /\ y.a = "ok" /\ Right(y) = <<"chain", 0>>
      /\ z \in Call /\ z.call = "then" /\ z.p = Link(1) /\ z.cb = Tell(TheWhole)
      /\ Right(z) = <<"tell", TheWhole>>
  <2>1. RightOf(Tell(TheWhole)) = <<"tell", TheWhole>>
    BY <1>4, RightOfIs
  <2> QED
    BY <1>2, <1>4, <2>1, NewCalls
<1>6. PICK new \in Seq(Call) : new = <<y, z>> /\ Len(new) = 2 /\ new[1] = y /\ new[2] = z
  <2>1. /\ <<y, z>> \in Seq(Call) /\ Len(<<y, z>>) = 2
        /\ <<y, z>>[1] = y /\ <<y, z>>[2] = z
    BY <1>5
  <2> QED
    BY <2>1
<1>7. \A u \in 1 .. Len(new) : (u = 1 /\ new[u] = y) \/ (u = 2 /\ new[u] = z)
  BY <1>6
<1>8. \A right : ~Elsewhere(right)
  BY <1>1 DEF Elsewhere, Waiting
<1>9. ~Used(Right(y)) /\ ~Used(Right(z))
  BY <1>1, <1>4, <1>5 DEF Used
<1>10. Fits(y) /\ Fits(z)
  <2>1. Fits(y)
    BY <1>1, <1>5 DEF Fits
  <2>2. Waits(z.p, z.cb)
    BY <1>1, <1>5 DEF Waits
  <2> QED
    BY <1>5, <2>1, <2>2, PairsDiffer DEF Fits
<1>11. GoesOn(1)'
  <2>1. \A m \in 1 .. NRequest + 1 : ~isdone'[Link(m)]
    BY <1>1, <1>3, Promises DEF Unanswered
  <2>2. \A u \in 1 .. Len(agenda') : \A m : Right(agenda'[u]) # <<"done", Link(m)>>
    BY <1>3, <1>5, <1>6, <1>7
  <2>3. \A p \in Promise : callbacks'[p] = <<>>
    BY <1>1, <1>3
  <2> QED
    BY <2>1, <2>2, <2>3 DEF GoesOn, Waiting
<1>12. \A u \in 1 .. Len(new) :
           /\ ~Elsewhere(Right(new[u])) /\ ~Used(Right(new[u])) /\ Fits(new[u])
           /\ new[u].call # "done"
           /\ ~(new[u].call \in {"then", "apply"} /\ new[u].cb.do = "follow")
           /\ ~(new[u].call \in {"then", "apply"} /\ new[u].cb.do = "relay")
  BY <1>4, <1>5, <1>7, <1>8, <1>9, <1>10
<1>13. \A u \in 1 .. Len(new) : new[u].call = "chain" => GoesOn(new[u].n)'
  <2>1. PICK k : k = 1 /\ GoesOn(k)'
    BY <1>11
  <2>2. \A u \in 1 .. Len(new) : new[u].call = "chain" => new[u].n = k
    BY <1>5, <1>7, <2>1
  <2> QED
    BY <2>1, <2>2
<1>14. \A u, j \in 1 .. Len(new) : Right(new[u]) = Right(new[j]) => u = j
  BY <1>5, <1>7
<1>15. called \subseteq called' /\ called' \subseteq Request /\ called' # {}
  BY <1>0, <1>1, Promises DEF Types, AjaxTypeOK
<1>16. agenda' = IF agenda = <<>> THEN new ELSE new \o Tail(agenda)
  BY <1>1, <1>3, <1>6
<1> QED
  BY <1>1, <1>3, <1>8, <1>12, <1>13, <1>14, <1>15, <1>16, QuietStep

--------------------
(* Steps that send requests. *)

LEMMA SendIs ==
    ASSUME IInv, NEW rs \in SUBSET Request, \A r \in rs : xhr[r] = "unsent", SendAll(rs),
           UNCHANGED <<plan, hasXhr, results>>
    PROVE  /\ Calm /\ SentStays
           /\ xhr' \in [Request -> {"unsent", "sent", "partial", "over", "none"}]
           /\ timer' \subseteq {r \in Request : xhr'[r] = "sent"}
           /\ isdone' \in [Promise -> BOOLEAN] /\ result' \in [Promise -> Answer]
           /\ \A r \in rs : /\ xhr'[r] = IF hasXhr THEN "sent" ELSE "none"
                            /\ ~isdone[Of(r)] /\ callbacks[Of(r)] = <<>>
                            /\ isdone'[Of(r)] = ~hasXhr
                            /\ ~hasXhr => result'[Of(r)] = "ENOXHR"
           /\ \A r \in Request \ rs : xhr'[r] = xhr[r]
           /\ \A p \in Promise : (\A r \in rs : p # Of(r)) =>
                  isdone'[p] = isdone[p] /\ result'[p] = result[p]
           /\ \A p \in Promise : isdone[p] => isdone'[p] /\ result'[p] = result[p]
<1>0. Types /\ RequestsFit /\ WaitersFit
  BY DEF IInv
<1>1. /\ xhr \in [Request -> {"unsent", "sent", "partial", "over", "none"}]
      /\ timer \subseteq {r \in Request : xhr[r] = "sent"} /\ hasXhr \in BOOLEAN
      /\ isdone \in [Promise -> BOOLEAN] /\ result \in [Promise -> Answer]
  BY <1>0 DEF Types, AjaxTypeOK
<1>2. /\ xhr' \in [Request -> {"unsent", "sent", "partial", "over", "none"}]
      /\ \A r \in rs : xhr'[r] = IF hasXhr THEN "sent" ELSE "none"
      /\ \A r \in Request \ rs : xhr'[r] = xhr[r]
  BY <1>1 DEF SendAll
<1>3. timer' \subseteq {r \in Request : xhr'[r] = "sent"}
  <2> SUFFICES ASSUME NEW r \in timer' PROVE r \in Request /\ xhr'[r] = "sent"
    OBVIOUS
  <2>1. CASE r \in timer
    BY <1>1, <1>2, <2>1
  <2>2. CASE hasXhr /\ r \in rs
    BY <1>2, <2>2
  <2> QED
    BY <2>1, <2>2 DEF SendAll
<1>4. /\ isdone' = [p \in Promise |-> isdone[p] \/ (~hasXhr /\ \E r \in rs : p = Of(r))]
      /\ result' = [p \in Promise |-> IF ~hasXhr /\ \E r \in rs : p = Of(r) THEN "ENOXHR"
                                      ELSE result[p]]
  BY DEF SendAll
<1>5. isdone' \in [Promise -> BOOLEAN] /\ result' \in [Promise -> Answer]
  <2>1. isdone' \in [Promise -> BOOLEAN]
    BY <1>1, <1>4
  <2>2. "ENOXHR" \in Answer
    BY DEF Answer
  <2>3. result' \in [Promise -> Answer]
    BY <1>1, <1>4, <2>2
  <2> QED
    BY <2>1, <2>3
<1>6. ASSUME NEW r \in rs
      PROVE  /\ ~isdone[Of(r)] /\ callbacks[Of(r)] = <<>> /\ isdone'[Of(r)] = ~hasXhr
             /\ ~hasXhr => result'[Of(r)] = "ENOXHR"
  <2>1. r \in Request /\ Of(r) \in Promise /\ xhr[r] = "unsent"
    BY Promises
  <2>2. ~isdone[Of(r)] /\ callbacks[Of(r)] = <<>>
    BY <1>0, <2>1 DEF RequestsFit, WaitersFit
  <2>3. isdone'[Of(r)] = (isdone[Of(r)] \/ ~hasXhr)
    BY <1>4, <2>1
  <2>4. ~hasXhr => result'[Of(r)] = "ENOXHR"
    BY <1>4, <2>1
  <2> QED
    BY <1>1, <2>2, <2>3, <2>4
<1>7. \A p \in Promise : (\A r \in rs : p # Of(r)) =>
          isdone'[p] = isdone[p] /\ result'[p] = result[p]
  BY <1>1, <1>4
<1>8. \A p \in Promise : isdone[p] => isdone'[p] /\ result'[p] = result[p]
  <2> SUFFICES ASSUME NEW p \in Promise, isdone[p] PROVE isdone'[p] /\ result'[p] = result[p]
    OBVIOUS
  <2>1. \A r \in rs : p # Of(r)
    BY <1>6
  <2> QED
    BY <1>7, <2>1
<1>9. Calm
  <2>1. \A r \in Request : isdone[Of(r)] => FirstAnswer(r)' = FirstAnswer(r)
    BY <1>8, Promises DEF FirstAnswer
  <2>2. DOMAIN results \subseteq Request
    BY <1>0 DEF Types, AjaxTypeOK
  <2> QED
    BY <1>8, <2>1, <2>2 DEF Calm
<1>10. SentStays
  BY <1>2 DEF SentStays
<1> QED
  BY <1>2, <1>3, <1>5, <1>6, <1>7, <1>8, <1>9, <1>10

LEMMA SendStep ==
    ASSUME IInv, NEW rs \in SUBSET Request, \A r \in rs : xhr[r] = "unsent", SendAll(rs),
           UNCHANGED <<plan, hasXhr, callbacks, results, numdone, told>>,
           called \subseteq called', called' \subseteq Request, plan = "each" => called' = called \cup rs,
           agenda # <<>> \/ called' # {} \/ plan = "each",
           given' \in [DOMAIN given' -> Answer], DOMAIN given' \subseteq Request, GivenFits',
           plan = "chain" => DOMAIN given' = DOMAIN given \cup rs,
           Elsewhere(<<"chain", 0>>) => UNCHANGED given,
           NEW new \in Seq(Call), agenda' = IF agenda = <<>> THEN new ELSE new \o Tail(agenda),
           agenda # <<>> => agenda[1].call \notin {"done", "empty"},
           \A u, j \in 1 .. Len(new) : Right(new[u]) = Right(new[j]) => u = j,
           \A u \in 1 .. Len(new) :
               /\ ~Elsewhere(Right(new[u])) /\ ~Used(Right(new[u])) /\ Fits(new[u])'
               /\ new[u].call = "then"
               /\ new[u].cb.do = "follow" =>
                      GoesOn(new[u].cb.of)' /\ DOMAIN given' = 1 .. new[u].cb.of
               /\ Elsewhere(<<"chain", 0>>) =>
                      \A m \in 1 .. NRequest + 1 : Right(new[u]) # <<"done", Link(m)>>,
           RelayFits'
    PROVE  IInv'
<1>1. /\ Types /\ Distinct /\ Unused /\ CallsFit /\ WaitersFit /\ RequestsFit /\ DoneFits
      /\ ResultsFit /\ GivenFits /\ ToldFits /\ ChainFits /\ RelayFits /\ Untouched
  BY DEF IInv
<1>2. /\ Calm /\ SentStays
      /\ xhr' \in [Request -> {"unsent", "sent", "partial", "over", "none"}]
      /\ timer' \subseteq {r \in Request : xhr'[r] = "sent"}
      /\ isdone' \in [Promise -> BOOLEAN] /\ result' \in [Promise -> Answer]
      /\ \A r \in rs : /\ xhr'[r] = IF hasXhr THEN "sent" ELSE "none"
                       /\ ~isdone[Of(r)] /\ callbacks[Of(r)] = <<>>
                       /\ isdone'[Of(r)] = ~hasXhr
                       /\ ~hasXhr => result'[Of(r)] = "ENOXHR"
      /\ \A r \in Request \ rs : xhr'[r] = xhr[r]
      /\ \A p \in Promise : (\A r \in rs : p # Of(r)) =>
             isdone'[p] = isdone[p] /\ result'[p] = result[p]
      /\ \A p \in Promise : isdone[p] => isdone'[p] /\ result'[p] = result[p]
  BY SendIs
<1>3. Replaced(new) /\ Before(new)
  <2>1. \A p \in Promise : Waiting(p)' => Waiting(p)
    BY <1>2 DEF Waiting
  <2> QED
    BY <2>1 DEF Replaced, Before
<1>4. Types'
  <2>1. agenda' \in Seq(Call)
    BY <1>1, <1>3, AgendaIs
  <2>2. AjaxTypeOK'
    BY <1>1, <1>2 DEF Types, AjaxTypeOK
  <2> QED
    BY <1>1, <2>1, <2>2 DEF Types
<1>5. Distinct'
  BY <1>1, <1>3, DistinctKept, StaysElsewhere
<1>6. \A p \in Promise : p[1] # "ajax" => isdone'[p] = isdone[p] /\ result'[p] = result[p]
  <2>1. \A r \in rs : Of(r)[1] = "ajax"
    BY Promises
  <2> QED
    BY <1>2, <2>1
<1>7. Unused'
  <2>1. ASSUME NEW right, right[1] = "done" => right[2] \in Promise, Used(right)' PROVE Used(right)
    BY <1>6, <2>1 DEF Used
  <2>2. ASSUME NEW h \in Call PROVE Right(h)[1] = "done" => Right(h)[2] \in Promise
    <3>1. ASSUME NEW cb \in Continuer PROVE RightOf(cb)[1] = "done" => RightOf(cb)[2] \in Promise
      <4>1. cb.do = "pass" => cb.of \in Promise
        BY CallbackIs
      <4> QED
        BY <4>1, RightOfIs, CallbackIs, Promises, SMTT(30)
    <3>2. CASE h.call \in {"then", "apply"}
      BY <3>1, <3>2, CallIs, RightIs
    <3>3. CASE h.call \in {"chain", "empty"}
      BY <3>3, RightIs
    <3>4. CASE h.call = "done"
      BY <3>4, CallIs, RightIs
    <3> QED
      BY <3>2, <3>3, <3>4, CallIs
  <2>3. \A right : Elsewhere(right) => (right[1] = "done" => right[2] \in Promise)
    <3>1. \A u \in 2 .. Len(agenda) : agenda[u] \in Call
      BY <1>1 DEF Types
    <3>2. ASSUME NEW p \in Promise, Waiting(p)
          PROVE  RightOf(Waiter(p))[1] = "done" => RightOf(Waiter(p))[2] \in Promise
      <4>1. Waiter(p) \in Continuer
        BY <1>1, <3>2, WaiterIs DEF Waiting
      <4>2. Waiter(p).do = "pass" => Waiter(p).of \in Promise
        BY <4>1, CallbackIs
      <4> QED
        BY <4>1, <4>2, RightOfIs, CallbackIs, Promises, SMTT(30)
    <3> QED
      BY <2>2, <3>1, <3>2 DEF Elsewhere
  <2>4. \A u \in 1 .. Len(new) : ~Used(Right(new[u]))'
    <3> SUFFICES ASSUME NEW u \in 1 .. Len(new) PROVE ~Used(Right(new[u]))'
      OBVIOUS
    <3>1. new[u] \in Call
      OBVIOUS
    <3>2. PICK right : right = Right(new[u])
      OBVIOUS
    <3>3. ~Used(right)'
      BY <2>1, <2>2, <3>1, <3>2
    <3> QED
      BY <3>2, <3>3
  <2>5. \A right : Elsewhere(right) /\ Used(right)' => Used(right)
    BY <2>1, <2>3
  <2> QED
    BY <1>1, <1>3, <2>4, <2>5, UnusedKept, StaysElsewhere
<1>8. CallsFit'
  <2>1. ASSUME NEW u \in 2 .. Len(agenda), agenda[u].call = "chain" PROVE UNCHANGED given
    <3>1. agenda[u] \in Call
      BY <1>1 DEF Types
    <3>2. Right(agenda[u]) = <<"chain", 0>>
      BY <2>1, <3>1, RightIs
    <3> QED
      BY <3>2 DEF Elsewhere
  <2>2. \A u \in 1 .. Len(new) : Fits(new[u])' /\ new[u].call # "done"
    OBVIOUS
  <2> QED
    BY <1>1, <1>2, <1>3, <2>1, <2>2, CallsFitKept
<1>9. WaitersFit'
  <2>1. \A p \in Promise : isdone'[p] /\ ~isdone[p] => callbacks[p] = <<>>
    BY <1>2
  <2>2. \A r \in Request : xhr[r] \notin {"unsent", "none"} => xhr'[r] \notin {"unsent", "none"}
    BY <1>2 DEF SentStays
  <2> QED
    BY <1>1, <1>2, <1>3, <2>1, <2>2, WaitersFitKept
<1>10. RequestsFit'
  <2> SUFFICES ASSUME NEW r \in Request
               PROVE  /\ xhr'[r] = "none" => isdone'[Of(r)] /\ ~hasXhr /\ result'[Of(r)] = "ENOXHR"
                      /\ xhr'[r] \in {"unsent", "sent", "partial"} => ~isdone'[Of(r)]
                      /\ xhr'[r] \in {"sent", "partial", "over"} => hasXhr
                      /\ plan = "each" => (xhr'[r] = "unsent" <=> r \notin called')
                      /\ plan = "each" /\ r \notin called' => told[<<"each", r>>] = <<>>
                      /\ plan = "chain" => (xhr'[r] = "unsent" <=> r \notin DOMAIN given')
    BY DEF RequestsFit
  <2>1. CASE r \in rs
    BY <1>1, <1>2, <2>1 DEF RequestsFit
  <2>2. CASE r \notin rs
    <3>1. Of(r) \in Promise /\ \A q \in rs : Of(r) # Of(q)
      BY <2>2, Promises, PairsDiffer
    <3>2. xhr'[r] = xhr[r] /\ isdone'[Of(r)] = isdone[Of(r)] /\ result'[Of(r)] = result[Of(r)]
      BY <1>2, <2>2, <3>1
    <3> QED
      BY <1>1, <2>2, <3>2 DEF RequestsFit
  <2> QED
    BY <2>1, <2>2
<1>11. DoneFits' /\ ResultsFit' /\ ToldFits'
  <2>1. DoneFits'
    BY <1>1, <1>2, <1>6, DoneFitsKept
  <2> QED
    BY <1>1, <1>2, <2>1, AnswersKept
<1>12. ChainFits'
  <2>1. \A m \in 1 .. NRequest + 1 : isdone'[Link(m)] => isdone[Link(m)]
    BY <1>6, Promises
  <2>2. \A u \in 1 .. Len(new) :
            /\ new[u].call = "chain" => GoesOn(new[u].n)'
            /\ new[u].call \in {"then", "apply"} /\ new[u].cb.do = "follow" =>
                   GoesOn(new[u].cb.of)' /\ DOMAIN given' = 1 .. new[u].cb.of
    OBVIOUS
  <2> QED
    BY <1>1, <1>3, <2>1, <2>2, ChainFitsKept
<1>13. Untouched'
  BY <1>1, UntouchedKept
<1> QED
  BY <1>4, <1>5, <1>7, <1>8, <1>9, <1>10, <1>11, <1>12, <1>13 DEF IInv

\* One request is sent, and then is called.
LEMMA SendOne ==
    ASSUME IInv, NEW n \in Request, xhr[n] = "unsent", SendAll({n}),
           UNCHANGED <<plan, hasXhr, callbacks, results, numdone, told>>,
           called \subseteq called', called' \subseteq Request, plan = "each" => called' = called \cup {n},
           agenda # <<>> \/ called' # {} \/ plan = "each",
           given' \in [DOMAIN given' -> Answer], DOMAIN given' \subseteq Request, GivenFits',
           plan = "chain" => DOMAIN given' = DOMAIN given \cup {n},
           Elsewhere(<<"chain", 0>>) => UNCHANGED given,
           NEW y \in Call, y.call = "then",
           agenda' = IF agenda = <<>> THEN <<y>> ELSE <<y>> \o Tail(agenda),
           agenda # <<>> => agenda[1].call \notin {"done", "empty"},
           ~Elsewhere(Right(y)), ~Used(Right(y)), Fits(y)',
           y.cb.do = "follow" => GoesOn(y.cb.of)' /\ DOMAIN given' = 1 .. y.cb.of,
           Elsewhere(<<"chain", 0>>) => \A m \in 1 .. NRequest + 1 : Right(y) # <<"done", Link(m)>>,
           RelayFits'
    PROVE  IInv'
<1>1. PICK new \in Seq(Call) : new = <<y>> /\ Len(new) = 1 /\ new[1] = y
  <2>1. <<y>> \in Seq(Call) /\ Len(<<y>>) = 1 /\ <<y>>[1] = y
    OBVIOUS
  <2> QED
    BY <2>1
<1>2. \A u \in 1 .. Len(new) : u = 1 /\ new[u] = y
  BY <1>1
<1>3. \A u, j \in 1 .. Len(new) : Right(new[u]) = Right(new[j]) => u = j
  BY <1>2
<1>4. \A u \in 1 .. Len(new) :
          /\ ~Elsewhere(Right(new[u])) /\ ~Used(Right(new[u]))
          /\ new[u].call = "then"
          /\ Elsewhere(<<"chain", 0>>) =>
                 \A m \in 1 .. NRequest + 1 : Right(new[u]) # <<"done", Link(m)>>
  BY <1>2
<1>5. \A u \in 1 .. Len(new) : Fits(new[u])'
  BY <1>2
<1>6. \A u \in 1 .. Len(new) : new[u].cb.do = "follow" =>
          GoesOn(new[u].cb.of)' /\ DOMAIN given' = 1 .. new[u].cb.of
  BY <1>2
<1>7. agenda' = IF agenda = <<>> THEN new ELSE new \o Tail(agenda)
  BY <1>1
<1>8. {n} \in SUBSET Request /\ \A r \in {n} : xhr[r] = "unsent"
  OBVIOUS
<1> QED
  BY <1>3, <1>4, <1>5, <1>6, <1>7, <1>8, SendStep

\* Only the page that asks for the relay has it.
LEMMA NoRelay ==
    ASSUME IInv, plan # "relay"
    PROVE  /\ \A u \in 1 .. Len(agenda) :
                  ~(agenda[u].call \in {"then", "apply"} /\ agenda[u].cb.do = "relay")
           /\ \A p \in Promise : ~(Waiting(p) /\ Waiter(p) = Relay)
<1>0. Types /\ CallsFit /\ WaitersFit
  BY DEF IInv
<1>1. ASSUME NEW u \in 1 .. Len(agenda), agenda[u].call \in {"then", "apply"}, agenda[u].cb.do = "relay"
      PROVE  FALSE
  <2>1. Fits(agenda[u])
    BY <1>0 DEF CallsFit
  <2>2. CASE agenda[u].call = "then"
    <3>1. ~Late(agenda[u].p, agenda[u].cb)
      BY <1>1, LateIs
    <3>2. Waits(agenda[u].p, agenda[u].cb)
      BY <2>1, <2>2, <3>1 DEF Fits
    <3> QED
      BY <1>1, <3>2, WaitsIs
  <2>3. CASE agenda[u].call = "apply"
    BY <1>1, <2>1, <2>3 DEF Fits, Told
  <2> QED
    BY <1>1, <2>2, <2>3
<1>2. ASSUME NEW p \in Promise, Waiting(p), Waiter(p) = Relay PROVE FALSE
  <2>1. Waits(p, Relay)
    BY <1>0, <1>2 DEF WaitersFit, Waiting, Waiter
  <2> QED
    BY <2>1, WaitsIs, Callbacks
<1> QED
  BY <1>1, <1>2

LEMMA NoRelayAfter ==
    ASSUME IInv, plan # "relay", NEW new, Replaced(new),
           \A u \in 1 .. Len(new) : ~(new[u].call \in {"then", "apply"} /\ new[u].cb.do = "relay")
    PROVE  RelayFits'
<1>0. Types /\ CallsFit /\ RelayFits
  BY DEF IInv
<1>1. \A u \in 2 .. Len(agenda) :
          ~(agenda[u].call \in {"then", "apply"} /\ agenda[u].cb.do = "relay")
  <2>1. \A u \in 2 .. Len(agenda) : u \in 1 .. Len(agenda)
    BY <1>0 DEF Types
  <2> QED
    BY <2>1, NoRelay
<1> QED
  BY <1>0, <1>1, NoRelay, RelayFitsKept

\* Sending takes nobody's place.
LEMMA SendReplaces ==
    ASSUME IInv, NEW rs \in SUBSET Request, \A r \in rs : xhr[r] = "unsent", SendAll(rs),
           UNCHANGED <<plan, hasXhr, callbacks, results>>,
           NEW new \in Seq(Call), agenda' = IF agenda = <<>> THEN new ELSE new \o Tail(agenda)
    PROVE  Replaced(new)
<1>1. \A p \in Promise : isdone[p] => isdone'[p]
  BY SendIs
<1> QED
  BY <1>1 DEF Replaced, Before, Waiting

LEMMA AskEachStep ==
    ASSUME IInv, NEW r \in Request, AskEach(r) PROVE IInv'
<1>0. Types /\ RequestsFit /\ WaitersFit /\ GivenFits
  BY DEF IInv
<1>1. PICK y : y = CallThen(Of(r), Tell(<<"each", r>>))
  OBVIOUS
<1>2. /\ SendAll({r}) /\ UNCHANGED <<plan, hasXhr, callbacks, results, numdone, given, told>>
      /\ agenda = <<>> /\ agenda' = <<y>> /\ plan = "each" /\ r \notin called /\ called' = called \cup {r}
  BY <1>1 DEF AskEach
<1>3. /\ Tell(<<"each", r>>) \in Continuer /\ Tell(<<"each", r>>).do = "tell"
      /\ Tell(<<"each", r>>).of = <<"each", r>> /\ Of(r) \in Promise
  BY Promises, Callbacks, ZenonT(60)
<1>4. /\ y \in Call /\ y.call = "then" /\ y.p = Of(r) /\ y.cb = Tell(<<"each", r>>)
      /\ Right(y) = <<"tell", <<"each", r>>>>
  <2>1. RightOf(Tell(<<"each", r>>)) = <<"tell", <<"each", r>>>>
    BY <1>3, RightOfIs
  <2> QED
    BY <1>1, <1>3, <2>1, NewCalls
<1>5. xhr[r] = "unsent" /\ told[<<"each", r>>] = <<>>
  BY <1>0, <1>2 DEF RequestsFit
<1>6. Calm /\ xhr'[r] \in {"sent", "none"} /\ callbacks[Of(r)] = <<>>
  <2>1. {r} \in SUBSET Request /\ \A q \in {r} : xhr[q] = "unsent"
    BY <1>5
  <2> QED
    BY <1>2, <2>1, SendIs
<1>7. ~Used(Right(y))
  BY <1>4, <1>5 DEF Used
<1>8. ASSUME NEW p \in Promise, Waiting(p), RightOf(Waiter(p)) = Right(y) PROVE FALSE
  <2>1. Waits(p, Waiter(p)) /\ Waiter(p) \in Continuer
    BY <1>0, <1>8, WaiterIs DEF WaitersFit, Waiting, Waiter
  <2>2. Waiter(p).do # "relay"
    BY <1>2, <2>1, WaitsIs
  <2>3. Waiter(p) = Tell(<<"each", r>>)
    BY <1>4, <1>8, <2>1, <2>2, HasRightOf
  <2>4. PICK q \in Request : p = Of(q) /\ Waiter(p) = Tell(<<"each", q>>)
    BY <1>2, <1>3, <2>1, <2>3, WaitsIs
  <2>5. q = r
    <3>1. Tell(<<"each", q>>).of[2] = q /\ Tell(<<"each", r>>).of[2] = r
      BY TellsDiffer
    <3> QED
      BY <2>3, <2>4, <3>1
  <2> QED
    BY <1>6, <1>8, <2>4, <2>5 DEF Waiting
<1>9. ~Elsewhere(Right(y))
  BY <1>2, <1>8 DEF Elsewhere
<1>10. Fits(y)'
  <2>1. Waits(y.p, y.cb)'
    BY <1>2, <1>4 DEF Waits
  <2>2. \A q \in Request : y.p = Of(q) => xhr'[q] \in {"sent", "none"}
    BY <1>4, <1>6, PairsDiffer
  <2> QED
    BY <1>4, <2>1, <2>2 DEF Fits
<1>11. agenda' = IF agenda = <<>> THEN <<y>> ELSE <<y>> \o Tail(agenda)
  BY <1>2
<1>12. RelayFits'
  <2>1. <<y>> \in Seq(Call) /\ \A u \in 1 .. Len(<<y>>) : <<y>>[u] = y
    BY <1>4
  <2>2. {r} \in SUBSET Request /\ \A q \in {r} : xhr[q] = "unsent"
    BY <1>5
  <2>3. Replaced(<<y>>)
    BY <1>2, <1>11, <2>1, <2>2, SendReplaces
  <2>4. \A u \in 1 .. Len(<<y>>) : ~(<<y>>[u].call \in {"then", "apply"} /\ <<y>>[u].cb.do = "relay")
    BY <1>3, <1>4, <2>1
  <2> QED
    BY <1>2, <2>3, <2>4, NoRelayAfter
<1>13. given' \in [DOMAIN given' -> Answer] /\ DOMAIN given' \subseteq Request /\ GivenFits'
  BY <1>0, <1>2, <1>6, AnswersKept DEF Types
<1>14. called \subseteq called' /\ called' \subseteq Request
  BY <1>0, <1>2 DEF Types, AjaxTypeOK
<1>15. y.cb.do # "follow" /\ \A m \in 1 .. NRequest + 1 : Right(y) # <<"done", Link(m)>>
  BY <1>3, <1>4
<1> QED
  BY <1>2, <1>4, <1>5, <1>7, <1>9, <1>10, <1>11, <1>12, <1>13, <1>14, <1>15, SendOne

LEMMA AskRelayStep ==
    ASSUME IInv, AskRelay PROVE IInv'
<1>0. Types /\ Untouched /\ GivenFits
  BY DEF IInv
<1>1. PICK y : y = CallThen(Of(1), Relay)
  OBVIOUS
<1>2. /\ SendAll({1}) /\ UNCHANGED <<plan, hasXhr, callbacks, results, numdone, given, told>>
      /\ agenda' = <<y>> /\ plan = "relay" /\ called = {} /\ called' = {1, 2}
  BY <1>1 DEF AskRelay
<1>3. /\ agenda = <<>> /\ xhr = [r \in Request |-> "unsent"]
      /\ \A p \in Promise : callbacks[p] = <<>> /\ ~isdone[p]
      /\ \A c \in Continuation : told[c] = <<>>
  BY <1>0, <1>2 DEF Untouched
<1>4. /\ 1 \in Request /\ 2 \in Request /\ Of(1) \in Promise /\ Relayed \in Promise
      /\ Relay \in Continuer /\ Relay.do = "relay"
  BY Promises, Callbacks
<1>5. /\ y \in Call /\ y.call = "then" /\ y.p = Of(1) /\ y.cb = Relay
      /\ Right(y) = <<"done", Relayed>>
  <2>1. RightOf(Relay) = <<"done", Relayed>>
    BY <1>4, RightOfIs
  <2> QED
    BY <1>1, <1>4, <2>1, NewCalls
<1>6. xhr[1] = "unsent" /\ xhr[2] = "unsent"
  BY <1>3, <1>4
<1>7. Calm /\ xhr'[1] \in {"sent", "none"} /\ xhr'[2] = "unsent"
  <2>1. {1} \in SUBSET Request /\ \A q \in {1} : xhr[q] = "unsent"
    BY <1>4, <1>6
  <2>2. 2 \in Request \ {1}
    BY <1>4
  <2> QED
    BY <1>2, <1>6, <2>1, <2>2, SendIs
<1>8. ~Used(Right(y)) /\ \A right : ~Elsewhere(right)
  BY <1>3, <1>4, <1>5 DEF Used, Elsewhere, Waiting
<1>9. Fits(y)'
  <2>1. Waits(y.p, y.cb)'
    BY <1>2, <1>5 DEF Waits
  <2>2. \A q \in Request : y.p = Of(q) => xhr'[q] \in {"sent", "none"}
    BY <1>5, <1>7, PairsDiffer
  <2> QED
    BY <1>5, <2>1, <2>2 DEF Fits
<1>10. agenda' = IF agenda = <<>> THEN <<y>> ELSE <<y>> \o Tail(agenda)
  BY <1>2, <1>3
<1>11. RelayFits'
  <2>1. Len(agenda') = 1 /\ told'[TheWhole] = <<>> /\ \A p \in Promise : callbacks'[p] = <<>>
    BY <1>2, <1>3, Promises
  <2> QED
    BY <1>7, <2>1 DEF RelayFits, Waiting
<1>12. given' \in [DOMAIN given' -> Answer] /\ DOMAIN given' \subseteq Request /\ GivenFits'
  BY <1>0, <1>2, <1>7, AnswersKept DEF Types
<1>13. called \subseteq called' /\ called' \subseteq Request /\ called' # {}
  BY <1>2, <1>4
<1>14. y.cb.do # "follow"
  BY <1>4, <1>5
<1> QED
  BY <1>2, <1>3, <1>4, <1>5, <1>6, <1>8, <1>9, <1>10, <1>11, <1>12, <1>13, <1>14, SendOne

LEMMA ApplyRelayStep ==
    ASSUME IInv, ApplyRelay PROVE IInv'
<1>0. Types /\ CallsFit /\ WaitersFit /\ RequestsFit /\ RelayFits /\ GivenFits
  BY DEF IInv
<1>1. agenda # <<>>
  BY DEF ApplyRelay, Applying, Doing
<1>2. PICK h \in Call : /\ h = agenda[1] /\ Head(agenda) = h /\ h.call = "apply"
                        /\ h.cb \in Continuer /\ h.cb.do = "relay"
                        /\ Fits(h) /\ ~Used(Right(h)) /\ ~Elsewhere(Right(h))
                        /\ Right(h) = RightOf(h.cb) /\ 1 \in 1 .. Len(agenda)
  <2>1. Head(agenda).call = "apply" /\ Head(agenda).cb.do = "relay"
    BY DEF ApplyRelay, Applying, Doing
  <2> QED
    BY <1>1, <2>1, HeadIs, CallIs, RightIs
<1>3. /\ plan = "relay" /\ h.cb = IF hasXhr THEN Relay ELSE [Relay EXCEPT !.of = Of(2)]
      /\ xhr[2] = "unsent" /\ 2 \in Request
  BY <1>0, <1>2, Promises DEF Fits, Told, RelayFits
<1>4. (h.cb.of = Relayed) <=> hasXhr
  BY <1>3, Callbacks, PairsDiffer
<1>5. PICK cb : cb = IF hasXhr THEN Pass(Relayed) ELSE Tell(TheWhole)
  OBVIOUS
<1>6. cb \in Continuer /\ cb.do \in {"pass", "tell"} /\ RightOf(cb) = Right(h)
  <2>1. CASE hasXhr
    <3>1. cb \in Continuer /\ cb.do = "pass" /\ cb.of = Relayed
      BY <1>5, <2>1, Promises, Callbacks
    <3> QED
      BY <1>2, <1>3, <2>1, <3>1, RightOfIs
  <2>2. CASE ~hasXhr
    <3>1. cb \in Continuer /\ cb.do = "tell" /\ cb.of = TheWhole
      BY <1>5, <2>2, Promises, Callbacks
    <3>2. h.cb # Relay
      BY <1>3, <2>2, Callbacks
    <3> QED
      BY <1>2, <1>3, <2>2, <3>1, <3>2, RightOfIs
  <2> QED
    BY <2>1, <2>2
<1>7. PICK y : y = CallThen(Of(2), cb)
  OBVIOUS
<1>8. y \in Call /\ y.call = "then" /\ y.p = Of(2) /\ y.cb = cb /\ Right(y) = Right(h)
  BY <1>3, <1>6, <1>7, Promises, NewCalls
<1>9. /\ SendAll({2}) /\ UNCHANGED <<plan, hasXhr, called, callbacks, results, numdone, given, told>>
      /\ agenda' = <<y>> \o Tail(agenda)
  BY <1>2, <1>4, <1>5, <1>7 DEF ApplyRelay, TheWhole
<1>10. {2} \in SUBSET Request /\ \A q \in {2} : xhr[q] = "unsent"
  BY <1>3
<1>11. Calm /\ xhr'[2] \in {"sent", "none"}
  BY <1>9, <1>10, SendIs
<1>12. Fits(y)'
  <2>1. Waits(y.p, y.cb)'
    BY <1>3, <1>5, <1>8, <1>9 DEF Waits
  <2>2. \A q \in Request : y.p = Of(q) => xhr'[q] \in {"sent", "none"}
    BY <1>8, <1>11, PairsDiffer
  <2> QED
    BY <1>8, <2>1, <2>2 DEF Fits
<1>13. agenda' = IF agenda = <<>> THEN <<y>> ELSE <<y>> \o Tail(agenda)
  BY <1>1, <1>9
<1>14. RelayFits'
  <2>1. ASSUME NEW u \in 2 .. Len(agenda), agenda[u].call \in {"then", "apply"}, agenda[u].cb.do = "relay"
        PROVE  FALSE
    <3>1. u \in 1 .. Len(agenda) /\ Len(agenda) # 1 /\ agenda[u] \in Call
      BY <1>0 DEF Types
    <3>2. Fits(agenda[u])
      BY <1>0, <3>1 DEF CallsFit
    <3>3. CASE agenda[u].call = "then"
      <4>1. ~Late(agenda[u].p, agenda[u].cb)
        BY <2>1, LateIs
      <4>2. Waits(agenda[u].p, agenda[u].cb)
        BY <3>2, <3>3, <4>1 DEF Fits
      <4>3. agenda[u].cb = Relay
        BY <2>1, <4>2, WaitsIs
      <4> QED
        BY <1>0, <3>1, <3>3, <4>3 DEF RelayFits
    <3>4. CASE agenda[u].call = "apply"
      <4>1. agenda[u].cb = h.cb
        BY <1>3, <2>1, <3>2, <3>4 DEF Fits, Told
      <4>2. Right(agenda[u]) = Right(h)
        BY <1>2, <3>1, <3>4, <4>1, RightIs
      <4> QED
        BY <1>2, <4>2 DEF Elsewhere
    <3> QED
      BY <2>1, <3>3, <3>4
  <2>2. ASSUME NEW p \in Promise, Waiting(p), Waiter(p) = Relay PROVE FALSE
    <3>1. Waits(p, Relay) /\ callbacks[p] # <<>>
      BY <1>0, <2>2 DEF WaitersFit, Waiting, Waiter
    <3>2. p = Of(1) /\ 1 \in Request
      BY <3>1, WaitsIs, Callbacks, Promises
    <3>3. xhr[1] \notin {"unsent", "none"}
      BY <1>0, <3>1, <3>2 DEF WaitersFit
    <3>4. hasXhr
      BY <1>0, <3>2, <3>3 DEF RequestsFit, Types, AjaxTypeOK
    <3>5. Right(h) = RightOf(Waiter(p))
      BY <1>2, <1>3, <2>2, <3>4
    <3> QED
      BY <1>2, <2>2, <3>5 DEF Elsewhere
  <2>3. <<y>> \in Seq(Call) /\ \A u \in 1 .. Len(<<y>>) : <<y>>[u] = y
    BY <1>8
  <2>4. Replaced(<<y>>)
    BY <1>9, <1>10, <1>13, <2>3, SendReplaces
  <2>5. \A u \in 1 .. Len(<<y>>) : ~(<<y>>[u].call \in {"then", "apply"} /\ <<y>>[u].cb.do = "relay")
    BY <1>6, <1>8, <2>3
  <2> QED
    BY <1>0, <2>1, <2>2, <2>4, <2>5, RelayFitsKept
<1>15. given' \in [DOMAIN given' -> Answer] /\ DOMAIN given' \subseteq Request /\ GivenFits'
  BY <1>0, <1>9, <1>11, AnswersKept DEF Types
<1>16. called \subseteq called' /\ called' \subseteq Request
  BY <1>0, <1>9 DEF Types, AjaxTypeOK
<1>17. y.cb.do # "follow"
  BY <1>6, <1>8
<1>18. Elsewhere(<<"chain", 0>>) => \A m \in 1 .. NRequest + 1 : Right(y) # <<"done", Link(m)>>
  <2>1. Right(y) \in {<<"done", Relayed>>, <<"tell", TheWhole>>}
    BY <1>2, <1>8, RightOfIs
  <2> QED
    BY <2>1, PairsDiffer
<1> QED
  BY <1>1, <1>2, <1>3, <1>8, <1>9, <1>12, <1>13, <1>14, <1>15, <1>16, <1>17, <1>18, SendOne

\* The next function of a chain is called.
LEMMA ChainGoesOn ==
    ASSUME IInv, Chain, Head(agenda).n # NRequest + 1 PROVE IInv'
<1>0. Types /\ RequestsFit /\ ChainFits /\ GivenFits
  BY DEF IInv
<1>1. agenda # <<>>
  BY DEF Chain, Doing
<1>2. PICK h \in Call : /\ h = agenda[1] /\ Head(agenda) = h /\ h.call = "chain"
                        /\ h.n \in 1 .. NRequest + 1 /\ h.a \in Answer
                        /\ Fits(h) /\ ~Used(Right(h)) /\ ~Elsewhere(Right(h))
                        /\ Right(h) = <<"chain", 0>> /\ 1 \in 1 .. Len(agenda)
  <2>1. Head(agenda).call = "chain"
    BY DEF Chain, Doing
  <2> QED
    BY <1>1, <2>1, HeadIs, CallIs, RightIs
<1>3. PICK n \in Request : n = h.n
  BY <1>2, NRequestAssumption DEF Request
<1>4. /\ GoesOn(n) /\ plan = "chain" /\ DOMAIN given = 1 .. n - 1
      /\ n > 1 => isdone[Of(n - 1)] /\ h.a = FirstAnswer(n - 1)
  BY <1>0, <1>2, <1>3 DEF ChainFits, Fits
<1>5. n \notin DOMAIN given /\ xhr[n] = "unsent" /\ DOMAIN given \cup {n} = 1 .. n
  <2>1. n \notin 1 .. n - 1 /\ (1 .. n - 1) \cup {n} = 1 .. n
    BY DEF Request
  <2> QED
    BY <1>0, <1>4, <2>1 DEF RequestsFit
<1>6. PICK y : y = CallThen(Of(n), Follow(n))
  OBVIOUS
<1>7. /\ SendAll({n}) /\ UNCHANGED <<plan, hasXhr, called, callbacks, results, numdone, told>>
      /\ given' = [r \in DOMAIN given \cup {n} |-> IF r = n THEN h.a ELSE given[r]]
      /\ agenda' = <<y>> \o Tail(agenda)
  BY <1>2, <1>3, <1>6, ZenonT(60) DEF Chain
<1>8. /\ Follow(n) \in Continuer /\ Follow(n).do = "follow" /\ Follow(n).of = n /\ Of(n) \in Promise
  BY Promises, Callbacks
<1>9. /\ y \in Call /\ y.call = "then" /\ y.p = Of(n) /\ y.cb = Follow(n)
      /\ Right(y) = <<"chain", 0>>
  <2>1. RightOf(Follow(n)) = <<"chain", 0>>
    BY <1>8, RightOfIs
  <2> QED
    BY <1>6, <1>8, <2>1, NewCalls
<1>10. {n} \in SUBSET Request /\ \A q \in {n} : xhr[q] = "unsent"
  BY <1>5
<1>11. /\ Calm /\ xhr'[n] \in {"sent", "none"}
       /\ \A p \in Promise : (\A r \in {n} : p # Of(r)) => isdone'[p] = isdone[p]
  BY <1>7, <1>10, SendIs
<1>12. Fits(y)'
  <2>1. Waits(y.p, y.cb)'
    BY <1>4, <1>7, <1>9 DEF Waits
  <2>2. \A q \in Request : y.p = Of(q) => xhr'[q] \in {"sent", "none"}
    BY <1>9, <1>11, PairsDiffer
  <2> QED
    BY <1>9, <2>1, <2>2 DEF Fits
<1>13. agenda' = IF agenda = <<>> THEN <<y>> ELSE <<y>> \o Tail(agenda)
  BY <1>1, <1>7
<1>14. /\ <<y>> \in Seq(Call) /\ \A u \in 1 .. Len(<<y>>) : <<y>>[u] = y
       /\ Replaced(<<y>>)
  <2>1. <<y>> \in Seq(Call) /\ \A u \in 1 .. Len(<<y>>) : <<y>>[u] = y
    BY <1>9
  <2> QED
    BY <1>7, <1>10, <1>13, <2>1, SendReplaces
<1>15. RelayFits'
  <2>1. \A u \in 1 .. Len(<<y>>) : ~(<<y>>[u].call \in {"then", "apply"} /\ <<y>>[u].cb.do = "relay")
    BY <1>8, <1>9, <1>14
  <2> QED
    BY <1>4, <1>14, <2>1, NoRelayAfter
<1>16. /\ given' \in [DOMAIN given' -> Answer] /\ DOMAIN given' \subseteq Request
       /\ DOMAIN given' = DOMAIN given \cup {n}
  BY <1>0, <1>2, <1>7 DEF Types
<1>17. GivenFits'
  <2> SUFFICES ASSUME NEW k \in DOMAIN given', k > 1
               PROVE  isdone'[Of(k - 1)] /\ given'[k] = FirstAnswer(k - 1)'
    BY DEF GivenFits
  <2>1. PICK j : j = k - 1
    OBVIOUS
  <2>2. j \in Request /\ Of(j) \in Promise
    <3>1. k \in Request
      BY <1>16
    <3>2. j \in Request
      BY <2>1, <3>1, NRequestAssumption DEF Request
    <3> QED
      BY <3>2, Promises
  <2>3. isdone[Of(j)] /\ given'[k] = FirstAnswer(j)
    <3>1. CASE k = n
      BY <1>4, <1>7, <2>1, <3>1
    <3>2. CASE k # n
      <4>1. k \in DOMAIN given /\ given'[k] = given[k]
        BY <1>7, <3>2
      <4> QED
        BY <1>0, <2>1, <4>1 DEF GivenFits
    <3> QED
      BY <3>1, <3>2
  <2>4. isdone'[Of(j)] /\ FirstAnswer(j)' = FirstAnswer(j)
    BY <1>11, <2>2, <2>3 DEF Calm
  <2> QED
    BY <2>1, <2>3, <2>4
<1>18. GoesOn(n)'
  <2>1. \A m \in 1 .. NRequest + 1 : isdone'[Link(m)] => isdone[Link(m)]
    BY <1>11, Promises, PairsDiffer
  <2>2. \A u \in 1 .. Len(<<y>>) : \A m \in 1 .. NRequest + 1 : Right(<<y>>[u]) # <<"done", Link(m)>>
    BY <1>9, <1>14
  <2> QED
    BY <1>0, <1>4, <1>14, <2>1, <2>2, GoesOnKept
<1>19. GoesOn(y.cb.of)' /\ DOMAIN given' = 1 .. y.cb.of
  <2>1. y.cb.of = n
    BY <1>8, <1>9
  <2> QED
    BY <1>5, <1>16, <1>18, <2>1
<1>20. called \subseteq called' /\ called' \subseteq Request
  BY <1>0, <1>7 DEF Types, AjaxTypeOK
<1>21. ~Elsewhere(<<"chain", 0>>)
  BY <1>2
<1> QED
  BY <1>1, <1>2, <1>4, <1>5, <1>7, <1>9, <1>12, <1>13, <1>15, <1>16, <1>17, <1>19, <1>20, <1>21, SendOne

LEMMA AskJoinStep ==
    ASSUME IInv, AskJoin PROVE IInv'
<1>0. Types /\ Untouched /\ GivenFits
  BY DEF IInv
<1>1. /\ SendAll(Request) /\ UNCHANGED <<plan, hasXhr, callbacks, results, numdone, given, told>>
      /\ plan = "join" /\ called = {} /\ called' = Request
  BY DEF AskJoin
<1>2. /\ agenda = <<>> /\ xhr = [r \in Request |-> "unsent"] /\ DOMAIN results = {}
      /\ \A p \in Promise : callbacks[p] = <<>> /\ ~isdone[p]
      /\ \A c \in Continuation : told[c] = <<>>
  BY <1>0, <1>1 DEF Untouched
<1>3. PICK z : z = CallThen(Joined, Tell(TheWhole))
  OBVIOUS
<1>4. PICK first : first = [r \in Request |-> CallThen(Of(r), Notify(r))]
  OBVIOUS
<1>5. agenda' = first \o <<z>>
  BY <1>3, <1>4 DEF AskJoin, TheWhole
<1>6. /\ z \in Call /\ z.call = "then" /\ z.p = Joined /\ z.cb = Tell(TheWhole)
      /\ z.cb.do = "tell" /\ Right(z) = <<"tell", TheWhole>>
  <2>1. /\ Tell(TheWhole) \in Continuer /\ Tell(TheWhole).do = "tell" /\ Tell(TheWhole).of = TheWhole
        /\ Joined \in Promise
    BY Promises, Callbacks
  <2>2. RightOf(Tell(TheWhole)) = <<"tell", TheWhole>>
    BY <2>1, RightOfIs
  <2> QED
    BY <1>3, <2>1, <2>2, NewCalls
<1>7. ASSUME NEW r \in Request
      PROVE  /\ first[r] \in Call /\ first[r].call = "then" /\ first[r].p = Of(r)
             /\ first[r].cb = Notify(r) /\ first[r].cb.do = "notify" /\ Right(first[r]) = <<"notify", r>>
  <2>1. first[r] = CallThen(Of(r), Notify(r))
    BY <1>4
  <2>2. Of(r) \in Promise /\ Notify(r) \in Continuer /\ Notify(r).do = "notify" /\ Notify(r).of = r
    BY Promises, Callbacks
  <2>3. RightOf(Notify(r)) = <<"notify", r>>
    BY <2>2, RightOfIs
  <2> QED
    BY <2>1, <2>2, <2>3, NewCalls
<1>8. first \in Seq(Call) /\ Len(first) = NRequest
  BY <1>4, <1>7, NRequestAssumption DEF Request
<1>9. PICK new \in Seq(Call) : new = first \o <<z>>
  <2>1. first \o <<z>> \in Seq(Call)
    BY <1>6, <1>8
  <2> QED
    BY <2>1
<1>10. ASSUME NEW u \in 1 .. Len(new)
       PROVE  (u \in Request /\ new[u] = first[u]) \/ (u = NRequest + 1 /\ new[u] = z)
  BY <1>6, <1>8, <1>9, NRequestAssumption DEF Request
<1>11. \A r \in Request : xhr[r] = "unsent"
  BY <1>2
<1>12. Calm /\ \A r \in Request : xhr'[r] \in {"sent", "none"}
  BY <1>1, <1>11, SendIs
<1>13. ASSUME NEW u \in 1 .. Len(new), NEW j \in 1 .. Len(new), Right(new[u]) = Right(new[j])
       PROVE  u = j
  BY <1>6, <1>7, <1>10, <1>13
<1>14. \A right : ~Elsewhere(right)
  BY <1>2 DEF Elsewhere, Waiting
<1>15. ASSUME NEW u \in 1 .. Len(new)
       PROVE  /\ ~Used(Right(new[u])) /\ new[u].call = "then"
              /\ new[u].cb.do # "follow" /\ new[u].cb.do # "relay"
  <2>1. CASE u \in Request /\ new[u] = first[u]
    <3>1. Right(new[u]) = <<"notify", u>> /\ u \notin DOMAIN results
      BY <1>2, <1>7, <2>1
    <3>2. ~Used(Right(new[u]))
      BY <3>1 DEF Used
    <3> QED
      BY <1>7, <2>1, <3>2
  <2>2. CASE new[u] = z
    <3>1. Right(new[u]) = <<"tell", TheWhole>> /\ told[TheWhole] = <<>>
      <4>1. TheWhole \in Continuation
        BY DEF Continuation, TheWhole
      <4> QED
        BY <1>2, <1>6, <2>2, <4>1
    <3>2. ~Used(Right(new[u]))
      BY <3>1 DEF Used
    <3> QED
      BY <1>6, <2>2, <3>2
  <2> QED
    BY <1>10, <2>1, <2>2
<1>16. ASSUME NEW u \in 1 .. Len(new) PROVE Fits(new[u])'
  <2>1. PICK h : h = new[u]
    OBVIOUS
  <2>2. h.call = "then" /\ (h = z \/ (u \in Request /\ h.p = Of(u) /\ h.cb = Notify(u)))
    BY <1>6, <1>7, <1>10, <2>1
  <2>3. Waits(h.p, h.cb)'
    BY <1>1, <1>6, <2>2 DEF Waits
  <2>4. Fits(h)'
    BY <1>12, <2>2, <2>3 DEF Fits
  <2> QED
    BY <2>1, <2>4
<1>17. agenda' = IF agenda = <<>> THEN new ELSE new \o Tail(agenda)
  BY <1>2, <1>5, <1>9
<1>18. RelayFits'
  <2>1. Replaced(new)
    BY <1>1, <1>11, <1>17, SendReplaces
  <2> QED
    BY <1>1, <1>15, <2>1, NoRelayAfter
<1>19. given' \in [DOMAIN given' -> Answer] /\ DOMAIN given' \subseteq Request /\ GivenFits'
  BY <1>0, <1>1, <1>12, AnswersKept DEF Types
<1>20. called \subseteq called' /\ called' \subseteq Request /\ called' # {}
  BY <1>1, Promises
<1>21. Request \in SUBSET Request
  OBVIOUS
<1> QED
  BY <1>1, <1>2, <1>11, <1>13, <1>14, <1>15, <1>16, <1>17, <1>18, <1>19, <1>20, <1>21, SendStep

--------------------
(* Steps that tell, notify and forget. *)

\* What rights look like.
LEMMA RightsAre ==
    ASSUME Types
    PROVE  /\ \A h \in Call : /\ Right(h) = <<Right(h)[1], Right(h)[2]>>
                              /\ Right(h)[1] = "tell" => Right(h)[2] \in Continuation
           /\ \A right : Elsewhere(right) => /\ right = <<right[1], right[2]>>
                                             /\ right[1] = "tell" => right[2] \in Continuation
<1>1. ASSUME NEW cb \in Continuer
      PROVE  /\ RightOf(cb) = <<RightOf(cb)[1], RightOf(cb)[2]>>
             /\ RightOf(cb)[1] = "tell" => RightOf(cb)[2] \in Continuation
  <2>1. CASE cb.do = "tell"
    <3>1. RightOf(cb) = <<"tell", cb.of>> /\ cb.of \in Continuation
      BY <2>1, RightOfIs, CallbackIs
    <3> QED
      BY <3>1
  <2>2. CASE cb.do \in {"notify", "follow", "pass"}
    <3>1. RightOf(cb) \in {<<"notify", cb.of>>, <<"chain", 0>>, <<"done", cb.of>>}
      BY <2>2, RightOfIs
    <3> QED
      BY <3>1
  <2>3. CASE cb.do = "relay"
    <3>1. RightOf(cb) \in {<<"done", Relayed>>, <<"tell", TheWhole>>}
      BY <2>3, RightOfIs
    <3> QED
      BY <3>1, Promises
  <2> QED
    BY <2>1, <2>2, <2>3, CallbackIs
<1>2. ASSUME NEW h \in Call
      PROVE  /\ Right(h) = <<Right(h)[1], Right(h)[2]>>
             /\ Right(h)[1] = "tell" => Right(h)[2] \in Continuation
  <2>1. CASE h.call \in {"then", "apply"}
    BY <1>1, <2>1, CallIs, RightIs
  <2>2. CASE h.call \notin {"then", "apply"}
    <3>1. Right(h) \in {<<"chain", 0>>, <<"empty", h.p>>, <<"answer", h.a>>, <<"done", h.p>>}
      BY <2>2, CallIs, RightIs
    <3> QED
      BY <3>1
  <2> QED
    BY <2>1, <2>2
<1>3. \A u \in 2 .. Len(agenda) : agenda[u] \in Call
  BY DEF Types
<1>4. \A p \in Promise : Waiting(p) => Waiter(p) \in Continuer
  BY WaiterIs DEF Waiting
<1> QED
  BY <1>1, <1>2, <1>3, <1>4 DEF Elsewhere

LEMMA ApplyTellStep ==
    ASSUME IInv, ApplyTell PROVE IInv'
<1>0. /\ Types /\ Distinct /\ Unused /\ CallsFit /\ WaitersFit /\ RequestsFit /\ DoneFits
      /\ ResultsFit /\ GivenFits /\ ToldFits /\ ChainFits /\ RelayFits /\ Untouched
  BY DEF IInv
<1>1. agenda # <<>>
  BY DEF ApplyTell, Applying, Doing
<1>2. PICK h \in Call : /\ h = agenda[1] /\ Head(agenda) = h /\ h.call = "apply"
                        /\ h.cb \in Continuer /\ h.a \in Answer /\ h.cb.do = "tell"
                        /\ Fits(h) /\ ~Used(Right(h)) /\ ~Elsewhere(Right(h))
                        /\ Right(h) = <<"tell", h.cb.of>> /\ 1 \in 1 .. Len(agenda)
  <2>1. Head(agenda).call = "apply" /\ Head(agenda).cb.do = "tell"
    BY DEF ApplyTell, Applying, Doing
  <2> QED
    BY <1>1, <2>1, HeadIs, CallIs, RightIs, RightOfIs
<1>3. PICK c \in Continuation : c = h.cb.of /\ h.cb = Tell(c)
  BY <1>2, CallbackIs
<1>4. /\ Unanswered /\ UNCHANGED <<called, callbacks, results, numdone, given>>
      /\ agenda' = Tail(agenda) /\ told' = [told EXCEPT ![c] = Append(@, h.a)]
  BY <1>2, <1>3 DEF ApplyTell, SendNothing, Unanswered
<1>5. /\ <<>> \in Seq(Call) /\ Len(<<>>) = 0 /\ agenda' = <<>> \o Tail(agenda)
  <2>1. Tail(agenda) \in Seq(Call)
    BY <1>0, <1>1 DEF Types
  <2> QED
    BY <1>4, <2>1
<1>6. /\ told[c] = <<>> /\ told' \in [Continuation -> Seq(Answer)] /\ told'[c] = <<h.a>>
      /\ \A d \in Continuation : d # c => told'[d] = told[d]
  <2>1. told[c] = <<>> /\ told \in [Continuation -> Seq(Answer)]
    BY <1>0, <1>2, <1>3 DEF Used, Types, AjaxTypeOK
  <2>2. Append(told[c], h.a) = <<h.a>> /\ <<h.a>> \in Seq(Answer)
    BY <1>2, <2>1
  <2> QED
    BY <1>4, <2>1, <2>2
<1>7. PICK new : new = <<>> /\ Before(new) /\ Replaced(new) /\ Len(new) = 0
  <2>1. Before(<<>>)
    BY <1>1, <1>5 DEF Before
  <2>2. Replaced(<<>>)
    BY <1>4, <2>1 DEF Replaced, Waiting, Unanswered
  <2> QED
    BY <1>5, <2>1, <2>2
<1>8. Calm /\ SentStays
  BY <1>0, <1>4, QuietIsCalm DEF Types, AjaxTypeOK
<1>9. Types'
  <2>1. agenda' \in Seq(Call)
    BY <1>0, <1>7, AgendaIs
  <2>2. AjaxTypeOK'
    BY <1>0, <1>4, <1>6 DEF Types, AjaxTypeOK, Unanswered
  <2> QED
    BY <1>0, <1>4, <2>1, <2>2 DEF Types
<1>10. Distinct'
  BY <1>0, <1>7, DistinctKept
<1>11. Unused'
  <2>1. ASSUME NEW right, Elsewhere(right), Used(right)' PROVE Used(right)
    <3>1. right = <<right[1], right[2]>> /\ (right[1] = "tell" => right[2] \in Continuation)
      BY <1>0, <2>1, RightsAre
    <3>2. right[1] = "tell" => right[2] # c
      BY <1>2, <1>3, <2>1, <3>1
    <3> QED
      BY <1>4, <1>6, <2>1, <3>1, <3>2 DEF Used, Unanswered
  <2> QED
    BY <1>0, <1>7, <2>1, UnusedKept, StaysElsewhere
<1>12. CallsFit'
  <2>1. \A p \in Promise : isdone[p] => result'[p] = result[p]
    BY <1>4 DEF Unanswered
  <2> QED
    BY <1>0, <1>1, <1>2, <1>4, <1>7, <1>8, <2>1, CallsFitKept
<1>13. WaitersFit'
  BY <1>0, <1>1, <1>2, <1>4, <1>7, <1>8, WaitersFitKept DEF Unanswered
<1>14. ASSUME c # TheWhole PROVE plan = "each" /\ isdone[Of(c[2])] /\ c[2] \in Request
  <2>1. h.cb # Tell(TheWhole)
    BY <1>3, <1>14, PairsDiffer
  <2>2. c[2] \in Request
    BY <1>14 DEF Continuation, TheWhole
  <2> QED
    BY <1>2, <1>3, <2>1, <2>2 DEF Fits, Told
<1>15. RequestsFit'
  <2>1. ASSUME NEW r \in Request, plan = "each", r \notin called PROVE told'[<<"each", r>>] = <<>>
    <3>1. <<"each", r>> \in Continuation /\ <<"each", r>> # TheWhole /\ <<"each", r>>[2] = r
      BY Promises DEF TheWhole
    <3>2. xhr[r] = "unsent" /\ ~isdone[Of(r)] /\ told[<<"each", r>>] = <<>>
      BY <1>0, <2>1 DEF RequestsFit
    <3>3. c # <<"each", r>>
      BY <1>14, <3>1, <3>2
    <3> QED
      BY <1>6, <3>1, <3>2, <3>3
  <2> QED
    BY <1>0, <1>4, <2>1 DEF RequestsFit, Unanswered
<1>16. DoneFits' /\ ResultsFit' /\ GivenFits'
  <2>1. DoneFits'
    BY <1>0, <1>4, <1>8, DoneFitsKept DEF Unanswered
  <2> QED
    BY <1>0, <1>4, <1>8, <2>1, AnswersKept
<1>17. ToldFits'
  <2>1. \A d \in Continuation : Len(told'[d]) <= 1
    <3> SUFFICES ASSUME NEW d \in Continuation PROVE Len(told'[d]) <= 1
      OBVIOUS
    <3>1. CASE d = c
      <4>1. told'[d] = <<h.a>>
        BY <1>6, <3>1
      <4>2. \A t : t = <<h.a>> => Len(t) = 1
        OBVIOUS
      <4>3. Len(told'[d]) = 1
        BY <4>1, <4>2
      <4> QED
        BY <4>3
    <3>2. CASE d # c
      <4>1. told'[d] = told[d]
        BY <1>6, <3>2
      <4> QED
        BY <1>0, <4>1 DEF ToldFits
    <3> QED
      BY <3>1, <3>2
  <2>2. CASE c = TheWhole
    <3>1. told'[TheWhole] = <<h.a>> /\ told'[TheWhole][1] = h.a /\ h.cb = Tell(TheWhole)
      BY <1>3, <1>6, <2>2
    <3>2. AllNotified \/ Ended(h.a) \/ plan = "relay"
      BY <1>2, <3>1 DEF Fits, Told
    <3>3. plan = "join" => AllNotified'
      BY <1>8, <3>2, AllNotifiedKept DEF Ended
    <3>4. plan = "chain" => Ended(h.a)'
      BY <1>8, <3>2, EndedKept DEF AllNotified
    <3>5. PICK a : a = h.a /\ told'[TheWhole][1] = a
      BY <3>1
    <3>6. plan = "chain" => Ended(a)'
      BY <3>4, <3>5
    <3>7. plan' = "chain" => Ended(told[TheWhole][1])'
      BY <1>8, <3>5, <3>6 DEF Calm
    <3>8. plan' = "join" => AllNotified'
      BY <1>8, <3>3 DEF Calm
    <3> QED
      BY <2>1, <3>7, <3>8 DEF ToldFits
  <2>3. CASE c # TheWhole
    BY <1>4, <1>14, <2>1, <2>3 DEF ToldFits, Unanswered
  <2> QED
    BY <2>2, <2>3
<1>18. ChainFits'
  <2>1. \A m \in 1 .. NRequest + 1 : isdone'[Link(m)] => isdone[Link(m)]
    BY <1>4 DEF Unanswered
  <2> QED
    BY <1>0, <1>4, <1>7, <2>1, ChainFitsKept
<1>19. RelayFits' /\ Untouched'
  <2>1. xhr'[2] = xhr[2] /\ UNCHANGED <<plan, called>>
    BY <1>4 DEF Unanswered
  <2> QED
    BY <1>0, <1>1, <1>7, <2>1, RelayFitsKept, UntouchedKept
<1> QED
  BY <1>9, <1>10, <1>11, <1>12, <1>13, <1>15, <1>16, <1>17, <1>18, <1>19 DEF IInv

\* Nobody else is going to have join's promise done before all have notified it.
LEMMA JoinedIsNotPassed ==
    ASSUME IInv, ~AllNotified PROVE ~Elsewhere(<<"done", Joined>>) /\ ~isdone[Joined]
<1>0. Types /\ CallsFit /\ WaitersFit /\ DoneFits
  BY DEF IInv
<1>1. ASSUME NEW u \in 2 .. Len(agenda), Right(agenda[u]) = <<"done", Joined>> PROVE FALSE
  <2>1. agenda[u] \in Call /\ u \in 1 .. Len(agenda)
    BY <1>0 DEF Types
  <2>2. PICK h \in Call : h = agenda[u] /\ Fits(h)
    BY <1>0, <2>1 DEF CallsFit
  <2>3. CASE h.call = "done" /\ h.p = Joined
    BY <2>2, <2>3, PairsDiffer DEF Fits
  <2>4. CASE h.call \in {"then", "apply"} /\ RightOf(h.cb) = <<"done", Joined>>
    <3>1. h.cb = Pass(Joined) /\ h.cb.do = "pass" /\ h.cb.of = Joined
      BY <2>4, CallIs, HasRightOf, PairsDiffer, Promises, Callbacks
    <3>2. CASE h.call = "then"
      <4>1. Waits(h.p, h.cb)
        BY <2>2, <3>1, <3>2, LateIs DEF Fits
      <4> QED
        BY <3>1, <4>1, WaitsIs, PairsDiffer
    <3>3. CASE h.call = "apply"
      BY <2>2, <3>1, <3>3, PairsDiffer DEF Fits, Told
    <3> QED
      BY <2>4, <3>2, <3>3
  <2> QED
    BY <1>1, <2>2, <2>3, <2>4, HasRight
<1>2. ASSUME NEW p \in Promise, Waiting(p), RightOf(Waiter(p)) = <<"done", Joined>> PROVE FALSE
  <2>1. Waits(p, Waiter(p)) /\ Waiter(p) \in Continuer
    BY <1>0, <1>2, WaiterIs DEF WaitersFit, Waiting, Waiter
  <2>2. Waiter(p) = Pass(Joined)
    BY <1>2, <2>1, HasRightOf, PairsDiffer
  <2>3. Waiter(p).do = "pass"
    BY <2>2, Promises, Callbacks
  <2> QED
    BY <2>1, <2>2, <2>3, WaitsIs, PairsDiffer
<1> QED
  BY <1>0, <1>1, <1>2 DEF Elsewhere, DoneFits

LEMMA ApplyNotifyStep ==
    ASSUME IInv, ApplyNotify PROVE IInv'
<1>0. /\ Types /\ Distinct /\ Unused /\ CallsFit /\ WaitersFit /\ RequestsFit /\ DoneFits
      /\ ResultsFit /\ GivenFits /\ ToldFits /\ ChainFits /\ RelayFits /\ Untouched
  BY DEF IInv
<1>1. agenda # <<>>
  BY DEF ApplyNotify, Applying, Doing
<1>2. PICK h \in Call : /\ h = agenda[1] /\ Head(agenda) = h /\ h.call = "apply"
                        /\ h.cb \in Continuer /\ h.a \in Answer /\ h.cb.do = "notify"
                        /\ Fits(h) /\ ~Used(Right(h)) /\ ~Elsewhere(Right(h))
                        /\ Right(h) = <<"notify", h.cb.of>> /\ 1 \in 1 .. Len(agenda)
  <2>1. Head(agenda).call = "apply" /\ Head(agenda).cb.do = "notify"
    BY DEF ApplyNotify, Applying, Doing
  <2> QED
    BY <1>1, <2>1, HeadIs, CallIs, RightIs, RightOfIs
<1>3. PICK r \in Request : /\ r = h.cb.of /\ h.cb = Notify(r) /\ plan = "join"
                           /\ isdone[Of(r)] /\ h.a = FirstAnswer(r) /\ r \notin DOMAIN results
  BY <1>2, CallbackIs DEF Fits, Told, Used
<1>4. PICK y : y = CallDone(Joined, "results")
  OBVIOUS
<1>5. PICK new : new = IF numdone' = NRequest THEN <<y>> ELSE <<>>
  OBVIOUS
<1>6. /\ Unanswered /\ UNCHANGED <<called, callbacks, given, told>> /\ numdone' = numdone + 1
      /\ results' = [q \in DOMAIN results \cup {r} |-> IF q = r THEN h.a ELSE results[q]]
      /\ agenda' = new \o Tail(agenda)
  BY <1>2, <1>3, <1>4, <1>5 DEF ApplyNotify, SendNothing, Unanswered
<1>7. y \in Call /\ y.call = "done" /\ y.p = Joined /\ y.p[1] # "ajax" /\ Right(y) = <<"done", Joined>>
  <2>1. Joined \in Promise /\ Joined[1] = "join" /\ "results" \in Answer
    BY Promises DEF Answer
  <2> QED
    BY <1>4, <2>1, NewCalls
<1>8. /\ new \in Seq(Call)
      /\ \A u \in 1 .. Len(new) : u = 1 /\ new[u] = y /\ numdone' = NRequest
  <2>1. CASE numdone' = NRequest
    BY <1>5, <1>7, <2>1
  <2>2. CASE numdone' # NRequest
    BY <1>5, <2>2
  <2> QED
    BY <2>1, <2>2
<1>9. Before(new) /\ Replaced(new)
  <2>1. Before(new)
    BY <1>1, <1>6, <1>8 DEF Before
  <2> QED
    BY <1>6, <2>1 DEF Replaced, Waiting, Unanswered
<1>10. /\ DOMAIN results' = DOMAIN results \cup {r} /\ DOMAIN results' \subseteq Request
       /\ results' \in [DOMAIN results' -> Answer]
       /\ results'[r] = h.a /\ \A q \in DOMAIN results : results'[q] = results[q]
  BY <1>0, <1>2, <1>3, <1>6 DEF Types, AjaxTypeOK
<1>11. Calm /\ SentStays
  BY <1>6, <1>10, QuietIsCalm
<1>12. /\ numdone' = Cardinality(DOMAIN results') /\ numdone' \in 0 .. NRequest
       /\ numdone' = NRequest => DOMAIN results' = Request
  <2>1. IsFiniteSet(Request) /\ Cardinality(Request) = NRequest
    <3>1. 1 \in Nat /\ NRequest \in Nat
      BY NRequestAssumption
    <3>2. Cardinality(Request) = NRequest
      BY <3>1, FS_Interval, NRequestAssumption DEF Request
    <3> QED
      BY <3>1, <3>2, FS_Interval DEF Request
  <2>2. IsFiniteSet(DOMAIN results) /\ IsFiniteSet(DOMAIN results')
    BY <1>0, <1>10, <2>1, FS_Subset DEF Types, AjaxTypeOK
  <2>3. Cardinality(DOMAIN results') = Cardinality(DOMAIN results) + 1
    BY <1>3, <1>10, <2>2, FS_AddElement
  <2>4. /\ Cardinality(DOMAIN results') <= NRequest
        /\ Cardinality(DOMAIN results') = NRequest => DOMAIN results' = Request
    BY <1>10, <2>1, <2>2, FS_Subset
  <2>5. Cardinality(DOMAIN results) \in Nat
    BY <2>2, FS_CardinalityType
  <2> QED
    BY <1>0, <1>6, <2>3, <2>4, <2>5, NRequestAssumption DEF ResultsFit
<1>13. Types'
  <2>1. agenda' \in Seq(Call)
    BY <1>0, <1>9, AgendaIs
  <2>2. AjaxTypeOK'
    BY <1>0, <1>6, <1>10, <1>12 DEF Types, AjaxTypeOK, Unanswered
  <2> QED
    BY <1>0, <1>6, <1>10, <2>1, <2>2 DEF Types
<1>14. ~AllNotified
  BY <1>3 DEF AllNotified
<1>15. ~Elsewhere(<<"done", Joined>>) /\ ~isdone[Joined]
  BY <1>14, JoinedIsNotPassed
<1>16. Distinct'
  BY <1>0, <1>7, <1>8, <1>9, <1>15, DistinctKept, StaysElsewhere
<1>17. Unused'
  <2>1. ASSUME NEW right, Elsewhere(right), Used(right)' PROVE Used(right)
    <3>1. right = <<right[1], right[2]>>
      BY <1>0, <2>1, RightsAre
    <3>2. right[1] = "notify" => right[2] # r
      BY <1>2, <1>3, <2>1, <3>1
    <3> QED
      BY <1>6, <1>10, <2>1, <3>2 DEF Used, Unanswered
  <2>2. ASSUME NEW u \in 1 .. Len(new) PROVE ~Used(Right(new[u]))'
    <3>1. Right(new[u]) = <<"done", Joined>>
      BY <1>7, <1>8
    <3>2. ~isdone'[Joined]
      BY <1>6, <1>15 DEF Unanswered
    <3>3. PICK right : right = Right(new[u]) /\ right = <<"done", Joined>>
      BY <3>1
    <3>4. ~Used(right)'
      BY <3>2, <3>3 DEF Used
    <3> QED
      BY <3>3, <3>4
  <2> QED
    BY <1>0, <1>9, <2>1, <2>2, UnusedKept, StaysElsewhere
<1>18. CallsFit'
  <2>1. \A p \in Promise : isdone[p] => result'[p] = result[p]
    BY <1>6 DEF Unanswered
  <2>2. ASSUME NEW u \in 1 .. Len(new) PROVE Fits(new[u])' /\ new[u].p[1] # "ajax"
    <3>1. AllNotified'
      BY <1>3, <1>8, <1>11, <1>12 DEF AllNotified, Calm
    <3>2. new[u] = y
      BY <1>8
    <3>3. Fits(y)'
      BY <1>7, <3>1 DEF Fits
    <3> QED
      BY <1>7, <3>2, <3>3
  <2> QED
    BY <1>0, <1>1, <1>2, <1>6, <1>9, <1>11, <2>1, <2>2, CallsFitKept
<1>19. WaitersFit'
  BY <1>0, <1>1, <1>2, <1>6, <1>9, <1>11, WaitersFitKept DEF Unanswered
<1>20. RequestsFit' /\ DoneFits' /\ GivenFits' /\ ToldFits'
  <2>1. RequestsFit'
    BY <1>0, <1>6, RequestsKept
  <2>2. DoneFits'
    BY <1>0, <1>6, <1>11, DoneFitsKept DEF Unanswered
  <2> QED
    BY <1>0, <1>6, <1>11, <2>1, <2>2, AnswersKept
<1>21. ResultsFit'
  <2>1. ASSUME NEW q \in DOMAIN results' PROVE isdone'[Of(q)] /\ results'[q] = FirstAnswer(q)'
    <3>1. isdone[Of(q)] /\ results'[q] = FirstAnswer(q) /\ q \in Request
      BY <1>0, <1>3, <1>10, <2>1 DEF ResultsFit
    <3> QED
      BY <1>11, <3>1, Promises DEF Calm
  <2> QED
    BY <1>12, <2>1 DEF ResultsFit
<1>22. ChainFits'
  <2>1. \A m \in 1 .. NRequest + 1 : isdone'[Link(m)] => isdone[Link(m)]
    BY <1>6 DEF Unanswered
  <2>2. \A u \in 1 .. Len(new) : \A m \in 1 .. NRequest + 1 : Right(new[u]) # <<"done", Link(m)>>
    BY <1>7, <1>8, PairsDiffer
  <2>3. \A u \in 1 .. Len(new) : new[u].call = "done"
    BY <1>7, <1>8
  <2> QED
    BY <1>0, <1>6, <1>9, <2>1, <2>2, <2>3, ChainFitsKept
<1>23. RelayFits' /\ Untouched'
  <2>1. xhr'[2] = xhr[2] /\ UNCHANGED <<plan, called>>
    BY <1>6 DEF Unanswered
  <2>2. \A u \in 1 .. Len(new) : new[u].call = "done"
    BY <1>7, <1>8
  <2> QED
    BY <1>0, <1>1, <1>9, <2>1, <2>2, RelayFitsKept, UntouchedKept
<1> QED
  BY <1>13, <1>16, <1>17, <1>18, <1>19, <1>20, <1>21, <1>22, <1>23 DEF IInv

LEMMA ForgetStep ==
    ASSUME IInv, Forget PROVE IInv'
<1>0. /\ Types /\ Distinct /\ Unused /\ CallsFit /\ WaitersFit /\ RequestsFit /\ DoneFits
      /\ ResultsFit /\ GivenFits /\ ToldFits /\ ChainFits /\ RelayFits /\ Untouched
  BY DEF IInv
<1>1. agenda # <<>>
  BY DEF Forget, Doing
<1>2. PICK h \in Call : /\ h = agenda[1] /\ Head(agenda) = h /\ h.call = "empty"
                        /\ h.p \in Promise /\ Fits(h) /\ isdone[h.p] /\ 1 \in 1 .. Len(agenda)
  <2>1. Head(agenda).call = "empty"
    BY DEF Forget, Doing
  <2> QED
    BY <1>1, <2>1, HeadIs, CallIs DEF Fits
<1>3. /\ Unanswered /\ UNCHANGED <<called, results, numdone, given, told>>
      /\ agenda' = Tail(agenda) /\ callbacks' = [callbacks EXCEPT ![h.p] = <<>>]
  BY <1>2 DEF Forget, SendNothing, Unanswered
<1>4. /\ <<>> \in Seq(Call) /\ Len(<<>>) = 0 /\ agenda' = <<>> \o Tail(agenda)
  <2>1. Tail(agenda) \in Seq(Call)
    BY <1>0, <1>1 DEF Types
  <2> QED
    BY <1>3, <2>1
<1>5. /\ callbacks' \in [Promise -> Seq(Continuer)] /\ callbacks'[h.p] = <<>>
      /\ \A p \in Promise : p # h.p => callbacks'[p] = callbacks[p]
  <2>1. callbacks \in [Promise -> Seq(Continuer)] /\ <<>> \in Seq(Continuer)
    BY <1>0 DEF Types
  <2> QED
    BY <1>2, <1>3, <2>1
<1>6. PICK new : new = <<>> /\ Before(new) /\ Replaced(new) /\ Len(new) = 0
  <2>1. Before(<<>>)
    BY <1>1, <1>4 DEF Before
  <2>2. Replaced(<<>>)
    BY <1>3, <1>5, <2>1 DEF Replaced, Waiting, Unanswered
  <2> QED
    BY <1>4, <2>1, <2>2
<1>7. Calm /\ SentStays
  BY <1>0, <1>3, QuietIsCalm DEF Types, AjaxTypeOK
<1>8. Types'
  <2>1. agenda' \in Seq(Call)
    BY <1>0, <1>6, AgendaIs
  <2>2. AjaxTypeOK'
    BY <1>0, <1>3 DEF Types, AjaxTypeOK, Unanswered
  <2> QED
    BY <1>0, <1>3, <1>5, <2>1, <2>2 DEF Types
<1>9. Distinct' /\ Unused'
  <2>1. \A right : Used(right)' <=> Used(right)
    BY <1>3 DEF Used, Unanswered
  <2> QED
    BY <1>0, <1>6, <2>1, DistinctKept, UnusedKept
<1>10. CallsFit'
  <2>1. \A p \in Promise : isdone[p] => result'[p] = result[p]
    BY <1>3 DEF Unanswered
  <2> QED
    BY <1>0, <1>1, <1>2, <1>3, <1>6, <1>7, <2>1, CallsFitKept
<1>11. WaitersFit'
  <2> SUFFICES ASSUME NEW p \in Promise, callbacks'[p] # <<>>
               PROVE  /\ Len(callbacks'[p]) = 1 /\ Waits(p, callbacks[p][1])'
                      /\ isdone'[p] => \E u \in 1 .. Len(agenda') : agenda'[u] = Empty(p)
                      /\ \A r \in Request : p = Of(r) => xhr'[r] \notin {"unsent", "none"}
    BY DEF WaitersFit
  <2>1. p # h.p /\ callbacks'[p] = callbacks[p] /\ callbacks[p] # <<>>
    BY <1>5
  <2>2. /\ Len(callbacks'[p]) = 1
        /\ \A r \in Request : p = Of(r) => xhr'[r] \notin {"unsent", "none"}
    BY <1>0, <1>3, <2>1 DEF WaitersFit, Unanswered
  <2>3. Waits(p, callbacks[p][1])'
    <3>1. PICK cb : cb = callbacks[p][1] /\ cb = callbacks'[p][1]
      BY <2>1
    <3>2. Waits(p, cb)
      BY <1>0, <2>1, <3>1 DEF WaitersFit
    <3>3. Waits(p, cb)'
      BY <1>3, <3>2, WaitsKept DEF Unanswered
    <3> QED
      BY <3>1, <3>3
  <2>4. ASSUME isdone'[p] PROVE \E u \in 1 .. Len(agenda') : agenda'[u] = Empty(p)
    <3>1. PICK u \in 1 .. Len(agenda) : agenda[u] = Empty(p)
      BY <1>0, <1>3, <2>1, <2>4 DEF WaitersFit, Unanswered
    <3>2. Empty(p).p = p
      BY NewCalls
    <3>3. u \in 2 .. Len(agenda)
      <4>1. Len(agenda) \in Nat
        BY <1>0 DEF Types
      <4>2. u # 1
        BY <1>2, <2>1, <3>1, <3>2
      <4> QED
        BY <4>1, <4>2
    <3>4. u + Len(new) - 1 \in 1 .. Len(agenda') /\ agenda'[u + Len(new) - 1] = agenda[u]
      BY <1>0, <1>6, <3>3, AgendaIs
    <3> QED
      BY <3>1, <3>4
  <2> QED
    BY <2>2, <2>3, <2>4
<1>12. RequestsFit' /\ DoneFits' /\ ResultsFit' /\ GivenFits' /\ ToldFits'
  <2>1. RequestsFit'
    BY <1>0, <1>3, RequestsKept
  <2>2. DoneFits'
    BY <1>0, <1>3, <1>7, DoneFitsKept DEF Unanswered
  <2> QED
    BY <1>0, <1>3, <1>7, <2>1, <2>2, AnswersKept
<1>13. ChainFits'
  <2>1. \A m \in 1 .. NRequest + 1 : isdone'[Link(m)] => isdone[Link(m)]
    BY <1>3 DEF Unanswered
  <2> QED
    BY <1>0, <1>3, <1>6, <2>1, ChainFitsKept
<1>14. RelayFits' /\ Untouched'
  <2>1. xhr'[2] = xhr[2] /\ UNCHANGED <<plan, called>>
    BY <1>3 DEF Unanswered
  <2> QED
    BY <1>0, <1>1, <1>6, <2>1, RelayFitsKept, UntouchedKept
<1> QED
  BY <1>8, <1>9, <1>10, <1>11, <1>12, <1>13, <1>14 DEF IInv

--------------------
(* A callback that waits. *)

\* What a promise has waiting for it is one thing only.
LEMMA WaitsForOne ==
    ASSUME NEW p, NEW cb, NEW cb2, Waits(p, cb), Waits(p, cb2) PROVE cb = cb2
<1>1. CASE plan = "each"
  BY <1>1, PairsDiffer DEF Waits
<1>2. CASE plan = "join"
  BY <1>2, PairsDiffer DEF Waits
<1>3. CASE plan = "chain"
  <2>1. \A c : Waits(p, c) <=>
            \/ \E r \in Request : p = Of(r) /\ c = Follow(r)
            \/ p = Link(1) /\ c = Tell(TheWhole)
            \/ \E n \in Request : p = Link(n + 1) /\ c = Pass(Link(n))
    BY <1>3 DEF Waits
  <2>2. \A n \in Request : n + 1 # 1 /\ \A m \in Request : n + 1 = m + 1 => n = m
    BY DEF Request
  <2>3. \A n \in Request : Link(n + 1) # Link(1) /\ \A m \in Request : Link(n + 1) = Link(m + 1) => n = m
    BY <2>2, PairsDiffer
  <2> QED
    BY <2>1, <2>3, PairsDiffer
<1>4. CASE plan = "relay"
  BY <1>4, PairsDiffer DEF Waits
<1> QED
  BY <1>1, <1>2, <1>3, <1>4 DEF Waits

\* What holds of the call of then that will wait.
LEMMA WillWait ==
    ASSUME IInv, Then, ~isdone[Head(agenda).p]
    PROVE  /\ agenda # <<>> /\ Head(agenda) = agenda[1] /\ agenda[1] \in Call /\ 1 \in 1 .. Len(agenda)
           /\ agenda[1].call = "then" /\ agenda[1].p \in Promise /\ agenda[1].cb \in Continuer
           /\ ~Used(Right(agenda[1])) /\ ~Elsewhere(Right(agenda[1]))
           /\ Right(agenda[1]) = RightOf(agenda[1].cb)
           /\ Waits(agenda[1].p, agenda[1].cb) /\ callbacks[agenda[1].p] = <<>>
           /\ \A r \in Request : agenda[1].p = Of(r) => xhr[r] = "sent"
           /\ Unanswered /\ UNCHANGED <<called, results, numdone, given, told>>
           /\ callbacks' = [callbacks EXCEPT ![agenda[1].p] = <<agenda[1].cb>>]
           /\ agenda' = (IF agenda[1].cb = Relay THEN <<CallThen(Relayed, Tell(TheWhole))>>
                         ELSE <<>>) \o Tail(agenda)
<1>0. Types /\ Distinct /\ CallsFit /\ WaitersFit /\ RequestsFit
  BY DEF IInv
<1>1. agenda # <<>> /\ Head(agenda).call = "then"
  BY DEF Then, Doing
<1>2. PICK h \in Call : /\ h = agenda[1] /\ Head(agenda) = h /\ h.call = "then" /\ 1 \in 1 .. Len(agenda)
                        /\ h.p \in Promise /\ h.cb \in Continuer /\ Right(h) = RightOf(h.cb)
                        /\ Fits(h) /\ ~Used(Right(h)) /\ ~Elsewhere(Right(h)) /\ ~isdone[h.p]
  BY <1>1, HeadIs, CallIs, RightIs
<1>3. /\ Waits(h.p, h.cb)
      /\ \A r \in Request : h.p = Of(r) => xhr[r] \in {"sent", "none"}
  BY <1>2 DEF Fits
<1>4. \A r \in Request : h.p = Of(r) => xhr[r] = "sent"
  BY <1>0, <1>2, <1>3 DEF RequestsFit
<1>5. ASSUME callbacks[h.p] # <<>> PROVE FALSE
  <2>1. Waiting(h.p) /\ Waits(h.p, Waiter(h.p))
    BY <1>0, <1>2, <1>5 DEF WaitersFit, Waiting, Waiter
  <2>2. Waiter(h.p) = h.cb
    BY <1>3, <2>1, WaitsForOne
  <2> QED
    BY <1>2, <2>1, <2>2 DEF Elsewhere
<1>6. Append(callbacks[h.p], h.cb) = <<h.cb>>
  <2>1. \A v : Append(<<>>, v) = <<v>>
    OBVIOUS
  <2> QED
    BY <1>5, <2>1
<1>7. /\ Unanswered /\ UNCHANGED <<called, results, numdone, given, told>>
      /\ callbacks' = [callbacks EXCEPT ![h.p] = Append(@, h.cb)]
      /\ agenda' = (IF h.cb = Relay THEN <<CallThen(Relayed, Tell(TheWhole))>>
                    ELSE <<>>) \o Tail(agenda)
  BY <1>2 DEF Then, SendNothing, Unanswered, TheWhole
<1>8. callbacks' = [callbacks EXCEPT ![h.p] = <<h.cb>>]
  BY <1>6, <1>7
<1> QED
  BY <1>1, <1>2, <1>3, <1>4, <1>5, <1>7, <1>8

\* The parts that do not ask who waits.
LEMMA WaitingChangesNothing ==
    ASSUME IInv, Then, ~isdone[Head(agenda).p], NEW new, Before(new),
           \A u \in 1 .. Len(new) : Fits(new[u])' /\ new[u].call # "done"
    PROVE  /\ Types' /\ CallsFit' /\ WaitersFit' /\ RequestsFit' /\ DoneFits' /\ ResultsFit'
           /\ GivenFits' /\ ToldFits' /\ Untouched'
<1>0. /\ Types /\ CallsFit /\ WaitersFit /\ RequestsFit /\ DoneFits
      /\ ResultsFit /\ GivenFits /\ ToldFits /\ Untouched
  BY DEF IInv
<1>1. PICK h \in Call : h = agenda[1]
  BY WillWait
<1>2. /\ agenda # <<>> /\ h.call = "then" /\ h.p \in Promise /\ h.cb \in Continuer
      /\ Waits(h.p, h.cb) /\ \A r \in Request : h.p = Of(r) => xhr[r] = "sent"
      /\ Unanswered /\ UNCHANGED <<called, results, numdone, given, told>>
      /\ callbacks' = [callbacks EXCEPT ![h.p] = <<h.cb>>] /\ ~isdone[h.p]
  BY <1>1, WillWait
<1>3. Calm /\ SentStays
  BY <1>0, <1>2, QuietIsCalm DEF Types, AjaxTypeOK
<1>4. /\ callbacks' \in [Promise -> Seq(Continuer)] /\ callbacks'[h.p] = <<h.cb>>
      /\ \A p \in Promise : p # h.p => callbacks'[p] = callbacks[p]
  <2>1. callbacks \in [Promise -> Seq(Continuer)] /\ <<h.cb>> \in Seq(Continuer)
    BY <1>0, <1>2 DEF Types
  <2> QED
    BY <1>2, <2>1
<1>5. Types'
  <2>1. agenda' \in Seq(Call)
    BY <1>0, AgendaIs
  <2>2. AjaxTypeOK'
    BY <1>0, <1>2 DEF Types, AjaxTypeOK, Unanswered
  <2> QED
    BY <1>0, <1>2, <1>4, <2>1, <2>2 DEF Types
<1>6. CallsFit'
  <2>1. \A p \in Promise : isdone[p] => result'[p] = result[p]
    BY <1>2 DEF Unanswered
  <2> QED
    BY <1>0, <1>1, <1>2, <1>3, <2>1, CallsFitKept
<1>7. WaitersFit'
  <2> SUFFICES ASSUME NEW p \in Promise, callbacks'[p] # <<>>
               PROVE  /\ Len(callbacks'[p]) = 1 /\ Waits(p, callbacks[p][1])'
                      /\ isdone'[p] => \E u \in 1 .. Len(agenda') : agenda'[u] = Empty(p)
                      /\ \A r \in Request : p = Of(r) => xhr'[r] \notin {"unsent", "none"}
    BY DEF WaitersFit
  <2>1. CASE p = h.p
    <3>1. PICK cb : cb = h.cb /\ callbacks'[p] = <<cb>> /\ callbacks'[p][1] = cb
      BY <1>4, <2>1
    <3>2. Waits(p, cb)'
      BY <1>2, <2>1, <3>1, WaitsKept DEF Unanswered
    <3>3. \A g : g = <<cb>> => Len(g) = 1
      OBVIOUS
    <3>4. Len(callbacks'[p]) = 1 /\ ~isdone'[p]
      BY <1>2, <2>1, <3>1, <3>3 DEF Unanswered
    <3>5. \A r \in Request : p = Of(r) => xhr'[r] \notin {"unsent", "none"}
      BY <1>2, <2>1 DEF Unanswered
    <3>6. Waits(p, callbacks[p][1])'
      BY <3>1, <3>2
    <3> QED
      BY <3>4, <3>5, <3>6
  <2>2. CASE p # h.p
    <3>1. callbacks'[p] = callbacks[p] /\ callbacks[p] # <<>>
      BY <1>4, <2>2
    <3>2. /\ Len(callbacks'[p]) = 1
          /\ \A r \in Request : p = Of(r) => xhr'[r] \notin {"unsent", "none"}
      BY <1>0, <1>2, <3>1 DEF WaitersFit, Unanswered
    <3>3. Waits(p, callbacks[p][1])'
      <4>1. PICK cb : cb = callbacks[p][1] /\ cb = callbacks'[p][1]
        BY <3>1
      <4>2. Waits(p, cb)
        BY <1>0, <3>1, <4>1 DEF WaitersFit
      <4>3. Waits(p, cb)'
        BY <1>2, <4>2, WaitsKept DEF Unanswered
      <4> QED
        BY <4>1, <4>3
    <3>4. ASSUME isdone'[p] PROVE \E u \in 1 .. Len(agenda') : agenda'[u] = Empty(p)
      <4>1. PICK u \in 1 .. Len(agenda) : agenda[u] = Empty(p)
        BY <1>0, <1>2, <3>1, <3>4 DEF WaitersFit, Unanswered
      <4>2. Empty(p).call = "empty"
        BY NewCalls
      <4>3. u \in 2 .. Len(agenda)
        <5>1. Len(agenda) \in Nat
          BY <1>0 DEF Types
        <5>2. u # 1
          BY <1>1, <1>2, <4>1, <4>2
        <5> QED
          BY <5>1, <5>2
      <4>4. u + Len(new) - 1 \in 1 .. Len(agenda') /\ agenda'[u + Len(new) - 1] = agenda[u]
        BY <1>0, <4>3, AgendaIs
      <4> QED
        BY <4>1, <4>4
    <3> QED
      BY <3>2, <3>3, <3>4
  <2> QED
    BY <2>1, <2>2
<1>8. RequestsFit' /\ DoneFits' /\ ResultsFit' /\ GivenFits' /\ ToldFits'
  <2>1. RequestsFit'
    BY <1>0, <1>2, RequestsKept
  <2>2. DoneFits'
    BY <1>0, <1>2, <1>3, DoneFitsKept DEF Unanswered
  <2> QED
    BY <1>0, <1>2, <1>3, <2>1, <2>2, AnswersKept
<1>9. Untouched'
  BY <1>0, <1>2, UntouchedKept DEF Unanswered
<1> QED
  BY <1>5, <1>6, <1>7, <1>8, <1>9

\* A callback other than the relay waits, with the right of the call of then.
LEMMA ThenWaits ==
    ASSUME IInv, Then, ~isdone[Head(agenda).p], Head(agenda).cb # Relay PROVE IInv'
<1>0. /\ Types /\ Distinct /\ Unused /\ ChainFits /\ RelayFits
  BY DEF IInv
<1>1. PICK h \in Call : h = agenda[1] /\ h = Head(agenda)
  BY WillWait
<1>2. /\ agenda # <<>> /\ h.call = "then" /\ h.p \in Promise /\ h.cb \in Continuer /\ 1 \in 1 .. Len(agenda)
      /\ ~Used(Right(h)) /\ ~Elsewhere(Right(h)) /\ Right(h) = RightOf(h.cb) /\ h.cb # Relay
      /\ Unanswered /\ UNCHANGED <<called, results, numdone, given, told>>
      /\ callbacks' = [callbacks EXCEPT ![h.p] = <<h.cb>>] /\ ~isdone[h.p]
      /\ agenda' = <<>> \o Tail(agenda)
  BY <1>1, WillWait
<1>3. PICK new : new = <<>> /\ Before(new) /\ Len(new) = 0
  <2>1. <<>> \in Seq(Call) /\ Len(<<>>) = 0
    OBVIOUS
  <2> QED
    BY <1>2, <2>1 DEF Before
<1>4. \A p \in Promise : Waiting(p)' =>
          (p = h.p /\ Waiter(p)' = h.cb) \/ (p # h.p /\ Waiting(p) /\ Waiter(p)' = Waiter(p))
  <2>1. callbacks'[h.p] = <<h.cb>> /\ \A p \in Promise : p # h.p => callbacks'[p] = callbacks[p]
    BY <1>0, <1>2 DEF Types
  <2>2. \A v : <<v>>[1] = v
    OBVIOUS
  <2> QED
    BY <1>2, <2>1, <2>2 DEF Waiting, Waiter, Unanswered
<1>5. ASSUME NEW u \in 1 .. Len(agenda')
      PROVE  /\ u + 1 \in 2 .. Len(agenda) /\ u + 1 \in 1 .. Len(agenda)
             /\ agenda'[u] = agenda[u + 1] /\ agenda[u + 1] \in Call
  <2>1. Len(agenda) \in Nat /\ u - 0 + 1 \in 2 .. Len(agenda) /\ agenda'[u] = agenda[u - 0 + 1]
    BY <1>0, <1>3, AgendaIs
  <2>2. u - 0 + 1 = u + 1
    OBVIOUS
  <2> QED
    BY <1>0, <2>1, <2>2 DEF Types
<1>6. Distinct'
  <2>1. ASSUME NEW u \in 1 .. Len(agenda'), NEW j \in 1 .. Len(agenda'), Right(agenda'[u]) = Right(agenda'[j])
        PROVE  u = j
    <3>1. u + 1 = j + 1
      BY <1>0, <1>5, <2>1 DEF Distinct
    <3> QED
      BY <3>1
  <2>2. ASSUME NEW u \in 1 .. Len(agenda'), NEW p \in Promise, Waiting(p)'
        PROVE  Right(agenda'[u]) # RightOf(Waiter(p)')
    BY <1>0, <1>2, <1>4, <1>5, <2>2 DEF Distinct, Elsewhere
  <2>3. ASSUME NEW p \in Promise, NEW q \in Promise, Waiting(p)', Waiting(q)',
               RightOf(Waiter(p)') = RightOf(Waiter(q)')
        PROVE  p = q
    BY <1>0, <1>2, <1>4, <2>3 DEF Distinct, Elsewhere
  <2> QED
    BY <2>1, <2>2, <2>3 DEF Distinct
<1>7. Unused'
  <2>1. \A right : Used(right)' <=> Used(right)
    BY <1>2 DEF Used, Unanswered
  <2>2. ASSUME NEW u \in 1 .. Len(agenda') PROVE ~Used(Right(agenda[u]))'
    <3>1. PICK right : right = Right(agenda'[u])
      OBVIOUS
    <3>2. ~Used(right)
      BY <1>0, <1>5, <3>1 DEF Unused
    <3> QED
      BY <2>1, <3>1, <3>2
  <2>3. ASSUME NEW p \in Promise, Waiting(p)' PROVE ~Used(RightOf(Waiter(p)))'
    <3>1. PICK right : right = RightOf(Waiter(p)')
      OBVIOUS
    <3>2. ~Used(right)
      BY <1>0, <1>2, <1>4, <2>3, <3>1 DEF Unused
    <3> QED
      BY <2>1, <3>1, <3>2
  <2> QED
    BY <2>2, <2>3 DEF Unused
<1>8. ASSUME NEW n, GoesOn(n) PROVE GoesOn(n)'
  <2>1. \A m \in 1 .. NRequest + 1 : ~isdone'[Link(m)]
    BY <1>2, <1>8 DEF GoesOn, Unanswered
  <2>2. \A u \in 1 .. Len(agenda') : \A m \in 1 .. NRequest + 1 :
            Right(agenda'[u]) = <<"done", Link(m)>> => agenda'[u].call = "then" /\ m < n
    BY <1>5, <1>8 DEF GoesOn
  <2>3. ASSUME NEW p \in Promise, NEW m \in 1 .. NRequest + 1, Waiting(p)', Waiter(p)' = Pass(Link(m))
        PROVE  m < n
    <3>1. CASE p = h.p
      <4>1. h.cb = Pass(Link(m))
        BY <1>4, <2>3, <3>1
      <4>2. h.cb.do = "pass" /\ h.cb.of = Link(m)
        BY <4>1, Promises, Callbacks
      <4>3. Right(h) = <<"done", Link(m)>>
        BY <1>2, <4>2, RightOfIs
      <4> QED
        BY <1>1, <1>2, <1>8, <4>3 DEF GoesOn
    <3>2. CASE p # h.p
      BY <1>4, <1>8, <2>3, <3>2 DEF GoesOn
    <3> QED
      BY <3>1, <3>2
  <2> QED
    BY <2>1, <2>2, <2>3 DEF GoesOn
<1>9. ChainFits'
  <2>1. ASSUME NEW u \in 1 .. Len(agenda')
        PROVE  /\ agenda'[u].call = "chain" => GoesOn(agenda[u].n)'
               /\ agenda'[u].call \in {"then", "apply"} /\ agenda'[u].cb.do = "follow" =>
                      GoesOn(agenda[u].cb.of)' /\ DOMAIN given' = 1 .. agenda'[u].cb.of
    <3>1. PICK y : y = agenda'[u] /\ y = agenda[u + 1]
      BY <1>5
    <3>2. /\ y.call = "chain" => GoesOn(y.n)
          /\ y.call \in {"then", "apply"} /\ y.cb.do = "follow" =>
                 GoesOn(y.cb.of) /\ DOMAIN given = 1 .. y.cb.of
      BY <1>0, <1>5, <3>1 DEF ChainFits
    <3>3. /\ y.call = "chain" => GoesOn(y.n)'
          /\ y.call \in {"then", "apply"} /\ y.cb.do = "follow" => GoesOn(y.cb.of)'
      BY <1>8, <3>2
    <3> QED
      BY <1>2, <3>1, <3>2, <3>3
  <2>2. ASSUME NEW p \in Promise, Waiting(p)', Waiter(p)'.do = "follow"
        PROVE  GoesOn(Waiter(p).of)' /\ DOMAIN given' = 1 .. Waiter(p).of'
    <3>1. PICK cb : cb = Waiter(p)'
      OBVIOUS
    <3>2. GoesOn(cb.of) /\ DOMAIN given = 1 .. cb.of
      <4>1. CASE p = h.p
        BY <1>0, <1>1, <1>2, <1>4, <2>2, <3>1, <4>1 DEF ChainFits
      <4>2. CASE p # h.p
        BY <1>0, <1>4, <2>2, <3>1, <4>2 DEF ChainFits
      <4> QED
        BY <4>1, <4>2
    <3>3. GoesOn(cb.of)'
      BY <1>8, <3>2
    <3> QED
      BY <1>2, <3>1, <3>2, <3>3
  <2> QED
    BY <2>1, <2>2 DEF ChainFits
<1>10. RelayFits'
  <2>1. xhr'[2] = xhr[2]
    BY <1>2 DEF Unanswered
  <2>2. ASSUME NEW u \in 1 .. Len(agenda')
        PROVE  /\ agenda'[u].call \in {"then", "apply"} /\ agenda'[u].cb.do = "relay" => xhr'[2] = "unsent"
               /\ ~(agenda'[u].call = "then" /\ agenda'[u].cb = Relay)
    <3>1. Len(agenda) # 1
      BY <1>5
    <3> QED
      BY <1>0, <1>5, <2>1, <3>1 DEF RelayFits
  <2>3. \A p \in Promise : Waiting(p)' /\ Waiter(p)' = Relay => xhr'[2] = "unsent"
    BY <1>0, <1>2, <1>4, <2>1 DEF RelayFits
  <2> QED
    BY <2>2, <2>3 DEF RelayFits
<1>11. \A u \in 1 .. Len(new) : Fits(new[u])' /\ new[u].call # "done"
  BY <1>3
<1> QED
  BY <1>1, <1>2, <1>3, <1>6, <1>7, <1>9, <1>10, <1>11, WaitingChangesNothing DEF IInv

\* The relay waits, and the whole for its promise.
LEMMA RelayWaits ==
    ASSUME IInv, Then, ~isdone[Head(agenda).p], Head(agenda).cb = Relay PROVE IInv'
<1>0. /\ Types /\ Distinct /\ Unused /\ ChainFits /\ RelayFits
  BY DEF IInv
<1>1. PICK h \in Call : h = agenda[1] /\ h = Head(agenda)
  BY WillWait
<1>2. PICK y : y = CallThen(Relayed, Tell(TheWhole))
  OBVIOUS
<1>3. /\ agenda # <<>> /\ h.call = "then" /\ h.p \in Promise /\ h.cb = Relay /\ 1 \in 1 .. Len(agenda)
      /\ ~Used(Right(h)) /\ Right(h) = RightOf(Relay) /\ Waits(h.p, h.cb)
      /\ Unanswered /\ UNCHANGED <<called, results, numdone, given, told>>
      /\ callbacks' = [callbacks EXCEPT ![h.p] = <<h.cb>>] /\ ~isdone[h.p]
      /\ agenda' = <<y>> \o Tail(agenda)
  BY <1>1, <1>2, WillWait
<1>4. /\ Len(agenda) = 1 /\ told[TheWhole] = <<>> /\ xhr[2] = "unsent"
      /\ \A p \in Promise : callbacks[p] = <<>>
  BY <1>0, <1>1, <1>3, Callbacks DEF RelayFits
<1>5. plan = "relay" /\ Right(h) = <<"done", Relayed>> /\ Relay.do = "relay"
  BY <1>3, Callbacks, RightOfIs, WaitsIs
<1>6. /\ y \in Call /\ y.call = "then" /\ y.p = Relayed /\ y.cb = Tell(TheWhole) /\ y.cb.do = "tell"
      /\ Right(y) = <<"tell", TheWhole>>
  <2>1. /\ Tell(TheWhole) \in Continuer /\ Tell(TheWhole).do = "tell" /\ Tell(TheWhole).of = TheWhole
        /\ Relayed \in Promise
    BY Promises, Callbacks
  <2>2. RightOf(Tell(TheWhole)) = <<"tell", TheWhole>>
    BY <2>1, RightOfIs
  <2> QED
    BY <1>2, <2>1, <2>2, NewCalls
<1>7. PICK new \in Seq(Call) : new = <<y>> /\ Before(new) /\ \A u \in 1 .. Len(new) : new[u] = y
  <2>1. <<y>> \in Seq(Call) /\ \A u \in 1 .. Len(<<y>>) : <<y>>[u] = y
    BY <1>6
  <2> QED
    BY <1>3, <2>1 DEF Before
<1>8. Len(agenda') = 1 /\ agenda'[1] = y
  <2>1. \A g : g = <<y>> => Len(g) = 1 /\ g[1] = y
    OBVIOUS
  <2>2. Len(new) = 1 /\ new[1] = y
    BY <1>7, <2>1
  <2> QED
    BY <1>0, <1>3, <1>4, <1>7, <2>2, AgendaIs
<1>9. \A u \in 1 .. Len(agenda') : u = 1 /\ agenda'[u] = y
  BY <1>8
<1>10. \A p \in Promise : Waiting(p)' => p = h.p /\ Waiter(p)' = Relay
  <2>1. callbacks'[h.p] = <<h.cb>> /\ \A p \in Promise : p # h.p => callbacks'[p] = <<>>
    BY <1>0, <1>3, <1>4 DEF Types
  <2>2. \A v : <<v>>[1] = v
    OBVIOUS
  <2> QED
    BY <1>3, <2>1, <2>2 DEF Waiting, Waiter
<1>11. Distinct'
  <2>1. RightOf(Relay) # Right(y)
    BY <1>3, <1>5, <1>6
  <2> QED
    BY <1>9, <1>10, <2>1 DEF Distinct
<1>12. Unused'
  <2>1. \A right : Used(right)' <=> Used(right)
    BY <1>3 DEF Used, Unanswered
  <2>2. ~Used(Right(y)) /\ ~Used(RightOf(Relay))
    BY <1>3, <1>4, <1>6 DEF Used
  <2>3. ASSUME NEW u \in 1 .. Len(agenda') PROVE ~Used(Right(agenda[u]))'
    <3>1. PICK right : right = Right(agenda'[u]) /\ right = Right(y)
      BY <1>9
    <3> QED
      BY <2>1, <2>2, <3>1
  <2>4. ASSUME NEW p \in Promise, Waiting(p)' PROVE ~Used(RightOf(Waiter(p)))'
    <3>1. PICK right : right = RightOf(Waiter(p)') /\ right = RightOf(Relay)
      BY <1>10, <2>4
    <3> QED
      BY <2>1, <2>2, <3>1
  <2> QED
    BY <2>3, <2>4 DEF Unused
<1>13. ChainFits' /\ RelayFits'
  <2>1. Relay.do # "follow" /\ xhr'[2] = "unsent" /\ y.cb # Relay
    BY <1>3, <1>4, <1>5, <1>6 DEF Unanswered
  <2>2. ASSUME NEW u \in 1 .. Len(agenda')
        PROVE  /\ agenda'[u].call # "chain"
               /\ agenda'[u].cb.do # "follow" /\ agenda'[u].cb.do # "relay" /\ agenda'[u].cb # Relay
    <3>1. PICK z : z = agenda'[u] /\ z = y
      BY <1>9
    <3> QED
      BY <1>6, <2>1, <3>1
  <2>3. ASSUME NEW p \in Promise, Waiting(p)'
        PROVE  Waiter(p)'.do # "follow"
    <3>1. PICK cb : cb = Waiter(p)' /\ cb = Relay
      BY <1>10, <2>3
    <3> QED
      BY <2>1, <3>1
  <2>4. ChainFits'
    BY <2>2, <2>3 DEF ChainFits
  <2>5. RelayFits'
    BY <2>1, <2>2 DEF RelayFits
  <2> QED
    BY <2>4, <2>5
<1>14. \A u \in 1 .. Len(new) : Fits(new[u])' /\ new[u].call # "done"
  <2>1. Waits(y.p, y.cb)'
    BY <1>3, <1>5, <1>6 DEF Waits, Unanswered
  <2>2. Fits(y)'
    BY <1>6, <2>1, PairsDiffer DEF Fits
  <2> QED
    BY <1>6, <1>7, <2>2
<1> QED
  BY <1>1, <1>3, <1>7, <1>11, <1>12, <1>13, <1>14, WaitingChangesNothing DEF IInv

--------------------
(* A promise is done. *)

\* What done finds: an answer it has not given before, or what onTimeout adds to it when
\* nobody waits any more.
LEMMA DoneIs ==
    ASSUME IInv, Done, NEW h, h = agenda[1]
    PROVE  /\ agenda # <<>> /\ h \in Call /\ h.call = "done" /\ h.p \in Promise /\ h.a \in Answer
           /\ 1 \in 1 .. Len(agenda) /\ h = CallDone(h.p, h.a)
           /\ Fits(h) /\ ~Used(Right(h)) /\ ~Elsewhere(Right(h))
           /\ UNCHANGED <<plan, hasXhr, called, xhr, timer, callbacks, results, numdone, given, told>>
           /\ result' \in [Promise -> Answer] /\ isdone' \in [Promise -> BOOLEAN]
           /\ result'[h.p] = h.a /\ isdone'[h.p]
           /\ \A p \in Promise : p # h.p => result'[p] = result[p] /\ isdone'[p] = isdone[p]
           /\ isdone[h.p] => /\ \E r \in Request : h.p = Of(r)
                             /\ h.a = "ETIMEOUT" /\ Len(agenda) = 1 /\ result[h.p] = "failed"
                             /\ callbacks[h.p] = <<>>
           /\ ~isdone[h.p] /\ h.p[1] = "ajax" => h.a # "ETIMEOUT"
<1>0. Types /\ WaitersFit /\ Unused
  BY DEF IInv
<1>1. /\ agenda # <<>> /\ h \in Call /\ h.call = "done" /\ h.p \in Promise /\ h.a \in Answer
      /\ 1 \in 1 .. Len(agenda) /\ h = CallDone(h.p, h.a) /\ Head(agenda) = h
      /\ Fits(h) /\ AnswerFits(1, h) /\ ~Used(Right(h)) /\ ~Elsewhere(Right(h))
  <2>1. agenda # <<>> /\ Head(agenda).call = "done"
    BY DEF Done, Doing
  <2> QED
    BY <2>1, HeadIs, CallIs
<1>2. /\ UNCHANGED <<plan, hasXhr, called, xhr, timer, callbacks, results, numdone, given, told>>
      /\ result' = [result EXCEPT ![h.p] = h.a] /\ isdone' = [isdone EXCEPT ![h.p] = TRUE]
  BY <1>1 DEF Done
<1>3. /\ result' \in [Promise -> Answer] /\ isdone' \in [Promise -> BOOLEAN]
      /\ result'[h.p] = h.a /\ isdone'[h.p]
      /\ \A p \in Promise : p # h.p => result'[p] = result[p] /\ isdone'[p] = isdone[p]
  BY <1>0, <1>1, <1>2 DEF Types, AjaxTypeOK
<1>4. ASSUME isdone[h.p]
      PROVE  /\ \E r \in Request : h.p = Of(r)
             /\ h.a = "ETIMEOUT" /\ Len(agenda) = 1 /\ result[h.p] = "failed"
             /\ callbacks[h.p] = <<>>
  <2>1. h.p[1] = "ajax"
    BY <1>1, <1>4, RightIs DEF Used
  <2>2. \E r \in Request : h.p = Of(r)
    BY <1>1, <2>1, PromiseIs, Promises
  <2>3. h.a = "ETIMEOUT" /\ Len(agenda) = 1 /\ result[h.p] = "failed"
    BY <1>1, <1>4, <2>1 DEF AnswerFits
  <2>4. \A u \in 1 .. Len(agenda) : agenda[u] = h
    BY <2>3
  <2>5. Empty(h.p).call = "empty"
    BY <1>1, NewCalls
  <2> QED
    BY <1>0, <1>1, <1>4, <2>2, <2>3, <2>4, <2>5 DEF WaitersFit
<1>5. ASSUME ~isdone[h.p], h.p[1] = "ajax" PROVE h.a # "ETIMEOUT"
  BY <1>1, <1>5 DEF AnswerFits
<1> QED
  BY <1>1, <1>2, <1>3, <1>4, <1>5

LEMMA Appended ==
    ASSUME NEW g \in Seq(Call), NEW e \in Call
    PROVE  /\ g \o <<e>> \in Seq(Call) /\ Len(g \o <<e>>) = Len(g) + 1
           /\ \A u \in 1 .. Len(g) : (g \o <<e>>)[u] = g[u]
           /\ (g \o <<e>>)[Len(g) + 1] = e
<1>1. <<e>> \in Seq(Call) /\ Len(<<e>>) = 1 /\ <<e>>[1] = e
  OBVIOUS
<1>2. PICK t \in Seq(Call) : t = <<e>> /\ Len(t) = 1 /\ t[1] = e
  BY <1>1
<1>3. /\ g \o t \in Seq(Call) /\ Len(g \o t) = Len(g) + 1
      /\ \A u \in 1 .. Len(g) : (g \o t)[u] = g[u]
      /\ (g \o t)[Len(g) + 1] = t[1]
  BY <1>2
<1> QED
  BY <1>2, <1>3

\* What done puts on the agenda: the callback that waited, and that it is forgotten.
LEMMA DoneCalls ==
    ASSUME IInv, Done, NEW h, h = agenda[1]
    PROVE  \E new :
               /\ Before(new) /\ Len(new) \in 1 .. 2 /\ new[Len(new)] = Empty(h.p)
               /\ Len(new) = 2 =>
                      /\ Waiting(h.p) /\ Waiter(h.p) \in Continuer /\ Waits(h.p, Waiter(h.p))
                      /\ new[1] = CallBack(Waiter(h.p), h.a)
<1>0. Types /\ WaitersFit
  BY DEF IInv
<1>1. /\ agenda # <<>> /\ h \in Call /\ h.p \in Promise /\ h.a \in Answer
      /\ isdone[h.p] => callbacks[h.p] = <<>>
      /\ Head(agenda) = h
  BY DoneIs, HeadIs
<1>2. callbacks[h.p] \in Seq(Continuer) /\ Len(callbacks[h.p]) \in Nat
  BY <1>0, <1>1 DEF Types
<1>3. Len(callbacks[h.p]) \in 0 .. 1
  <2>1. callbacks[h.p] # <<>> => Len(callbacks[h.p]) = 1
    BY <1>0, <1>1 DEF WaitersFit
  <2>2. callbacks[h.p] = <<>> => Len(callbacks[h.p]) = 0
    OBVIOUS
  <2> QED
    BY <2>1, <2>2
<1>4. PICK g : g = [u \in 1 .. Len(callbacks[h.p]) |-> CallBack(callbacks[h.p][u], h.a)]
  OBVIOUS
<1>5. PICK e : e = Empty(h.p) /\ e \in Call
  BY <1>1, NewCalls
<1>6. agenda' = g \o <<e>> \o Tail(agenda)
  BY <1>1, <1>4, <1>5 DEF Done
<1>7. /\ g \in Seq(Call) /\ Len(g) = Len(callbacks[h.p])
      /\ Len(g) = 1 => g[1] = CallBack(callbacks[h.p][1], h.a)
  <2>1. \A u \in 1 .. Len(callbacks[h.p]) : CallBack(callbacks[h.p][u], h.a) \in Call
    BY <1>1, <1>2, NewCalls
  <2> QED
    BY <1>2, <1>4, <2>1
<1>8. PICK new \in Seq(Call) : new = g \o <<e>>
  BY <1>5, <1>7, Appended
<1>9. /\ Len(new) = Len(g) + 1 /\ new[Len(g) + 1] = e
      /\ \A u \in 1 .. Len(g) : new[u] = g[u]
  <2>1. /\ Len(g \o <<e>>) = Len(g) + 1
        /\ \A u \in 1 .. Len(g) : (g \o <<e>>)[u] = g[u]
        /\ (g \o <<e>>)[Len(g) + 1] = e
    <3>1. g \in Seq(Call) /\ e \in Call
      BY <1>5, <1>7
    <3> QED
      BY <3>1, Appended, Zenon
  <2> QED
    BY <1>8, <2>1
<1>10. Before(new)
  BY <1>1, <1>6, <1>8 DEF Before
<1>11. Len(g) \in 0 .. 1
  BY <1>3, <1>7
<1>12. Len(new) \in 1 .. 2 /\ new[Len(new)] = Empty(h.p)
  <2>1. \A l, k : l \in 0 .. 1 /\ k = l + 1 => k \in 1 .. 2
    OBVIOUS
  <2>2. Len(new) \in 1 .. 2
    BY <1>9, <1>11, <2>1
  <2> QED
    BY <1>5, <1>9, <2>2, Zenon
<1>13. ASSUME Len(new) = 2
       PROVE  /\ Waiting(h.p) /\ Waiter(h.p) \in Continuer /\ Waits(h.p, Waiter(h.p))
              /\ new[1] = CallBack(Waiter(h.p), h.a)
  <2>0. \A l, k : l \in 0 .. 1 /\ k = l + 1 /\ k = 2 => l = 1
    OBVIOUS
  <2>1. Len(g) = 1 /\ Len(callbacks[h.p]) = 1
    BY <1>7, <1>9, <1>11, <1>13, <2>0
  <2>2. callbacks[h.p] # <<>>
    <3>1. \A t : t = <<>> => Len(t) # 1
      OBVIOUS
    <3> QED
      BY <2>1, <3>1
  <2>3. Waiting(h.p) /\ Waits(h.p, Waiter(h.p))
    BY <1>0, <1>1, <2>2 DEF WaitersFit, Waiting, Waiter
  <2>4. new[1] = CallBack(Waiter(h.p), h.a)
    BY <1>7, <1>9, <2>1 DEF Waiter
  <2> QED
    BY <1>0, <1>1, <2>2, <2>3, <2>4, WaiterIs
<1> QED
  BY <1>10, <1>12, <1>13

LEMMA DoneIsCalm ==
    ASSUME IInv, Done PROVE Calm /\ SentStays
<1>0. Types
  BY DEF IInv
<1>1. PICK h : h = agenda[1]
  OBVIOUS
<1>2. /\ h.p \in Promise /\ result'[h.p] = h.a /\ isdone'[h.p]
      /\ UNCHANGED <<plan, hasXhr, xhr, results>>
      /\ \A p \in Promise : p # h.p => result'[p] = result[p] /\ isdone'[p] = isdone[p]
      /\ isdone[h.p] => h.a = "ETIMEOUT" /\ result[h.p] = "failed"
  BY <1>1, DoneIs
<1>3. ASSUME NEW r \in Request, isdone[Of(r)] PROVE FirstAnswer(r)' = FirstAnswer(r)
  <2>1. CASE Of(r) = h.p
    BY <1>2, <1>3, <2>1 DEF FirstAnswer
  <2>2. CASE Of(r) # h.p
    BY <1>2, <2>2, Promises DEF FirstAnswer
  <2> QED
    BY <2>1, <2>2
<1>4. \A p \in Promise : isdone[p] => isdone'[p]
  BY <1>2
<1> QED
  BY <1>0, <1>2, <1>3, <1>4 DEF Calm, SentStays, Types, AjaxTypeOK

\* The right done uses is that of the call of done.
LEMMA DoneUses ==
    ASSUME IInv, Done, NEW h, h = agenda[1], NEW right, right = <<right[1], right[2]>>,
           right[1] = "done" => right[2] \in Promise, Used(right)', ~Used(right)
    PROVE  right = Right(h)
<1>1. /\ h \in Call /\ h.call = "done" /\ h.p \in Promise
      /\ UNCHANGED <<told, results>>
      /\ \A p \in Promise : p # h.p => isdone'[p] = isdone[p]
  BY DoneIs
<1>2. right[1] = "done" /\ right[2][1] # "ajax" /\ isdone'[right[2]] /\ ~isdone[right[2]]
  BY <1>1 DEF Used
<1>3. right[2] = h.p
  BY <1>1, <1>2
<1>4. Right(h) = <<"done", h.p>>
  BY <1>1, <1>2, <1>3, RightIs
<1> QED
  BY <1>2, <1>3, <1>4

\* The promises there is a right to have done.
LEMMA DoneOf ==
    ASSUME Types
    PROVE  /\ \A cb \in Continuer : RightOf(cb)[1] = "done" => RightOf(cb)[2] \in Promise
           /\ \A right : Elsewhere(right) /\ right[1] = "done" => right[2] \in Promise
<1>1. ASSUME NEW cb \in Continuer, RightOf(cb)[1] = "done" PROVE RightOf(cb)[2] \in Promise
  <2>1. RightOf(cb) = <<"done", cb.of>> /\ cb.of \in Promise
    BY <1>1, CallbackIs, RightOfIs, Promises, Callbacks
  <2> QED
    BY <2>1
<1>2. ASSUME NEW h \in Call, Right(h)[1] = "done" PROVE Right(h)[2] \in Promise
  BY <1>1, <1>2, CallIs, RightIs
<1>3. \A u \in 2 .. Len(agenda) : agenda[u] \in Call
  BY DEF Types
<1>4. \A p \in Promise : Waiting(p) => Waiter(p) \in Continuer
  BY WaiterIs DEF Waiting
<1> QED
  BY <1>1, <1>2, <1>3, <1>4 DEF Elsewhere

\* What the callback is told of the answer is true when it is called.
LEMMA DoneTells ==
    ASSUME IInv, Done, NEW h, h = agenda[1], Waiting(h.p), NEW w, w = Waiter(h.p)
    PROVE  Told(w, h.a)'
<1>0. Types /\ WaitersFit /\ RequestsFit
  BY DEF IInv
<1>1. /\ h \in Call /\ h.call = "done" /\ h.p \in Promise /\ Fits(h)
      /\ result'[h.p] = h.a /\ isdone'[h.p] /\ UNCHANGED <<plan, hasXhr>>
      /\ h.p[1] = "ajax" => h.a # "ETIMEOUT"
  BY DoneIs DEF Waiting
<1>2. Waits(h.p, w) /\ w \in Continuer
  BY <1>0, <1>1, WaitsIs DEF WaitersFit, Waiting, Waiter
<1>3. Calm
  BY DoneIsCalm
<1>4. (\E n \in 1 .. NRequest + 1 : h.p = Link(n)) => Ended(h.a)'
  <2>1. (\E n \in 1 .. NRequest + 1 : h.p = Link(n)) => Ended(h.a)
    BY <1>1, PairsDiffer DEF Fits
  <2> QED
    BY <1>3, <2>1, EndedKept
<1>5. ASSUME w.do \in {"notify", "follow"}
      PROVE  /\ isdone'[Of(w.of)] /\ h.a = FirstAnswer(w.of)'
             /\ w.do = "notify" => plan' = "join"
             /\ w.do = "follow" => plan' = "chain"
  <2>1. /\ w.of \in Request /\ h.p = Of(w.of)
        /\ w.do = "notify" => plan = "join"
        /\ w.do = "follow" => plan = "chain"
    BY <1>2, <1>5, WaitsIs
  <2>2. h.a # "ETIMEOUT"
    BY <1>1, <2>1, Promises
  <2> QED
    BY <1>1, <2>1, <2>2 DEF FirstAnswer
<1>6. ASSUME w.do = "pass"
      PROVE  \/ w.of = Relayed /\ plan' = "relay"
             \/ (\E n \in Request : w.of = Link(n)) /\ Ended(h.a)'
  <2>1. CASE plan = "chain" /\ \E n \in Request : h.p = Link(n + 1) /\ w = Pass(Link(n))
    <3>1. PICK n \in Request : h.p = Link(n + 1) /\ w = Pass(Link(n))
      BY <2>1
    <3>2. n + 1 \in 1 .. NRequest + 1 /\ Link(n) \in Promise
      BY Promises
    <3>3. w.of = Link(n)
      BY <3>1, <3>2, Callbacks
    <3> QED
      BY <1>4, <3>1, <3>2, <3>3
  <2>2. CASE plan = "relay" /\ w = Pass(Relayed)
    BY <1>1, <2>2, Promises, Callbacks
  <2> QED
    BY <1>2, <1>6, <2>1, <2>2, WaitsIs
<1>7. ASSUME w.do = "relay"
      PROVE  plan' = "relay" /\ w = IF hasXhr' THEN Relay ELSE [Relay EXCEPT !.of = Of(2)]
  <2>1. plan = "relay" /\ h.p = Of(1) /\ w = Relay
    BY <1>2, <1>7, WaitsIs
  <2>2. \E r \in Request : h.p = Of(r) /\ xhr[r] = "over"
    BY <1>1, <2>1, PairsDiffer DEF Fits
  <2>3. hasXhr
    BY <1>0, <2>2 DEF RequestsFit
  <2> QED
    BY <1>1, <2>1, <2>3
<1>8. w.do = "tell" =>
           \/ plan = "each" /\ \E r \in Request : h.p = Of(r) /\ w = Tell(<<"each", r>>)
           \/ plan = "join" /\ h.p = Joined /\ w = Tell(TheWhole)
           \/ plan = "chain" /\ h.p = Link(1) /\ w = Tell(TheWhole)
           \/ plan = "relay" /\ h.p = Relayed /\ w = Tell(TheWhole)
           \/ plan = "relay" /\ ~hasXhr /\ h.p = Of(2) /\ w = Tell(TheWhole)
  BY <1>2, WaitsIs
<1>9. ASSUME w = Tell(TheWhole) PROVE AllNotified' \/ Ended(h.a)' \/ plan' = "relay"
  <2>0. w.do = "tell" /\ \A r : w # Tell(<<"each", r>>)
    <3>1. w.do = "tell"
      BY <1>9, Promises, Callbacks
    <3>2. \A r : Tell(<<"each", r>>) # Tell(TheWhole)
      BY TellsDiffer
    <3> QED
      BY <1>9, <3>1, <3>2
  <2>1. CASE plan = "join" /\ h.p = Joined
    <3>1. AllNotified
      BY <1>1, <2>1, PairsDiffer DEF Fits
    <3> QED
      BY <1>3, <3>1, AllNotifiedKept
  <2>2. CASE plan = "chain" /\ h.p = Link(1)
    BY <1>4, <2>2, Promises
  <2>3. CASE plan = "relay"
    BY <1>1, <2>3
  <2> QED
    <3>1. \/ plan = "join" /\ h.p = Joined
          \/ plan = "chain" /\ h.p = Link(1)
          \/ plan = "relay"
      BY <1>8, <2>0
    <3> QED
      BY <2>1, <2>2, <2>3, <3>1
<1>10. ASSUME w.do = "tell", w # Tell(TheWhole) PROVE plan' = "each" /\ isdone'[Of(w.of[2])]
  <2>1. PICK r \in Request : plan = "each" /\ h.p = Of(r) /\ w = Tell(<<"each", r>>)
    BY <1>10, <1>8
  <2>2. w.of[2] = r
    BY <2>1, TellsDiffer
  <2> QED
    BY <1>1, <2>1, <2>2
<1> QED
  BY <1>5, <1>6, <1>7, <1>9, <1>10 DEF Told

LEMMA DoneStep ==
    ASSUME IInv, Done PROVE IInv'
<1>0. /\ Types /\ Distinct /\ Unused /\ CallsFit /\ WaitersFit /\ RequestsFit /\ DoneFits
      /\ ResultsFit /\ GivenFits /\ ToldFits /\ ChainFits /\ RelayFits /\ Untouched
  BY DEF IInv
<1>1. PICK h : h = agenda[1]
  OBVIOUS
<1>2. /\ agenda # <<>> /\ h \in Call /\ h.call = "done" /\ h.p \in Promise /\ h.a \in Answer
      /\ 1 \in 1 .. Len(agenda) /\ h = CallDone(h.p, h.a)
      /\ Fits(h) /\ ~Used(Right(h)) /\ ~Elsewhere(Right(h))
      /\ UNCHANGED <<plan, hasXhr, called, xhr, timer, callbacks, results, numdone, given, told>>
      /\ result' \in [Promise -> Answer] /\ isdone' \in [Promise -> BOOLEAN]
      /\ result'[h.p] = h.a /\ isdone'[h.p]
      /\ \A p \in Promise : p # h.p => result'[p] = result[p] /\ isdone'[p] = isdone[p]
      /\ isdone[h.p] => Len(agenda) = 1
  BY <1>1, DoneIs
<1>3. PICK w : w = Waiter(h.p)
  OBVIOUS
<1>4. PICK new : /\ Before(new) /\ Len(new) \in 1 .. 2 /\ new[Len(new)] = Empty(h.p)
                 /\ Len(new) = 2 => /\ Waiting(h.p) /\ w \in Continuer /\ Waits(h.p, w)
                                    /\ new[1] = CallBack(w, h.a)
  BY <1>1, <1>3, DoneCalls
<1>5. Calm /\ SentStays
  BY DoneIsCalm
<1>6. PICK y \in Call : /\ y = Empty(h.p) /\ y.call = "empty" /\ y.p = h.p
                        /\ Right(y) = <<"empty", h.p>>
  BY <1>2, NewCalls
<1>7. PICK z : z = CallBack(w, h.a)
  OBVIOUS
<1>8. Waiting(h.p) =>
          /\ w \in Continuer /\ Waits(h.p, w) /\ callbacks[h.p] # <<>>
          /\ z \in Call /\ z.call = "apply" /\ z.cb = w /\ z.a = h.a
          /\ Right(z) = RightOf(w) /\ Right(z) = <<Right(z)[1], Right(z)[2]>>
          /\ Right(z)[1] = "done" => Right(z)[2] \in Promise
  <2> SUFFICES ASSUME Waiting(h.p)
               PROVE  /\ w \in Continuer /\ Waits(h.p, w) /\ callbacks[h.p] # <<>>
                      /\ z \in Call /\ z.call = "apply" /\ z.cb = w /\ z.a = h.a
                      /\ Right(z) = RightOf(w) /\ Right(z) = <<Right(z)[1], Right(z)[2]>>
                      /\ Right(z)[1] = "done" => Right(z)[2] \in Promise
    OBVIOUS
  <2>1. w \in Continuer /\ Waits(h.p, w) /\ callbacks[h.p] # <<>>
    BY <1>0, <1>2, <1>3, WaiterIs DEF WaitersFit, Waiting, Waiter
  <2>2. z \in Call /\ z.call = "apply" /\ z.cb = w /\ z.a = h.a /\ Right(z) = RightOf(w)
    BY <1>2, <1>7, <2>1, NewCalls
  <2> QED
    BY <1>0, <2>1, <2>2, RightsAre, DoneOf
<1>9. ASSUME NEW u \in 1 .. Len(new)
      PROVE  (u = Len(new) /\ new[u] = y) \/ (u = 1 /\ Len(new) = 2 /\ Waiting(h.p) /\ new[u] = z)
  <2>1. u = Len(new) \/ (u = 1 /\ Len(new) = 2)
    BY <1>4
  <2> QED
    BY <1>4, <1>6, <1>7, <2>1
<1>10. Len(agenda) \in Nat /\ new \in Seq(Call) /\ Len(new) \in Nat
  BY <1>0, <1>4 DEF Types, Before
<1>11. ~Waiting(h.p)'
  BY <1>2 DEF Waiting
<1>12. Replaced(new)
  <2>1. \A p \in Promise : Waiting(p)' => Waiting(p) /\ callbacks'[p] = callbacks[p]
    BY <1>2, <1>11 DEF Waiting
  <2> QED
    BY <1>4, <2>1 DEF Replaced
<1>13. Types'
  <2>1. agenda' \in Seq(Call)
    BY <1>0, <1>4, AgendaIs
  <2>2. AjaxTypeOK'
    BY <1>0, <1>2 DEF Types, AjaxTypeOK
  <2> QED
    BY <1>0, <1>2, <2>1, <2>2 DEF Types
<1>14. Right(z) # Right(y) \/ ~Waiting(h.p)
  BY <1>6, <1>8, RightOfIs
<1>15. ~Stays(Right(y))
  <2>1. ASSUME NEW u \in 2 .. Len(agenda), Right(agenda[u]) = <<"empty", h.p>> PROVE FALSE
    <3>1. u \in 1 .. Len(agenda) /\ agenda[u] \in Call /\ Len(agenda) # 1
      BY <1>0, <1>10 DEF Types
    <3>2. agenda[u].call = "empty" /\ agenda[u].p = h.p
      BY <2>1, <3>1, HasRight
    <3>3. isdone[h.p]
      BY <1>0, <3>1, <3>2 DEF CallsFit, Fits
    <3> QED
      BY <1>2, <3>1, <3>3
  <2>2. ASSUME NEW p \in Promise, Waiting(p) PROVE RightOf(Waiter(p)) # <<"empty", h.p>>
    BY <1>0, <2>2, WaiterIs, HasRightOf DEF Waiting
  <2> QED
    BY <1>6, <2>1, <2>2 DEF Stays
<1>16. Waiting(h.p) => ~Stays(Right(z))
  <2> SUFFICES ASSUME Waiting(h.p) PROVE ~Stays(RightOf(Waiter(h.p)))
    BY <1>3, <1>8
  <2>1. \A u \in 2 .. Len(agenda) : u \in 1 .. Len(agenda)
    BY <1>10
  <2> QED
    BY <1>0, <1>2, <1>11, <2>1 DEF Stays, Distinct
<1>17. Distinct'
  <2>1. \A u, j \in 1 .. Len(new) : Right(new[u]) = Right(new[j]) => u = j
    BY <1>9, <1>14
  <2>2. \A u \in 1 .. Len(new) : ~Stays(Right(new[u]))
    BY <1>9, <1>15, <1>16
  <2> QED
    BY <1>0, <1>12, <2>1, <2>2, DistinctKept
<1>18. Unused'
  <2>1. ASSUME NEW right, Stays(right), Used(right)' PROVE Used(right)
    <3>1. Elsewhere(right) /\ right # Right(h)
      BY <1>2, <2>1, StaysElsewhere
    <3>2. right = <<right[1], right[2]>> /\ (right[1] = "done" => right[2] \in Promise)
      BY <1>0, <3>1, RightsAre, DoneOf
    <3> QED
      BY <1>1, <2>1, <3>1, <3>2, DoneUses
  <2>2. ASSUME NEW u \in 1 .. Len(new) PROVE ~Used(Right(new[u]))'
    <3>1. PICK right : right = Right(new[u])
      OBVIOUS
    <3>2. CASE new[u] = y
      BY <1>6, <3>1, <3>2 DEF Used
    <3>3. CASE Waiting(h.p) /\ new[u] = z
      <4>1. /\ right = RightOf(Waiter(h.p)) /\ right = <<right[1], right[2]>>
            /\ right[1] = "done" => right[2] \in Promise
        BY <1>3, <1>8, <3>1, <3>3
      <4>2. ~Used(right) /\ right # Right(h)
        BY <1>0, <1>1, <1>2, <3>3, <4>1 DEF Unused, Distinct
      <4>3. ~Used(right)'
        BY <1>1, <4>1, <4>2, DoneUses
      <4> QED
        BY <3>1, <4>3
    <3> QED
      BY <1>9, <3>2, <3>3
  <2> QED
    BY <1>0, <1>12, <2>1, <2>2, UnusedKept
<1>19. CallsFit'
  <2>1. ASSUME NEW u \in 2 .. Len(agenda),
               agenda[u].call = "done" /\ agenda[u].p[1] = "ajax" /\ agenda[u].a = "ETIMEOUT"
        PROVE  isdone'[agenda[u].p] /\ result'[agenda[u].p] = "failed"
    <3>1. u \in 1 .. Len(agenda) /\ agenda[u] \in Call /\ Len(agenda) # 1
      BY <1>0, <1>10 DEF Types
    <3>2. PICK q \in Promise : q = agenda[u].p
      BY <2>1, <3>1, CallIs
    <3>3. \/ isdone[q] /\ result[q] = "failed"
          \/ h = CallDone(q, "failed")
      BY <1>0, <1>1, <2>1, <3>1, <3>2 DEF CallsFit, AnswerFits
    <3>4. CASE isdone[q] /\ result[q] = "failed"
      BY <1>2, <3>1, <3>2, <3>4
    <3>5. CASE h = CallDone(q, "failed")
      <4>1. h.p = q /\ h.a = "failed"
        BY <3>5 DEF CallDone
      <4> QED
        BY <1>2, <3>2, <4>1
    <3> QED
      BY <3>3, <3>4, <3>5
  <2>2. Fits(y)'
    BY <1>2, <1>6 DEF Fits
  <2>3. Waiting(h.p) => Fits(z)'
    <3> SUFFICES ASSUME Waiting(h.p) PROVE Fits(z)'
      OBVIOUS
    <3>1. Told(w, h.a)'
      BY <1>1, <1>3, DoneTells
    <3> QED
      BY <1>8, <3>1 DEF Fits
  <2>4. ASSUME NEW u \in 1 .. Len(new) PROVE Fits(new[u])' /\ new[u].call # "done"
    BY <1>6, <1>8, <1>9, <2>2, <2>3
  <2> QED
    BY <1>0, <1>2, <1>4, <1>5, <2>1, <2>4, CallsFitMoved
<1>20. WaitersFit'
  <2> SUFFICES ASSUME NEW p \in Promise, callbacks'[p] # <<>>
               PROVE  /\ Len(callbacks'[p]) = 1 /\ Waits(p, callbacks[p][1])'
                      /\ isdone'[p] => \E u \in 1 .. Len(agenda') : agenda'[u] = Empty(p)
                      /\ \A r \in Request : p = Of(r) => xhr'[r] \notin {"unsent", "none"}
    BY DEF WaitersFit
  <2>1. /\ callbacks[p] # <<>> /\ Len(callbacks'[p]) = 1
        /\ \A r \in Request : p = Of(r) => xhr'[r] \notin {"unsent", "none"}
    BY <1>0, <1>2 DEF WaitersFit
  <2>2. Waits(p, callbacks[p][1])'
    <3>1. PICK cb : cb = callbacks[p][1] /\ cb = callbacks'[p][1]
      BY <1>2
    <3>2. Waits(p, cb)
      BY <1>0, <2>1, <3>1 DEF WaitersFit
    <3>3. Waits(p, cb)'
      BY <1>2, <3>2, WaitsKept
    <3> QED
      BY <3>1, <3>3
  <2>3. ASSUME isdone'[p] PROVE \E u \in 1 .. Len(agenda') : agenda'[u] = Empty(p)
    <3>1. CASE p = h.p
      <4>1. Len(agenda') = Len(new) + Len(agenda) - 1 /\ Len(agenda) \in Nat \ {0}
        BY <1>0, <1>2, <1>4, AgendaIs
      <4>2. PICK k : k = Len(new) /\ k \in 1 .. 2
        BY <1>4
      <4>3. k \in 1 .. Len(agenda')
        BY <4>1, <4>2
      <4>4. agenda'[k] = new[k]
        BY <1>0, <1>4, <4>2, <4>3, AgendaIs
      <4> QED
        BY <1>4, <3>1, <4>2, <4>3, <4>4
    <3>2. CASE p # h.p
      <4>1. PICK u \in 1 .. Len(agenda) : agenda[u] = Empty(p)
        BY <1>0, <1>2, <2>1, <2>3, <3>2 DEF WaitersFit
      <4>2. Empty(p).call = "empty"
        BY NewCalls
      <4>3. u \in 2 .. Len(agenda)
        <5>1. u # 1
          BY <1>1, <1>2, <4>1, <4>2
        <5> QED
          BY <1>10, <5>1
      <4>4. u + Len(new) - 1 \in 1 .. Len(agenda') /\ agenda'[u + Len(new) - 1] = agenda[u]
        BY <1>0, <1>4, <4>3, AgendaIs
      <4> QED
        BY <4>1, <4>4
    <3> QED
      BY <3>1, <3>2
  <2> QED
    BY <2>1, <2>2, <2>3
<1>21. RequestsFit'
  <2>1. ASSUME NEW r \in Request
        PROVE  /\ xhr'[r] = "none" => isdone'[Of(r)] /\ ~hasXhr' /\ result'[Of(r)] = "ENOXHR"
               /\ xhr'[r] \in {"unsent", "sent", "partial"} => ~isdone'[Of(r)]
    <3>1. CASE Of(r) = h.p
      <4>1. \E q \in Request : h.p = Of(q) /\ xhr[q] = "over"
        BY <1>2, <3>1, PairsDiffer DEF Fits
      <4>2. xhr[r] = "over"
        BY <3>1, <4>1, PairsDiffer
      <4> QED
        BY <1>2, <4>2
    <3>2. CASE Of(r) # h.p
      <4>1. Of(r) \in Promise
        BY Promises
      <4>2. isdone'[Of(r)] = isdone[Of(r)] /\ result'[Of(r)] = result[Of(r)]
        BY <1>2, <3>2, <4>1
      <4> QED
        BY <1>0, <1>2, <4>2 DEF RequestsFit
    <3> QED
      BY <3>1, <3>2
  <2> QED
    BY <1>0, <1>2, <2>1 DEF RequestsFit
<1>22. DoneFits'
  <2>1. isdone'[Joined] => AllNotified'
    <3>1. CASE Joined = h.p
      <4>1. AllNotified
        BY <1>2, <3>1, PairsDiffer DEF Fits
      <4> QED
        BY <1>5, <4>1, AllNotifiedKept
    <3>2. CASE Joined # h.p
      BY <1>0, <1>2, <1>5, <3>2, Promises, AllNotifiedKept DEF DoneFits
    <3> QED
      BY <3>1, <3>2
  <2>2. ASSUME NEW n \in 1 .. NRequest + 1, isdone'[Link(n)] PROVE Ended(result[Link(n)])'
    <3>1. PICK a : a = result'[Link(n)]
      OBVIOUS
    <3>2. Ended(a)
      <4>1. CASE Link(n) = h.p
        BY <1>2, <3>1, <4>1, PairsDiffer DEF Fits
      <4>2. CASE Link(n) # h.p
        BY <1>0, <1>2, <2>2, <3>1, <4>2, Promises DEF DoneFits
      <4> QED
        BY <4>1, <4>2
    <3>3. Ended(a)'
      BY <1>5, <3>2, EndedKept
    <3> QED
      BY <3>1, <3>3
  <2> QED
    BY <2>1, <2>2 DEF DoneFits
<1>23. ResultsFit' /\ GivenFits' /\ ToldFits'
  BY <1>0, <1>2, <1>5, AnswersKept
<1>24. ASSUME NEW n, GoesOn(n) PROVE \A m \in 1 .. NRequest + 1 : h.p # Link(m)
  <2>1. ASSUME NEW m \in 1 .. NRequest + 1, h.p = Link(m) PROVE FALSE
    <3>1. Right(h) = <<"done", Link(m)>>
      BY <1>2, <2>1, RightIs, Promises
    <3> QED
      BY <1>1, <1>2, <1>24, <2>1, <3>1 DEF GoesOn
  <2> QED
    BY <2>1
<1>25. ASSUME NEW u \in 1 .. Len(new), NEW m \in 1 .. NRequest + 1,
              Right(new[u]) = <<"done", Link(m)>>
       PROVE  \E n \in 1 .. NRequest + 1 : h.p = Link(n)
  <2>1. Right(y) # <<"done", Link(m)>>
    BY <1>6
  <2>2. Waiting(h.p) /\ RightOf(w) = <<"done", Link(m)>>
    BY <1>8, <1>9, <1>25, <2>1
  <2>3. w = Pass(Link(m)) /\ w.do = "pass"
    <3>1. w = Pass(Link(m))
      BY <1>8, <2>2, HasRightOf, PairsDiffer
    <3> QED
      BY <3>1, Promises, Callbacks
  <2>4. \E n \in Request : h.p = Link(n + 1)
    BY <1>8, <2>2, <2>3, WaitsIs, PairsDiffer
  <2> QED
    BY <2>4, Promises
<1>26. ASSUME NEW n, GoesOn(n)
       PROVE  /\ \A m \in 1 .. NRequest + 1 : isdone'[Link(m)] => isdone[Link(m)]
              /\ \A u \in 1 .. Len(new) : \A m \in 1 .. NRequest + 1 :
                     Right(new[u]) # <<"done", Link(m)>>
              /\ GoesOn(n)'
  <2>1. \A m \in 1 .. NRequest + 1 : isdone'[Link(m)] => isdone[Link(m)]
    BY <1>2, <1>24, <1>26, Promises
  <2>2. \A u \in 1 .. Len(new) : \A m \in 1 .. NRequest + 1 : Right(new[u]) # <<"done", Link(m)>>
    BY <1>24, <1>25, <1>26
  <2> QED
    BY <1>0, <1>12, <1>26, <2>1, <2>2, GoesOnKept
<1>27. ChainFits'
  <2>1. ASSUME Elsewhere(<<"chain", 0>>) PROVE \E n : GoesOn(n)
    BY <1>0, <2>1, SomewhereGoesOn
  <2>2. ASSUME NEW u \in 1 .. Len(new), new[u].call = "apply", new[u].cb.do = "follow"
        PROVE  GoesOn(new[u].cb.of)' /\ DOMAIN given' = 1 .. new[u].cb.of
    <3>1. Waiting(h.p) /\ new[u].cb = w /\ w.do = "follow"
      BY <1>6, <1>8, <1>9, <2>2
    <3>2. GoesOn(w.of) /\ DOMAIN given = 1 .. w.of
      BY <1>0, <1>2, <1>3, <3>1 DEF ChainFits
    <3>3. GoesOn(w.of)'
      BY <1>26, <3>2
    <3> QED
      BY <1>2, <3>1, <3>2, <3>3
  <2>3. \A u \in 1 .. Len(new) : new[u].call \in {"apply", "empty"}
    BY <1>6, <1>8, <1>9
  <2> QED
    BY <1>0, <1>2, <1>12, <1>26, <2>1, <2>2, <2>3, ChainFitsKept
<1>28. RelayFits'
  <2>1. ASSUME NEW u \in 1 .. Len(new), new[u].call \in {"then", "apply"}, new[u].cb.do = "relay"
        PROVE  new[u].call = "apply" /\ xhr'[2] = "unsent"
    <3>1. Waiting(h.p) /\ new[u] = z /\ w.do = "relay"
      BY <1>6, <1>8, <1>9, <2>1
    <3>2. w = Relay
      BY <1>8, <3>1, WaitsIs
    <3> QED
      BY <1>0, <1>2, <1>3, <1>8, <3>1, <3>2 DEF RelayFits
  <2> QED
    BY <1>0, <1>2, <1>12, <2>1, RelayFitsKept
<1>29. Untouched'
  BY <1>0, <1>2, UntouchedKept
<1> QED
  BY <1>13, <1>17, <1>18, <1>19, <1>20, <1>21, <1>22, <1>23, <1>27, <1>28, <1>29 DEF IInv

--------------------
(* Events. *)

\* An event of a request, which may be over then, and what it has its promise told.
LEMMA EventStep ==
    ASSUME IInv, NEW r \in Request, Event(r), NEW v \in {"partial", "over"},
           xhr' = [xhr EXCEPT ![r] = v], timer' = timer \ {r},
           UNCHANGED <<plan, hasXhr, called, callbacks, isdone, result, results, numdone, given, told>>,
           NEW new \in Seq(Call), agenda' = new,
           \A u \in 1 .. Len(new) :
               /\ new[u].call = "done" /\ new[u].p = Of(r) /\ v = "over"
               /\ IF new[u].a # "ETIMEOUT" THEN u = 1
                  ELSE u = 2 /\ u = Len(new) /\ new[1] = CallDone(Of(r), "failed")
    PROVE  IInv'
<1>0. /\ Types /\ Distinct /\ Unused /\ CallsFit /\ WaitersFit /\ RequestsFit /\ DoneFits
      /\ ResultsFit /\ GivenFits /\ ToldFits /\ ChainFits /\ RelayFits /\ Untouched
  BY DEF IInv
<1>1. agenda = <<>> /\ xhr[r] \in {"sent", "partial"} /\ Of(r) \in Promise /\ Of(r)[1] = "ajax"
  BY Promises DEF Event
<1>2. ~isdone[Of(r)] /\ hasXhr
  BY <1>0, <1>1 DEF RequestsFit
<1>3. /\ xhr' \in [Request -> {"unsent", "sent", "partial", "over", "none"}] /\ xhr'[r] = v
      /\ \A q \in Request : q # r => xhr'[q] = xhr[q]
  BY <1>0 DEF Types, AjaxTypeOK
<1>4. Before(new) /\ Replaced(new)
  BY <1>1 DEF Before, Replaced, Waiting
<1>5. Calm
  BY <1>0 DEF Calm, FirstAnswer, Types, AjaxTypeOK
<1>6. \A u \in 1 .. Len(new) : Right(new[u]) = <<"answer", new[u].a>>
  <2>1. \A u \in 1 .. Len(new) : new[u] \in Call
    OBVIOUS
  <2> QED
    BY <1>1, <2>1, RightIs
<1>7. Types'
  <2>1. timer' \subseteq {q \in Request : xhr'[q] = "sent"}
    BY <1>0, <1>3 DEF Types, AjaxTypeOK
  <2>2. AjaxTypeOK'
    BY <1>0, <1>3, <2>1 DEF Types, AjaxTypeOK
  <2> QED
    BY <1>0, <2>2 DEF Types
<1>8. Distinct'
  <2>1. ASSUME NEW u \in 1 .. Len(new), NEW j \in 1 .. Len(new), Right(new[u]) = Right(new[j])
        PROVE  u = j
    <3>1. \A a, b : <<"answer", a>> = <<"answer", b>> => a = b
      OBVIOUS
    <3>2. new[u].a = new[j].a
      BY <1>6, <2>1, <3>1
    <3> QED
      BY <3>2
  <2>2. ASSUME NEW u \in 1 .. Len(new) PROVE ~Stays(Right(new[u]))
    <3>1. \A p \in Promise : Waiting(p) => RightOf(Waiter(p)) # <<"answer", new[u].a>>
      BY <1>0, WaiterIs, HasRightOf DEF Waiting
    <3>2. Len(agenda) = 0
      BY <1>1
    <3> QED
      BY <1>6, <3>1, <3>2 DEF Stays
  <2> QED
    BY <1>0, <1>4, <2>1, <2>2, DistinctKept
<1>9. Unused'
  <2>1. \A right : Used(right)' <=> Used(right)
    BY DEF Used
  <2>2. ASSUME NEW u \in 1 .. Len(new) PROVE ~Used(Right(new[u]))'
    <3>1. PICK right : right = Right(new[u]) /\ right = <<"answer", new[u].a>>
      BY <1>6
    <3>2. ~Used(right)
      BY <3>1 DEF Used
    <3> QED
      BY <2>1, <3>1, <3>2
  <2> QED
    BY <1>0, <1>4, <2>1, <2>2, UnusedKept
<1>10. CallsFit'
  <2>1. ASSUME NEW u \in 1 .. Len(agenda') PROVE Fits(agenda[u])' /\ AnswerFits(u, agenda[u])'
    <3>1. PICK h \in Call : h = agenda'[u] /\ h = new[u]
      OBVIOUS
    <3>2. /\ h.call = "done" /\ h.p = Of(r) /\ v = "over"
          /\ IF h.a # "ETIMEOUT" THEN u = 1
             ELSE u = 2 /\ u = Len(agenda') /\ agenda'[1] = CallDone(h.p, "failed")
      BY <3>1
    <3>3. Fits(h)'
      BY <1>3, <3>2 DEF Fits
    <3>4. AnswerFits(u, h)'
      BY <1>2, <3>2 DEF AnswerFits
    <3> QED
      BY <3>1, <3>3, <3>4
  <2> QED
    BY <2>1 DEF CallsFit
<1>11. WaitersFit'
  <2>1. \A q \in Request : xhr[q] \notin {"unsent", "none"} => xhr'[q] \notin {"unsent", "none"}
    BY <1>3
  <2> QED
    BY <1>0, <1>1, <1>4, <1>5, <2>1, WaitersFitKept
<1>12. RequestsFit'
  <2>1. ASSUME NEW q \in Request
        PROVE  /\ xhr'[q] = "none" => xhr[q] = "none"
               /\ xhr'[q] \in {"unsent", "sent", "partial"} => xhr[q] \in {"unsent", "sent", "partial"}
               /\ xhr'[q] \in {"sent", "partial", "over"} => xhr[q] \in {"sent", "partial", "over"}
               /\ xhr'[q] = "unsent" <=> xhr[q] = "unsent"
    BY <1>1, <1>3
  <2> QED
    BY <1>0, <2>1 DEF RequestsFit
<1>13. DoneFits' /\ ResultsFit' /\ GivenFits' /\ ToldFits'
  BY <1>0, <1>5, DoneFitsKept, AnswersKept
<1>14. ChainFits'
  <2>1. \A u \in 1 .. Len(new) : \A m \in 1 .. NRequest + 1 : Right(new[u]) # <<"done", Link(m)>>
    BY <1>6
  <2> QED
    BY <1>0, <1>4, <2>1, ChainFitsKept
<1>15. RelayFits'
  <2>1. CASE r = 2
    <3>1. \A p \in Promise : ~(Waiting(p) /\ Waiter(p) = Relay)
      BY <1>0, <1>1, <2>1 DEF RelayFits
    <3>2. \A u \in 2 .. Len(agenda) : FALSE
      <4>1. Len(agenda) = 0
        BY <1>1
      <4> QED
        BY <4>1
    <3> QED
      BY <1>0, <1>4, <3>1, <3>2, RelayFitsKept
  <2>2. CASE r # 2
    <3>1. xhr'[2] = xhr[2]
      BY <1>3, <2>2, Promises
    <3> QED
      BY <1>0, <1>4, <3>1, RelayFitsKept
  <2> QED
    BY <2>1, <2>2
<1>16. Untouched'
  BY <1>0, <1>1 DEF Untouched
<1> QED
  BY <1>7, <1>8, <1>9, <1>10, <1>11, <1>12, <1>13, <1>14, <1>15, <1>16 DEF IInv

LEMMA ProgressStep ==
    ASSUME IInv, NEW r \in Request, Progress(r) PROVE IInv'
<1>1. PICK new \in Seq(Call) : new = <<>> /\ Len(new) = 0
  <2>1. <<>> \in Seq(Call) /\ Len(<<>>) = 0
    OBVIOUS
  <2> QED
    BY <2>1
<1>2. agenda' = new /\ \A u \in 1 .. Len(new) : FALSE
  BY <1>1 DEF Progress, Event
<1>3. PICK v \in {"partial", "over"} : v = "partial"
  OBVIOUS
<1>4. /\ Event(r) /\ xhr' = [xhr EXCEPT ![r] = v] /\ timer' = timer \ {r}
      /\ UNCHANGED <<plan, hasXhr, called, callbacks, isdone, result, results, numdone, given, told>>
  BY <1>3 DEF Progress
<1> QED
  BY <1>2, <1>4, EventStep

LEMMA FinishStep ==
    ASSUME IInv, NEW r \in Request, NEW a \in {"ok", "failed"}, Finish(r, a) PROVE IInv'
<1>1. PICK h \in Call : h = CallDone(Of(r), a) /\ h.call = "done" /\ h.p = Of(r) /\ h.a = a
  BY Promises, NewCalls DEF Answer
<1>2. <<h>> \in Seq(Call) /\ Len(<<h>>) = 1 /\ <<h>>[1] = h
  OBVIOUS
<1>3. PICK new \in Seq(Call) : new = <<h>> /\ Len(new) = 1 /\ new[1] = h
  BY <1>2
<1>4. agenda' = new
  BY <1>1, <1>3 DEF Finish
<1>5. \A u \in 1 .. Len(new) : u = 1 /\ new[u] = h
  BY <1>3
<1> QED
  BY <1>1, <1>4, <1>5, EventStep DEF Finish

LEMMA TimeoutStep ==
    ASSUME IInv, NEW r \in Request, Timeout(r) PROVE IInv'
<1>1. PICK h \in Call : /\ h = CallDone(Of(r), "failed") /\ h.call = "done" /\ h.p = Of(r)
                        /\ h.a = "failed"
  BY Promises, NewCalls DEF Answer
<1>2. PICK y \in Call : /\ y = CallDone(Of(r), "ETIMEOUT") /\ y.call = "done" /\ y.p = Of(r)
                        /\ y.a = "ETIMEOUT"
  BY Promises, NewCalls DEF Answer
<1>3. PICK new \in Seq(Call) : /\ new = <<h, y>> /\ Len(new) = 2 /\ new[1] = h /\ new[2] = y
                               /\ \A u \in 1 .. Len(new) : u = 1 \/ u = 2
  BY TwoCalls
<1>4. agenda' = new
  BY <1>1, <1>2, <1>3 DEF Timeout
<1>5. \A u \in 1 .. Len(new) : (u = 1 /\ new[u] = h) \/ (u = 2 /\ new[u] = y)
  BY <1>3
<1>6. \A u \in 1 .. Len(new) :
          /\ new[u].call = "done" /\ new[u].p = Of(r)
          /\ IF new[u].a # "ETIMEOUT" THEN u = 1
             ELSE u = 2 /\ u = Len(new) /\ new[1] = CallDone(Of(r), "failed")
  BY <1>1, <1>2, <1>3, <1>5
<1>7. PICK v \in {"partial", "over"} : v = "over"
  OBVIOUS
<1>8. /\ Event(r) /\ xhr' = [xhr EXCEPT ![r] = v] /\ timer' = timer \ {r}
      /\ UNCHANGED <<plan, hasXhr, called, callbacks, isdone, result, results, numdone, given, told>>
  BY <1>7 DEF Timeout
<1> QED
  BY <1>4, <1>6, <1>7, <1>8, EventStep

--------------------
(* The invariant, and what follows. *)

LEMMA InvAtFirst == AjaxInit => IInv
<1> SUFFICES ASSUME AjaxInit PROVE IInv
  OBVIOUS
<1>1. agenda = <<>> /\ Len(agenda) = 0 /\ agenda \in Seq(Call)
  BY DEF AjaxInit
<1>2. /\ \A p \in Promise : ~Waiting(p) /\ callbacks[p] = <<>> /\ ~isdone[p]
      /\ \A r \in Request : xhr[r] = "unsent" /\ ~isdone[Of(r)]
      /\ \A c \in Continuation : told[c] = <<>>
      /\ DOMAIN results = {} /\ DOMAIN given = {} /\ called = {}
  BY Promises DEF AjaxInit, Waiting
<1>3. Types
  <2>1. AjaxTypeOK
    <3>1. told \in [Continuation -> Seq(Answer)]
      BY DEF AjaxInit
    <3> QED
      BY <3>1, NRequestAssumption DEF AjaxInit, AjaxTypeOK, Answer
  <2> QED
    BY <1>1, <1>2, <2>1 DEF AjaxInit, Types
<1>4. Distinct /\ Unused /\ CallsFit /\ WaitersFit
  BY <1>1, <1>2 DEF Distinct, Unused, CallsFit, WaitersFit
<1>5. RequestsFit
  BY <1>2, Promises DEF RequestsFit
<1>6. DoneFits
  BY <1>2, Promises DEF DoneFits
<1>7. ResultsFit /\ GivenFits
  <2>1. Cardinality({}) = 0
    BY FS_EmptySet
  <2> QED
    BY <1>2, <2>1 DEF AjaxInit, ResultsFit, GivenFits
<1>8. ToldFits
  <2>1. \A g : g = <<>> => Len(g) <= 1
    OBVIOUS
  <2> QED
    BY <1>2, <2>1, Promises DEF ToldFits
<1>9. ChainFits /\ RelayFits
  BY <1>1, <1>2 DEF ChainFits, RelayFits
<1>10. Untouched
  BY <1>1, <1>2 DEF AjaxInit, Untouched
<1> QED
  BY <1>3, <1>4, <1>5, <1>6, <1>7, <1>8, <1>9, <1>10 DEF IInv

LEMMA NothingHappens ==
    ASSUME IInv, UNCHANGED ajaxVars PROVE IInv'
<1>0. /\ Types /\ Distinct /\ Unused /\ CallsFit /\ WaitersFit /\ RequestsFit /\ DoneFits
      /\ ResultsFit /\ GivenFits /\ ToldFits /\ ChainFits /\ RelayFits /\ Untouched
  BY DEF IInv
<1>1. /\ UNCHANGED <<plan, hasXhr, called, xhr, timer, callbacks, isdone, result, results, numdone>>
      /\ UNCHANGED <<given, agenda, told>>
  BY DEF ajaxVars
<1>2. Types' /\ Distinct' /\ Unused'
  BY <1>0, <1>1 DEF Types, AjaxTypeOK, Distinct, Unused, Used, Waiting, Waiter
<1>3. CallsFit'
  BY <1>0, <1>1 DEF CallsFit, Fits, AnswerFits, Told, Waits, Late, Ended, AllNotified, FirstAnswer
<1>4. WaitersFit' /\ RequestsFit' /\ DoneFits' /\ ResultsFit' /\ GivenFits' /\ ToldFits'
  BY <1>0, <1>1 DEF WaitersFit, Waits, RequestsFit, DoneFits, ResultsFit, GivenFits, ToldFits,
                    Ended, AllNotified, FirstAnswer
<1>5. ChainFits' /\ RelayFits' /\ Untouched'
  BY <1>0, <1>1 DEF ChainFits, GoesOn, RelayFits, Untouched, Waiting, Waiter
<1> QED
  BY <1>2, <1>3, <1>4, <1>5 DEF IInv

LEMMA InvStep == IInv /\ [AjaxNext]_ajaxVars => IInv'
<1> SUFFICES ASSUME IInv, [AjaxNext]_ajaxVars PROVE IInv'
  OBVIOUS
<1>1. CASE AskJoin \/ AskChain \/ AskRelay
  BY <1>1, AskJoinStep, AskChainStep, AskRelayStep
<1>2. CASE Handler
  <2>1. CASE Then
    <3>1. CASE isdone[Head(agenda).p]
      BY <2>1, <3>1, ThenDone
    <3>2. CASE ~isdone[Head(agenda).p]
      BY <2>1, <3>2, ThenWaits, RelayWaits
    <3> QED
      BY <3>1, <3>2
  <2>2. CASE Chain
    BY <2>2, ChainEnds, ChainGoesOn
  <2>3. CASE Done \/ Forget
    BY <2>3, DoneStep, ForgetStep
  <2>4. CASE ApplyTell \/ ApplyNotify \/ ApplyFollow \/ ApplyPass \/ ApplyRelay
    BY <2>4, ApplyTellStep, ApplyNotifyStep, ApplyFollowStep, ApplyPassStep, ApplyRelayStep
  <2> QED
    BY <1>2, <2>1, <2>2, <2>3, <2>4 DEF Handler
<1>3. ASSUME NEW r \in Request,
             \/ AskEach(r) \/ AskLate(r) \/ Progress(r) \/ Timeout(r)
             \/ \E a \in {"ok", "failed"} : Finish(r, a)
      PROVE  IInv'
  BY <1>3, AskEachStep, AskLateStep, ProgressStep, TimeoutStep, FinishStep
<1>4. CASE UNCHANGED ajaxVars
  BY <1>4, NothingHappens
<1> QED
  BY <1>1, <1>2, <1>3, <1>4 DEF AjaxNext

\* The invariant holds of every behaviour.
LEMMA Invariant == AjaxSpec => []IInv
  BY InvAtFirst, InvStep, PTL DEF AjaxSpec

\* Types: what is on the agenda, waits for a promise or was told is what the handlers of
\* the browser put there (main.js 8-209).
THEOREM AjaxTypeCorrect == AjaxSpec => []AjaxTypeOK
<1>1. IInv => AjaxTypeOK
  BY DEF IInv, Types
<1> QED
  BY <1>1, Invariant, PTL

\* A promise that is done twice, by the onreadystatechange that abort() fires and by
\* onTimeout, still tells each continuation once; join waits for all of its parts and hands
\* out what each was first told; chain starts a request only when the one before is done,
\* with its answer, and ends with the last one's (main.js 8-78, 165-186).
THEOREM EachIsToldOnceAndInOrder == AjaxSpec => []OnceAndInOrder
<1>1. IInv => OnceAndInOrder
  <2> SUFFICES ASSUME IInv PROVE OnceAndInOrder
    OBVIOUS
  <2>1. ResultsFit /\ GivenFits /\ ToldFits
    BY DEF IInv
  <2>2. plan = "join" /\ Whole # <<>> =>
            DOMAIN results = Request /\ \A r \in Request : isdone[Of(r)]
    BY <2>1 DEF ToldFits, AllNotified, ResultsFit, Whole, TheWhole
  <2>3. plan = "chain" /\ Whole # <<>> =>
            (\A r \in Request : isdone[Of(r)]) /\ Whole[1] = FirstAnswer(NRequest)
    BY <2>1 DEF ToldFits, Ended, Whole, TheWhole
  <2> QED
    BY <2>1, <2>2, <2>3 DEF OnceAndInOrder, ResultsFit, GivenFits, ToldFits
<1> QED
  BY <1>1, Invariant, PTL

--------------------
(* Uploads: the types, what the sign says, and which images the article    *)
(* holds in which order.                                                   *)

\* A batch at work is at an image of its own, and one that has not begun has none.
AtAnImage ==
    \A b \in Batch :
        /\ b \in Working => next[b] - 1 \in DOMAIN files[b] /\ files[b][next[b] - 1] # "other"
        /\ at[b] = "unbegun" => InArticle(b) = {}

Ordered == \A p, q \in DOMAIN inserted :
               p < q /\ inserted[p][1] = inserted[q][1] => inserted[p][2] < inserted[q][2]

HoldsFirst(b) ==
    /\ \A k \in InArticle(b) : k \in DOMAIN files[b] /\ files[b][k] # "other"
    /\ b \in Working => InArticle(b) = 1 .. next[b] - 2
    /\ at[b] = "over" => \E n \in 0 .. Len(files[b]) : InArticle(b) = 1 .. n

UploadsInv == UploadsTypeOK /\ SignMeansWork /\ AtAnImage /\ InsertedInOrder

\* Where uploadImage leaves a batch that it does not end.
Going == {"decoding", "broken"}

--------------------
(* What the handlers are made of. *)

\* A batch is a sequence of files.
LEMMA BatchIsSeq ==
    ASSUME NEW fs \in Batches
    PROVE  Len(fs) \in 0 .. MaxFiles /\ DOMAIN fs = 1 .. Len(fs) /\ fs \in [DOMAIN fs -> Sort]
<1>1. PICK n \in 0 .. MaxFiles : fs \in [1 .. n -> Sort]
  <2>1. CASE fs = <<"path">>
    <3>1. 1 \in 0 .. MaxFiles
      BY UploadsAssumption
    <3> QED
      BY <2>1, <3>1 DEF Sort
  <2>2. CASE \E n \in 0 .. MaxFiles : fs \in [1 .. n -> Sort \ {"path"}]
    BY <2>2 DEF Sort
  <2> QED
    BY <2>1, <2>2 DEF Batches
<1>2. n \in Nat
  BY <1>1
<1> QED
  BY <1>1, <1>2

\* uploadImage goes to work on an image, or it calls back.
LEMMA UploadCases ==
    ASSUME NEW b \in Batch, NEW fs \in Batches, NEW n \in Nat \ {0}, NEW isInside \in BOOLEAN,
           Upload(b, fs, n, isInside)
    PROVE  /\ files' = [files EXCEPT ![b] = fs]
           /\ \/ /\ n \in DOMAIN fs /\ fs[n] # "other"
                 /\ \E a \in Going : at' = [at EXCEPT ![b] = a]
                 /\ next' = [next EXCEPT ![b] = n + 1]
                 /\ UNCHANGED ended
              \/ /\ Callback(b)
                 /\ \/ n \in DOMAIN fs /\ next' = [next EXCEPT ![b] = n + 1]
                    \/ n > Len(fs) /\ next' = [next EXCEPT ![b] = n]
<1>1. DOMAIN fs = 1 .. Len(fs) /\ Len(fs) \in Nat
  BY BatchIsSeq, UploadsAssumption
<1>2. n <= Len(fs) <=> n \in DOMAIN fs
  BY <1>1
<1>3. n \in DOMAIN fs \/ n > Len(fs)
  BY <1>1
<1>4. CASE n \in DOMAIN fs
  <2>1. files' = [files EXCEPT ![b] = fs] /\ next' = [next EXCEPT ![b] = n + 1]
    BY <1>2, <1>4 DEF Upload
  <2>2. \/ fs[n] # "other" /\ (\E a \in Going : at' = [at EXCEPT ![b] = a]) /\ UNCHANGED ended
        \/ Callback(b)
    BY <1>2, <1>4 DEF Upload, Going
  <2> QED
    BY <1>4, <2>1, <2>2
<1>5. CASE n > Len(fs)
  <2>1. ~(n <= Len(fs))
    BY <1>1, <1>5
  <2>2. files' = [files EXCEPT ![b] = fs] /\ next' = [next EXCEPT ![b] = n] /\ Callback(b)
    BY <2>1 DEF Upload
  <2> QED
    BY <1>5, <2>2
<1> QED
  BY <1>3, <1>4, <1>5

\* The places of a batch change when one of its images is put in, and only then.
LEMMA PlaceAdded ==
    ASSUME UploadsTypeOK, NEW b \in Batch, NEW k \in 1 .. MaxFiles,
           inserted' = Append(inserted, <<b, k>>)
    PROVE  /\ InArticle(b)' = InArticle(b) \cup {k}
           /\ \A c \in Batch : c # b => InArticle(c)' = InArticle(c)
           /\ (Ordered /\ \A j \in InArticle(b) : j < k) => Ordered'
<1> DEFINE new == <<b, k>>
<1>1. inserted \in Seq(Batch \X (1 .. MaxFiles)) /\ Len(inserted) \in Nat
  BY DEF UploadsTypeOK
<1>2. /\ DOMAIN inserted' = DOMAIN inserted \cup {Len(inserted) + 1}
      /\ inserted'[Len(inserted) + 1] = new
      /\ \A p \in DOMAIN inserted : inserted'[p] = inserted[p] /\ p < Len(inserted) + 1
      /\ Len(inserted) + 1 \notin DOMAIN inserted
  BY <1>1
<1>3. InArticle(b)' = InArticle(b) \cup {k}
  BY <1>2 DEF InArticle
<1>4. ASSUME NEW c \in Batch, c # b PROVE InArticle(c)' = InArticle(c)
  BY <1>2, <1>4 DEF InArticle
<1>5. ASSUME Ordered, \A j \in InArticle(b) : j < k PROVE Ordered'
  <2> SUFFICES ASSUME NEW p \in DOMAIN inserted', NEW q \in DOMAIN inserted', p < q,
                      inserted'[p][1] = inserted'[q][1]
               PROVE  inserted'[p][2] < inserted'[q][2]
    BY DEF Ordered
  <2>1. p \in DOMAIN inserted
    BY <1>1, <1>2
  <2>2. CASE q \in DOMAIN inserted
    BY <1>2, <1>5, <2>1, <2>2 DEF Ordered
  <2>3. CASE q = Len(inserted) + 1
    <3>1. inserted[p][1] = b /\ inserted'[q][2] = k
      BY <1>2, <2>1, <2>3
    <3>2. inserted[p][2] \in InArticle(b)
      BY <2>1, <3>1 DEF InArticle
    <3> QED
      BY <1>2, <1>5, <2>1, <3>1, <3>2
  <2> QED
    BY <1>2, <2>2, <2>3
<1> QED
  BY <1>3, <1>4, <1>5

--------------------
(* The types. *)

LEMMA UploadsTypeAtFirst == UploadsInit => UploadsTypeOK
<1> SUFFICES ASSUME UploadsInit PROVE UploadsTypeOK
  OBVIOUS
<1> USE UploadsAssumption DEF UploadsInit, UploadsTypeOK
<1>1. <<>> \in [1 .. 0 -> Sort \ {"path"}] /\ 0 \in 0 .. MaxFiles
  OBVIOUS
<1>2. <<>> \in Batches
  BY <1>1 DEF Batches
<1>3. files \in [Batch -> Batches]
  BY <1>2
<1>4. inserted \in Seq(Batch \X (1 .. MaxFiles))
  OBVIOUS
<1>5. next \in [Batch -> 1 .. MaxFiles + 1] /\ ended \in [Batch -> 0 .. 1] /\ moves \in 0 .. MaxMoves
  OBVIOUS
<1>6. at \in [Batch -> At]
  BY DEF At
<1> QED
  BY <1>3, <1>4, <1>5, <1>6

\* Once it has ended nothing of a batch happens any more.
LEMMA TypeOfUpload ==
    ASSUME UploadsTypeOK, SignMeansWork, NEW b \in Batch, at[b] # "over", NEW fs \in Batches,
           NEW n \in 1 .. MaxFiles + 1, NEW isInside \in BOOLEAN, Upload(b, fs, n, isInside)
    PROVE  /\ files' \in [Batch -> Batches] /\ next' \in [Batch -> 1 .. MaxFiles + 1]
           /\ at' \in [Batch -> At] /\ ended' \in [Batch -> 0 .. 1]
<1> USE UploadsAssumption DEF UploadsTypeOK
<1>1. n \in Nat \ {0}
  OBVIOUS
<1>2. n \in DOMAIN fs => n + 1 \in 1 .. MaxFiles + 1
  BY BatchIsSeq
<1>3. /\ files' = [files EXCEPT ![b] = fs]
      /\ \/ /\ n \in DOMAIN fs /\ fs[n] # "other"
            /\ \E a \in Going : at' = [at EXCEPT ![b] = a]
            /\ next' = [next EXCEPT ![b] = n + 1]
            /\ UNCHANGED ended
         \/ /\ Callback(b)
            /\ \/ n \in DOMAIN fs /\ next' = [next EXCEPT ![b] = n + 1]
               \/ n > Len(fs) /\ next' = [next EXCEPT ![b] = n]
  BY <1>1, UploadCases
<1>4. next' \in [Batch -> 1 .. MaxFiles + 1] /\ files' \in [Batch -> Batches]
  BY <1>2, <1>3
<1>5. ended[b] = 0
  BY DEF SignMeansWork
<1>6. CASE (\E a \in Going : at' = [at EXCEPT ![b] = a]) /\ UNCHANGED ended
  BY <1>4, <1>6 DEF At, Going
<1>7. CASE Callback(b)
  <2>1. at' = [at EXCEPT ![b] = "over"] /\ ended' = [ended EXCEPT ![b] = 1]
    BY <1>5, <1>7 DEF Callback
  <2> QED
    BY <1>4, <2>1 DEF At
<1> QED
  BY <1>3, <1>6, <1>7

\* A step of one batch that leaves it at work, and its files and the article alone.
LEMMA StillAtWork ==
    ASSUME UploadsInv, NEW b \in Batch, b \in Working,
           NEW a \in {"decoding", "undecodable", "posting", "hanging", "broken"},
           at' = [at EXCEPT ![b] = a],
           UNCHANGED <<files, next, inside, inserted, ended, handle, moves>>
    PROVE  UploadsInv'
<1>1. UploadsTypeOK'
  BY DEF UploadsInv, UploadsTypeOK, At
<1>2. \A c \in Batch : /\ at'[c] = "over" <=> at[c] = "over"
                       /\ at'[c] = "unbegun" <=> at[c] = "unbegun"
  BY DEF UploadsInv, UploadsTypeOK, Working
<1>3. Working' = Working /\ \A c \in Batch : InArticle(c)' = InArticle(c)
  BY <1>2 DEF Working, InArticle
<1>4. SignMeansWork'
  BY <1>2, <1>3 DEF UploadsInv, SignMeansWork
<1>5. AtAnImage'
  BY <1>2, <1>3 DEF UploadsInv, AtAnImage
<1>6. InsertedInOrder'
  BY <1>2, <1>3 DEF UploadsInv, InsertedInOrder
<1> QED
  BY <1>1, <1>4, <1>5, <1>6 DEF UploadsInv

\* What the sign says when a batch calls back, or goes on while the sign is turned on or
\* left as it is.
LEMMA SignAfterCallback ==
    ASSUME UploadsTypeOK, SignMeansWork, NEW b \in Batch, at[b] # "over", Callback(b)
    PROVE  SignMeansWork'
<1>1. ended[b] = 0
  BY DEF SignMeansWork
<1>2. /\ ended' = [ended EXCEPT ![b] = 1] /\ at' = [at EXCEPT ![b] = "over"]
      /\ handle' = FALSE
  BY <1>1 DEF Callback
<1>3. \A c \in Batch : ended'[c] = IF at'[c] = "over" THEN 1 ELSE 0
  BY <1>2 DEF SignMeansWork, UploadsTypeOK
<1>4. at'[b] = "over"
  BY <1>2 DEF UploadsTypeOK
<1> QED
  BY <1>2, <1>3, <1>4 DEF SignMeansWork

LEMMA SignAfterNext ==
    ASSUME UploadsTypeOK, SignMeansWork, NEW b \in Batch, at[b] # "over",
           NEW a \in Going, at' = [at EXCEPT ![b] = a], UNCHANGED ended,
           handle' = TRUE \/ (UNCHANGED handle /\ b \in Working)
    PROVE  SignMeansWork'
<1>1. \A c \in Batch : at'[c] = "over" <=> at[c] = "over"
  BY DEF UploadsTypeOK, Going
<1>2. b \in Working'
  BY DEF UploadsTypeOK, Working, Going
<1>3. Working' # {} /\ ~handle' => \E c \in Batch : at'[c] = "over"
  BY <1>1 DEF SignMeansWork
<1> QED
  BY <1>1, <1>2, <1>3 DEF SignMeansWork

\* The other batches do not notice what happens to one.
LEMMA OthersStay ==
    ASSUME UploadsInv, NEW b \in Batch, NEW c \in Batch, c # b,
           NEW u, NEW y, NEW z,
           files' = [files EXCEPT ![b] = u], next' = [next EXCEPT ![b] = y],
           at' = [at EXCEPT ![b] = z], InArticle(c)' = InArticle(c)
    PROVE  /\ c \in Working' => next'[c] - 1 \in DOMAIN files'[c] /\ files'[c][next'[c] - 1] # "other"
           /\ at'[c] = "unbegun" => InArticle(c)' = {}
           /\ HoldsFirst(c)'
<1>1. files'[c] = files[c] /\ next'[c] = next[c] /\ at'[c] = at[c]
  BY DEF UploadsInv, UploadsTypeOK
<1>2. c \in Working' <=> c \in Working
  BY <1>1 DEF Working
<1> QED
  BY <1>1, <1>2 DEF UploadsInv, AtAnImage, InsertedInOrder, HoldsFirst

--------------------
(* The actions. *)

\* A batch that ends has put in what it had got to.
LEMMA RefusedKeeps == ASSUME UploadsInv, NEW b \in Batch, Refused(b) PROVE UploadsInv'
<1> USE UploadsAssumption
<1>1. /\ at[b] = "posting" /\ Callback(b)
      /\ UNCHANGED <<files, next, inside, inserted, moves>>
  BY DEF Refused
<1>2. SignMeansWork'
  BY <1>1, SignAfterCallback DEF UploadsInv
<1>3. ended[b] = 0
  BY <1>1 DEF UploadsInv, SignMeansWork
<1>4. at' = [at EXCEPT ![b] = "over"] /\ ended' = [ended EXCEPT ![b] = 1] /\ handle' = FALSE
  BY <1>1, <1>3 DEF Callback
<1>5. UploadsTypeOK'
  <2>1. at' \in [Batch -> At]
    BY <1>4 DEF UploadsInv, UploadsTypeOK, At
  <2>2. ended' \in [Batch -> 0 .. 1]
    BY <1>4 DEF UploadsInv, UploadsTypeOK
  <2> QED
    BY <1>1, <1>4, <2>1, <2>2 DEF UploadsInv, UploadsTypeOK
<1>6. \A c \in Batch : InArticle(c)' = InArticle(c)
  BY <1>1 DEF InArticle
<1>7. \A c \in Batch : c # b => /\ at'[c] = at[c]
                                /\ c \in Working' <=> c \in Working
  BY <1>4 DEF UploadsInv, UploadsTypeOK, Working
<1>8. at'[b] = "over" /\ b \notin Working' /\ b \in Working
  BY <1>1, <1>4 DEF UploadsInv, UploadsTypeOK, Working
<1>9. AtAnImage'
  BY <1>1, <1>6, <1>7, <1>8 DEF UploadsInv, AtAnImage
<1>10. HoldsFirst(b)'
  <2>1. next[b] - 1 \in DOMAIN files[b] /\ InArticle(b) = 1 .. next[b] - 2
    BY <1>8 DEF UploadsInv, AtAnImage, InsertedInOrder
  <2>2. DOMAIN files[b] = 1 .. Len(files[b]) /\ Len(files[b]) \in Nat /\ next[b] \in Nat
    BY BatchIsSeq DEF UploadsInv, UploadsTypeOK
  <2>3. next[b] - 2 \in 0 .. Len(files[b])
    BY <2>1, <2>2
  <2> QED
    BY <1>1, <1>6, <1>8, <2>1, <2>3 DEF UploadsInv, InsertedInOrder, HoldsFirst
<1>11. \A c \in Batch : HoldsFirst(c)'
  BY <1>1, <1>6, <1>7, <1>10 DEF UploadsInv, InsertedInOrder, HoldsFirst
<1>12. Ordered'
  BY <1>1 DEF UploadsInv, InsertedInOrder, Ordered
<1>13. InsertedInOrder'
  BY <1>11, <1>12 DEF InsertedInOrder, Ordered, HoldsFirst
<1> QED
  BY <1>2, <1>5, <1>9, <1>13 DEF UploadsInv

\* A batch begins at its first image, or is over with nothing put in.
LEMMA BeginKeeps == ASSUME UploadsInv, NEW b \in Batch, Begin(b) PROVE UploadsInv'
<1> USE UploadsAssumption
<1>1. PICK fs \in Batches : Upload(b, fs, 1, inside)
  BY DEF Begin
<1>2. /\ at[b] = "unbegun" /\ (at'[b] # "over" => handle' = TRUE)
      /\ UNCHANGED <<inside, inserted, moves>>
  BY DEF Begin
<1>3. /\ files' \in [Batch -> Batches] /\ next' \in [Batch -> 1 .. MaxFiles + 1]
      /\ at' \in [Batch -> At] /\ ended' \in [Batch -> 0 .. 1]
  <2>1. 1 \in 1 .. MaxFiles + 1 /\ inside \in BOOLEAN /\ at[b] # "over"
    BY <1>2 DEF UploadsInv, UploadsTypeOK
  <2> QED
    BY <1>1, <2>1, TypeOfUpload DEF UploadsInv
<1>4. /\ files' = [files EXCEPT ![b] = fs]
      /\ \/ /\ 1 \in DOMAIN fs /\ fs[1] # "other"
            /\ \E a \in Going : at' = [at EXCEPT ![b] = a]
            /\ next' = [next EXCEPT ![b] = 1 + 1]
            /\ UNCHANGED ended
         \/ /\ Callback(b)
            /\ \E n \in {1, 2} : next' = [next EXCEPT ![b] = n]
  <2>1. inside \in BOOLEAN /\ 1 \in Nat \ {0}
    BY DEF UploadsInv, UploadsTypeOK
  <2> QED
    BY <1>1, <2>1, UploadCases
<1>5. \A c \in Batch : InArticle(c)' = InArticle(c)
  BY <1>2 DEF InArticle
<1>6. InArticle(b) = {} /\ files'[b] = fs
  BY <1>2, <1>4 DEF UploadsInv, AtAnImage, UploadsTypeOK
<1>7. Ordered'
  BY <1>2 DEF UploadsInv, InsertedInOrder, Ordered
<1>8. CASE Callback(b)
  <2>1. /\ at' = [at EXCEPT ![b] = "over"] /\ handle' = FALSE
    BY <1>8 DEF Callback
  <2>2. PICK n : next' = [next EXCEPT ![b] = n]
    BY <1>4, <1>8
  <2>3. SignMeansWork'
    BY <1>2, <1>8, SignAfterCallback DEF UploadsInv
  <2>4. UploadsTypeOK'
    BY <1>2, <1>3, <2>1 DEF UploadsInv, UploadsTypeOK
  <2>5. at'[b] = "over" /\ b \notin Working'
    BY <2>1 DEF UploadsInv, UploadsTypeOK, Working
  <2>6. HoldsFirst(b)'
    <3>1. Len(fs) \in Nat /\ 0 \in 0 .. Len(fs) /\ 1 .. 0 = {}
      BY BatchIsSeq
    <3> QED
      BY <1>5, <1>6, <2>5, <3>1 DEF HoldsFirst
  <2>7. \A c \in Batch : c # b =>
            /\ c \in Working' => next'[c] - 1 \in DOMAIN files'[c] /\ files'[c][next'[c] - 1] # "other"
            /\ at'[c] = "unbegun" => InArticle(c)' = {}
            /\ HoldsFirst(c)'
    BY <1>4, <1>5, <2>1, <2>2, OthersStay
  <2>8. AtAnImage'
    BY <2>5, <2>7 DEF AtAnImage
  <2>9. InsertedInOrder'
    BY <1>7, <2>6, <2>7 DEF InsertedInOrder, Ordered, HoldsFirst
  <2> QED
    BY <2>3, <2>4, <2>8, <2>9 DEF UploadsInv
<1>9. CASE /\ 1 \in DOMAIN fs /\ fs[1] # "other"
           /\ \E a \in Going : at' = [at EXCEPT ![b] = a]
           /\ next' = [next EXCEPT ![b] = 1 + 1]
           /\ UNCHANGED ended
  <2>0. PICK a \in Going : at' = [at EXCEPT ![b] = a]
    BY <1>9
  <2>1. at'[b] \in Going /\ at'[b] # "over" /\ next'[b] = 2 /\ b \in Working'
    BY <1>9, <2>0 DEF UploadsInv, UploadsTypeOK, Working, Going
  <2>2. handle' = TRUE
    BY <1>2, <2>1
  <2>3. SignMeansWork'
    BY <1>2, <1>9, <2>0, <2>2, SignAfterNext DEF UploadsInv
  <2>4. UploadsTypeOK'
    BY <1>2, <1>3, <2>2 DEF UploadsInv, UploadsTypeOK
  <2>5. HoldsFirst(b)'
    BY <1>5, <1>6, <2>1 DEF HoldsFirst
  <2>6. \A c \in Batch : c # b =>
            /\ c \in Working' => next'[c] - 1 \in DOMAIN files'[c] /\ files'[c][next'[c] - 1] # "other"
            /\ at'[c] = "unbegun" => InArticle(c)' = {}
            /\ HoldsFirst(c)'
    <3>1. PICK y : next' = [next EXCEPT ![b] = y]
      BY <1>9
    <3>2. files' = [files EXCEPT ![b] = fs]
      BY <1>4
    <3> QED
      BY <1>5, <2>0, <3>1, <3>2, OthersStay
  <2>7. AtAnImage'
    <3>1. at'[b] # "unbegun" /\ next'[b] - 1 \in DOMAIN files'[b] /\ files'[b][next'[b] - 1] # "other"
      BY <1>6, <1>9, <2>1 DEF Going
    <3> QED
      BY <2>6, <3>1 DEF AtAnImage
  <2>8. InsertedInOrder'
    BY <1>7, <2>5, <2>6 DEF InsertedInOrder, Ordered, HoldsFirst
  <2> QED
    BY <2>3, <2>4, <2>7, <2>8 DEF UploadsInv
<1> QED
  BY <1>4, <1>8, <1>9

\* The image of a batch is put in behind those it had, and the next one is taken.
LEMMA StoredKeeps == ASSUME UploadsInv, NEW b \in Batch, Stored(b) PROVE UploadsInv'
<1> USE UploadsAssumption
<1> DEFINE fs == files[b]
           n  == next[b]
<1>1. /\ at[b] = "posting" /\ inside' = TRUE /\ UNCHANGED moves
      /\ inserted' = Append(inserted, <<b, n - 1>>)
      /\ Upload(b, fs, n, TRUE)
      /\ at'[b] # "over" => UNCHANGED handle
  BY DEF Stored
<1>2. /\ fs \in Batches /\ n \in 1 .. MaxFiles + 1 /\ n \in Nat \ {0}
      /\ Len(fs) \in 0 .. MaxFiles /\ DOMAIN fs = 1 .. Len(fs)
  BY BatchIsSeq DEF UploadsInv, UploadsTypeOK
<1>3. b \in Working
  BY <1>1 DEF Working
<1>4. n - 1 \in DOMAIN fs /\ fs[n - 1] # "other" /\ InArticle(b) = 1 .. n - 2
  BY <1>3 DEF UploadsInv, AtAnImage, InsertedInOrder
<1>5. n - 1 \in 1 .. MaxFiles /\ n - 1 \in 1 .. Len(fs)
  BY <1>2, <1>4
<1>6. /\ InArticle(b)' = 1 .. n - 1
      /\ \A c \in Batch : c # b => InArticle(c)' = InArticle(c)
      /\ Ordered'
  <2>1. /\ InArticle(b)' = InArticle(b) \cup {n - 1}
        /\ \A c \in Batch : c # b => InArticle(c)' = InArticle(c)
        /\ (Ordered /\ \A j \in InArticle(b) : j < n - 1) => Ordered'
    BY <1>1, <1>5, PlaceAdded DEF UploadsInv
  <2>2. (1 .. n - 2) \cup {n - 1} = 1 .. n - 1 /\ \A j \in 1 .. n - 2 : j < n - 1
    BY <1>2, <1>5
  <2> QED
    BY <1>4, <2>1, <2>2 DEF UploadsInv, InsertedInOrder, Ordered
<1>7. \A k \in 1 .. n - 1 : k \in DOMAIN fs /\ fs[k] # "other"
  <2>1. \A k \in 1 .. n - 2 : k \in DOMAIN fs /\ fs[k] # "other"
    BY <1>4 DEF UploadsInv, InsertedInOrder
  <2>2. \A k \in 1 .. n - 1 : k \in 1 .. n - 2 \/ k = n - 1
    BY <1>2
  <2> QED
    BY <1>4, <2>1, <2>2
<1>8. /\ files' \in [Batch -> Batches] /\ next' \in [Batch -> 1 .. MaxFiles + 1]
      /\ at' \in [Batch -> At] /\ ended' \in [Batch -> 0 .. 1]
  BY <1>1, <1>2, TypeOfUpload DEF UploadsInv
<1>9. /\ files' = [files EXCEPT ![b] = fs]
      /\ \/ /\ n \in DOMAIN fs /\ fs[n] # "other"
            /\ \E a \in Going : at' = [at EXCEPT ![b] = a]
            /\ next' = [next EXCEPT ![b] = n + 1]
            /\ UNCHANGED ended
         \/ /\ Callback(b)
            /\ \E m \in {n, n + 1} : next' = [next EXCEPT ![b] = m]
  <2>1. TRUE \in BOOLEAN
    OBVIOUS
  <2>2. fs \in Batches /\ n \in Nat \ {0} /\ Upload(b, fs, n, TRUE)
    BY <1>1, <1>2
  <2> HIDE DEF fs, n
  <2>3. /\ files' = [files EXCEPT ![b] = fs]
        /\ \/ /\ n \in DOMAIN fs /\ fs[n] # "other"
              /\ \E a \in Going : at' = [at EXCEPT ![b] = a]
              /\ next' = [next EXCEPT ![b] = n + 1]
              /\ UNCHANGED ended
           \/ /\ Callback(b)
              /\ \/ n \in DOMAIN fs /\ next' = [next EXCEPT ![b] = n + 1]
                 \/ n > Len(fs) /\ next' = [next EXCEPT ![b] = n]
    BY <2>1, <2>2, UploadCases
  <2> QED
    BY <2>3
<1>10. inserted' \in Seq(Batch \X (1 .. MaxFiles))
  <2>1. <<b, n - 1>> \in Batch \X (1 .. MaxFiles)
    BY <1>5
  <2> QED
    BY <1>1, <2>1 DEF UploadsInv, UploadsTypeOK
<1>11. files'[b] = fs
  BY <1>9 DEF UploadsInv, UploadsTypeOK
<1> HIDE DEF fs, n
<1>12. CASE Callback(b)
  <2>1. /\ at' = [at EXCEPT ![b] = "over"] /\ handle' = FALSE
    BY <1>12 DEF Callback
  <2>2. PICK m : next' = [next EXCEPT ![b] = m]
    BY <1>9, <1>12 DEF UploadsInv, UploadsTypeOK
  <2>3. SignMeansWork'
    BY <1>1, <1>12, SignAfterCallback DEF UploadsInv
  <2>4. UploadsTypeOK'
    BY <1>1, <1>8, <1>10, <2>1 DEF UploadsInv, UploadsTypeOK
  <2>5. at'[b] = "over" /\ b \notin Working'
    BY <2>1 DEF UploadsInv, UploadsTypeOK, Working
  <2>6. HoldsFirst(b)'
    <3>1. n - 1 \in 0 .. Len(fs)
      BY <1>2, <1>5
    <3> QED
      BY <1>6, <1>7, <1>11, <2>5, <3>1 DEF HoldsFirst
  <2>7. \A c \in Batch : c # b =>
            /\ c \in Working' => next'[c] - 1 \in DOMAIN files'[c] /\ files'[c][next'[c] - 1] # "other"
            /\ at'[c] = "unbegun" => InArticle(c)' = {}
            /\ HoldsFirst(c)'
    BY <1>6, <1>9, <2>1, <2>2, OthersStay
  <2>8. AtAnImage'
    BY <2>5, <2>7 DEF AtAnImage
  <2>9. InsertedInOrder'
    BY <1>6, <2>6, <2>7 DEF InsertedInOrder, Ordered, HoldsFirst
  <2> QED
    BY <2>3, <2>4, <2>8, <2>9 DEF UploadsInv
<1>13. CASE /\ n \in DOMAIN fs /\ fs[n] # "other"
            /\ \E a \in Going : at' = [at EXCEPT ![b] = a]
            /\ next' = [next EXCEPT ![b] = n + 1]
            /\ UNCHANGED ended
  <2>0. PICK a \in Going : at' = [at EXCEPT ![b] = a]
    BY <1>13
  <2>1. at'[b] \notin {"over", "unbegun"} /\ next'[b] = n + 1 /\ b \in Working'
    BY <1>13, <2>0 DEF UploadsInv, UploadsTypeOK, Working, Going
  <2>2. UNCHANGED handle
    BY <1>1, <2>1
  <2>3. SignMeansWork'
    BY <1>1, <1>3, <1>13, <2>0, <2>2, SignAfterNext DEF UploadsInv
  <2>4. UploadsTypeOK'
    BY <1>1, <1>8, <1>10, <2>2 DEF UploadsInv, UploadsTypeOK
  <2>5. next'[b] - 1 = n /\ next'[b] - 2 = n - 1
    BY <1>2, <2>1
  <2>6. HoldsFirst(b)'
    <3>1. at'[b] # "over"
      BY <2>1
    <3> QED
      BY <1>6, <1>7, <1>11, <2>5, <3>1 DEF HoldsFirst
  <2>7. \A c \in Batch : c # b =>
            /\ c \in Working' => next'[c] - 1 \in DOMAIN files'[c] /\ files'[c][next'[c] - 1] # "other"
            /\ at'[c] = "unbegun" => InArticle(c)' = {}
            /\ HoldsFirst(c)'
    BY <1>6, <1>9, <1>13, <2>0, OthersStay
  <2>8. AtAnImage'
    <3>1. next'[b] - 1 \in DOMAIN files'[b] /\ files'[b][next'[b] - 1] # "other"
      BY <1>11, <1>13, <2>5
    <3>2. at'[b] # "unbegun"
      BY <2>1
    <3> QED
      BY <2>7, <3>1, <3>2 DEF AtAnImage
  <2>9. InsertedInOrder'
    BY <1>6, <2>6, <2>7 DEF InsertedInOrder, Ordered, HoldsFirst
  <2> QED
    BY <2>3, <2>4, <2>8, <2>9 DEF UploadsInv
<1> QED
  BY <1>9, <1>12, <1>13

--------------------

LEMMA UploadsInvAtFirst == UploadsInit => UploadsInv
<1> SUFFICES ASSUME UploadsInit PROVE UploadsInv
  OBVIOUS
<1>1. UploadsTypeOK
  BY UploadsTypeAtFirst
<1>2. \A b \in Batch : InArticle(b) = {} /\ at[b] = "unbegun" /\ b \notin Working
  <2>1. inserted = <<>> /\ DOMAIN inserted = {}
    BY DEF UploadsInit
  <2> QED
    BY <2>1 DEF UploadsInit, InArticle, Working
<1>3. SignMeansWork /\ AtAnImage
  BY <1>2 DEF UploadsInit, SignMeansWork, AtAnImage, Working
<1>4. InsertedInOrder
  <2>1. DOMAIN inserted = {}
    BY DEF UploadsInit
  <2> QED
    BY <1>2, <2>1 DEF InsertedInOrder
<1> QED
  BY <1>1, <1>3, <1>4 DEF UploadsInv

\* Where the author is does not matter to what is kept.
LEMMA Undisturbed ==
    ASSUME UploadsInv, UNCHANGED <<files, next, at, inserted, ended, handle>>,
           inside' \in BOOLEAN, moves' \in 0 .. MaxMoves
    PROVE  UploadsInv'
<1>1. Working' = Working /\ \A b \in Batch : InArticle(b)' = InArticle(b)
  BY DEF Working, InArticle
<1>2. UploadsTypeOK'
  BY DEF UploadsInv, UploadsTypeOK
<1>3. SignMeansWork'
  BY <1>1 DEF UploadsInv, SignMeansWork
<1>4. AtAnImage'
  BY <1>1 DEF UploadsInv, AtAnImage
<1>5. InsertedInOrder'
  BY <1>1 DEF UploadsInv, InsertedInOrder
<1> QED
  BY <1>2, <1>3, <1>4, <1>5 DEF UploadsInv

LEMMA UploadsInvStep == UploadsInv /\ [UploadsNext]_uploadVars => UploadsInv'
<1> SUFFICES ASSUME UploadsInv, [UploadsNext]_uploadVars PROVE UploadsInv'
  OBVIOUS
<1>1. CASE Move
  <2>1. moves' \in 0 .. MaxMoves /\ inside' \in BOOLEAN
    BY <1>1, UploadsAssumption DEF Move, UploadsInv, UploadsTypeOK
  <2> QED
    BY <1>1, <2>1, Undisturbed DEF Move
<1>2. ASSUME NEW b \in Batch, Begin(b) PROVE UploadsInv'
  BY <1>2, BeginKeeps
<1>3. ASSUME NEW b \in Batch, Stored(b) PROVE UploadsInv'
  BY <1>3, StoredKeeps
<1>4. ASSUME NEW b \in Batch, Refused(b) PROVE UploadsInv'
  BY <1>4, RefusedKeeps
<1>5. ASSUME NEW b \in Batch, Decoded(b) \/ Undecodable(b) \/ Linkless(b) \/ Hang(b) PROVE UploadsInv'
  <2>1. /\ \E a \in {"decoding", "undecodable", "posting", "hanging", "broken"} : at' = [at EXCEPT ![b] = a]
        /\ UNCHANGED <<files, next, inside, inserted, ended, handle, moves>>
        /\ b \in Working
    BY <1>5 DEF Decoded, Undecodable, Linkless, Hang, Working
  <2> QED
    BY <2>1, StillAtWork
<1>6. CASE UNCHANGED uploadVars
  BY <1>6, Undisturbed DEF uploadVars, UploadsInv, UploadsTypeOK
<1> QED
  BY <1>1, <1>2, <1>3, <1>4, <1>5, <1>6 DEF UploadsNext

LEMMA UploadsInvHolds == UploadsSpec => []UploadsInv
  BY UploadsInvAtFirst, UploadsInvStep, PTL DEF UploadsSpec

\* Batches, places and calls back stay what they are said to be; none calls back twice
\* (main.js 639-714).
THEOREM UploadsTypeCorrect == UploadsSpec => []UploadsTypeOK
<1>1. UploadsInv => UploadsTypeOK
  BY DEF UploadsInv
<1> QED
  BY <1>1, UploadsInvHolds, PTL

\* However many batches mix: each has its first images in the article, in order, each
\* once, and nothing that is no image (main.js 642-666, 694-702).
THEOREM ImagesComeInOrder == UploadsSpec => []InsertedInOrder
<1>1. UploadsInv => InsertedInOrder
  BY DEF UploadsInv
<1> QED
  BY <1>1, UploadsInvHolds, PTL

\* However many batches mix: the sign never turns without work, and stands still while
\* there is work only because a batch has ended (main.js 639-714, 873-901).
THEOREM SignIsHonest == UploadsSpec => []SignMeansWork
<1>1. UploadsInv => SignMeansWork
  BY DEF UploadsInv
<1> QED
  BY <1>1, UploadsInvHolds, PTL

--------------------
(* Gallery: what is shown is what was asked for last, once it has come. *)

LoadState == {"loading", "loaded", "failed"}
LoadOfPage  == [page : Page, state : LoadState]

\* What came of a load is noted at its place and changes nothing else.
NotedAt(ls, l, st, new) ==
    /\ new \in Seq(LoadOfPage) /\ Len(new) = Len(ls)
    /\ \A m \in DOMAIN ls : /\ new[m].page = ls[m].page
                            /\ new[m].state = IF m = l THEN st ELSE ls[m].state

LEMMA LoadNoted ==
    ASSUME NEW ls \in Seq(LoadOfPage), NEW l \in DOMAIN ls, NEW st \in LoadState
    PROVE  NotedAt(ls, l, st, [ls EXCEPT ![l].state = st])
<1> DEFINE new == [ls EXCEPT ![l].state = st]
<1>1. \A m \in DOMAIN ls : ls[m] \in LoadOfPage
  OBVIOUS
<1>2. \A m \in DOMAIN ls : new[m] = IF m = l THEN [ls[m] EXCEPT !.state = st] ELSE ls[m]
  OBVIOUS
<1>3. \A m \in DOMAIN ls : new[m] \in LoadOfPage
  BY <1>1, <1>2 DEF LoadOfPage
<1>4. new = [m \in 1 .. Len(ls) |-> new[m]]
  OBVIOUS
<1> HIDE DEF new
<1>5. new \in Seq(LoadOfPage) /\ Len(new) = Len(ls)
  <2>1. Len(ls) \in Nat /\ DOMAIN ls = 1 .. Len(ls)
    OBVIOUS
  <2>2. new \in [1 .. Len(ls) -> LoadOfPage]
    BY <1>3, <1>4, <2>1
  <2> QED
    BY <2>1, <2>2
<1>6. \A m \in DOMAIN ls : /\ new[m].page = ls[m].page
                           /\ new[m].state = IF m = l THEN st ELSE ls[m].state
  BY <1>1, <1>2 DEF LoadOfPage
<1>7. NotedAt(ls, l, st, new)
  BY <1>5, <1>6 DEF NotedAt
<1> QED
  BY <1>7 DEF new

\* What is asked for next stands behind what was asked for before.
LEMMA LoadAsked ==
    ASSUME NEW ls \in Seq(LoadOfPage), NEW p \in Page,
           NEW new, new = Append(ls, [page |-> p, state |-> "loading"])
    PROVE  /\ new \in Seq(LoadOfPage) /\ Len(new) = Len(ls) + 1
           /\ new[Len(new)] = [page |-> p, state |-> "loading"]
           /\ \A m \in DOMAIN ls : new[m] = ls[m]
<1>1. [page |-> p, state |-> "loading"] \in LoadOfPage
  BY DEF LoadOfPage, LoadState
<1> QED
  BY <1>1

--------------------
(* The sign is displayed only behind a last load that has not come: that   *)
(* is what makes it stay for nothing but a failure.                        *)

ShowsIndex ==
    loads # <<>> /\ LastLoad.state = "loaded" =>
        index \in black /\ shown \in black /\ (~late => shown = index)

SignBehindLast == loadingSign => loads # <<>> /\ LastLoad.state # "loaded"

GalleryInv == GalleryTypeOK /\ AsksForIndex /\ ShowsIndex /\ SignBehindLast

LEMMA GalleryInvAtFirst == GalleryInit => GalleryInv
<1> SUFFICES ASSUME GalleryInit PROVE GalleryInv
  OBVIOUS
<1>1. loads = <<>> /\ DOMAIN loads = {} /\ loads \in Seq(LoadOfPage)
  BY DEF GalleryInit
<1>2. GalleryTypeOK
  BY <1>1 DEF GalleryInit, GalleryTypeOK, NoPage, LoadOfPage, LoadState
<1> QED
  BY <1>1, <1>2 DEF GalleryInit, GalleryInv, AsksForIndex, ShowsIndex, SignBehindLast

\* Every Goto of an article with images.
LEMMA GotoKeeps ==
    ASSUME GalleryInv, NEW p \in Int, images > 0, gallery' \in BOOLEAN, Goto(p)
    PROVE  GalleryInv'
<1> USE GalleryAssumption
<1>1. Cut(p) \in 0 .. images - 1 /\ Cut(p) \in Page
  BY DEF GalleryInv, GalleryTypeOK, Cut, Page
<1>2. loads \in Seq(LoadOfPage)
  BY DEF GalleryInv, GalleryTypeOK, LoadOfPage, LoadState
<1>3. /\ loads' \in Seq(LoadOfPage) /\ Len(loads') = Len(loads) + 1
      /\ loads'[Len(loads')] = [page |-> Cut(p), state |-> "loading"]
      /\ \A m \in DOMAIN loads : loads'[m] = loads[m]
  BY <1>1, <1>2, LoadAsked DEF Goto
<1>4. /\ index' = Cut(p) /\ black' = {} /\ loadingSign' = TRUE /\ late' = FALSE
      /\ UNCHANGED <<images, shown>>
  BY DEF Goto
<1>5. GalleryTypeOK'
  BY <1>1, <1>3, <1>4 DEF GalleryInv, GalleryTypeOK, LoadOfPage, LoadState
<1>6. \A m \in DOMAIN loads' : m \in DOMAIN loads \/ m = Len(loads')
  BY <1>2, <1>3
<1>7. AsksForIndex'
  BY <1>1, <1>2, <1>3, <1>4, <1>6 DEF GalleryInv, AsksForIndex
<1>8. ShowsIndex' /\ SignBehindLast'
  BY <1>2, <1>3, <1>4 DEF ShowsIndex, SignBehindLast, LastLoad
<1> QED
  BY <1>5, <1>7, <1>8 DEF GalleryInv

\* An article whose gallery is displayed has images.
LEMMA GalleryHasImages == ASSUME GalleryInv, gallery PROVE images > 0
<1>1. loads \in Seq(LoadOfPage) /\ loads # <<>>
  BY DEF GalleryInv, GalleryTypeOK, AsksForIndex, LoadOfPage, LoadState
<1>2. 1 \in DOMAIN loads
  BY <1>1
<1> QED
  BY <1>2, GalleryAssumption DEF GalleryInv, GalleryTypeOK, AsksForIndex

\* An image comes: late says of it that one asked for later was there already.
LEMMA ImageLoadsKeeps ==
    ASSUME GalleryInv, NEW l \in DOMAIN loads, ImageLoads(l)
    PROVE  GalleryInv'
<1> USE GalleryAssumption
<1> DEFINE last == Len(loads)
<1>1. loads \in Seq(LoadOfPage) /\ last \in Nat /\ l \in 1 .. last /\ last \in DOMAIN loads
  BY DEF GalleryInv, GalleryTypeOK, LoadOfPage, LoadState
<1>2. /\ loads' \in Seq(LoadOfPage) /\ Len(loads') = last
      /\ \A m \in DOMAIN loads : /\ loads'[m].page = loads[m].page
                                 /\ loads'[m].state = IF m = l THEN "loaded" ELSE loads[m].state
  <2>1. loads' = [loads EXCEPT ![l].state = "loaded"]
    BY DEF ImageLoads, Arrived
  <2>2. "loaded" \in LoadState
    BY DEF LoadState
  <2>3. NotedAt(loads, l, "loaded", loads')
    BY <1>1, <2>1, <2>2, LoadNoted, Zenon
  <2> QED
    BY <2>3 DEF NotedAt
<1>3. /\ shown' = loads[l].page /\ black' = black \cup {loads[l].page}
      /\ loadingSign' = FALSE
      /\ late' = (late \/ \E m \in l + 1 .. last : loads[m].state = "loaded")
      /\ UNCHANGED <<images, gallery, index>>
  BY DEF ImageLoads
<1>4. loads[l].page \in Page
  <2>1. loads[l] \in LoadOfPage
    BY <1>1
  <2> QED
    BY <2>1 DEF LoadOfPage
<1>5. GalleryTypeOK'
  BY <1>2, <1>3, <1>4 DEF GalleryInv, GalleryTypeOK, LoadOfPage, LoadState
<1>6. DOMAIN loads' = DOMAIN loads /\ loads' # <<>> /\ loads # <<>>
  BY <1>1, <1>2
<1>7. AsksForIndex'
  BY <1>1, <1>2, <1>3, <1>6 DEF GalleryInv, AsksForIndex
<1>8. index = loads[last].page
  BY <1>6 DEF GalleryInv, AsksForIndex
<1>9. ShowsIndex'
  <2>1. CASE l = last
    BY <1>2, <1>3, <1>8, <2>1 DEF ShowsIndex, LastLoad
  <2>2. CASE l # last
    <3> SUFFICES ASSUME LastLoad.state' = "loaded"
                 PROVE  index' \in black' /\ shown' \in black' /\ late'
      BY DEF ShowsIndex
    <3>1. loads[last].state = "loaded"
      BY <1>1, <1>2, <2>2 DEF LastLoad
    <3>2. index \in black
      BY <1>6, <3>1 DEF GalleryInv, ShowsIndex, LastLoad
    <3>3. late'
      <4>1. last \in l + 1 .. last
        BY <1>1, <2>2
      <4> QED
        BY <1>3, <3>1, <4>1
    <3> QED
      BY <1>3, <3>2, <3>3
  <2> QED
    BY <2>1, <2>2
<1>10. SignBehindLast'
  BY <1>3 DEF SignBehindLast
<1> QED
  BY <1>5, <1>7, <1>9, <1>10 DEF GalleryInv

LEMMA ImageFailsKeeps ==
    ASSUME GalleryInv, NEW l \in DOMAIN loads, ImageFails(l)
    PROVE  GalleryInv'
<1> DEFINE last == Len(loads)
<1>1. loads \in Seq(LoadOfPage) /\ last \in DOMAIN loads
  BY DEF GalleryInv, GalleryTypeOK, LoadOfPage, LoadState
<1>2. /\ loads' \in Seq(LoadOfPage) /\ Len(loads') = last
      /\ \A m \in DOMAIN loads : /\ loads'[m].page = loads[m].page
                                 /\ loads'[m].state = IF m = l THEN "failed" ELSE loads[m].state
  <2>1. loads' = [loads EXCEPT ![l].state = "failed"]
    BY DEF ImageFails
  <2>2. "failed" \in LoadState
    BY DEF LoadState
  <2>3. NotedAt(loads, l, "failed", loads')
    BY <1>1, <2>1, <2>2, LoadNoted, Zenon
  <2> QED
    BY <2>3 DEF NotedAt
<1>3. UNCHANGED <<images, gallery, index, shown, black, loadingSign, late>>
  BY DEF ImageFails
<1>4. GalleryTypeOK'
  BY <1>2, <1>3 DEF GalleryInv, GalleryTypeOK, LoadOfPage, LoadState
<1>5. DOMAIN loads' = DOMAIN loads /\ loads' # <<>> /\ loads # <<>>
  BY <1>1, <1>2
<1>6. AsksForIndex'
  BY <1>1, <1>2, <1>3, <1>5 DEF GalleryInv, AsksForIndex
<1>7. loads'[last].state = "loaded" => loads[last].state = "loaded"
  BY <1>1, <1>2
<1>8. loads[last].state # "loaded" => loads'[last].state # "loaded"
  BY <1>7
<1>9. ShowsIndex' /\ SignBehindLast'
  BY <1>2, <1>3, <1>5, <1>7, <1>8 DEF GalleryInv, ShowsIndex, SignBehindLast, LastLoad
<1> QED
  BY <1>4, <1>6, <1>9 DEF GalleryInv

LEMMA GalleryInvStep == GalleryInv /\ [GalleryNext]_galleryVars => GalleryInv'
<1> SUFFICES ASSUME GalleryInv, [GalleryNext]_galleryVars PROVE GalleryInv'
  OBVIOUS
<1>1. index \in Int /\ images \in Nat
  BY GalleryAssumption DEF GalleryInv, GalleryTypeOK, Page
<1>2. CASE OpenGallery
  BY <1>2, GotoKeeps DEF OpenGallery
<1>3. CASE OpenNothing
  <2>1. loads = <<>>
    <3> SUFFICES ASSUME loads # <<>> PROVE FALSE
      OBVIOUS
    <3>1. 1 \in DOMAIN loads
      BY DEF GalleryInv, GalleryTypeOK
    <3> QED
      BY <1>3, <3>1 DEF OpenNothing, GalleryInv, AsksForIndex
  <2>2. index' = 0 /\ UNCHANGED <<images, gallery, loads, shown, black, loadingSign, late>>
    BY <1>3 DEF OpenNothing
  <2> QED
    BY <2>1, <2>2
       DEF GalleryInv, GalleryTypeOK, AsksForIndex, ShowsIndex, SignBehindLast
<1>4. CASE CloseGallery
  BY <1>4 DEF CloseGallery, GalleryInv, GalleryTypeOK, AsksForIndex, ShowsIndex, SignBehindLast, LastLoad
<1>5. ASSUME NEW p \in Int, Browse(p) PROVE GalleryInv'
  <2>1. images > 0 /\ gallery' \in BOOLEAN /\ Goto(p)
    BY <1>5, GalleryHasImages DEF Browse, GalleryInv, GalleryTypeOK
  <2> QED
    BY <2>1, GotoKeeps
<1>6. CASE Next_ \/ Prev_ \/ Reload \/ Pick
  BY <1>1, <1>5, <1>6 DEF Next_, Prev_, Reload, Pick
<1>7. CASE \E l \in DOMAIN loads : ImageLoads(l) \/ ImageFails(l)
  BY <1>7, ImageLoadsKeeps, ImageFailsKeeps
<1>8. CASE UNCHANGED galleryVars
  BY <1>8 DEF galleryVars, GalleryInv, GalleryTypeOK, AsksForIndex, ShowsIndex, SignBehindLast, LastLoad
<1> QED
  BY <1>2, <1>3, <1>4, <1>6, <1>7, <1>8 DEF GalleryNext

LEMMA GalleryInvHolds == GallerySpec => []GalleryInv
  BY GalleryInvAtFirst, GalleryInvStep, PTL DEF GallerySpec

\* Index, page shown and numbers stay pages of the article (main.js 763-869).
THEOREM GalleryTypeCorrect == GallerySpec => []GalleryTypeOK
<1>1. GalleryInv => GalleryTypeOK
  BY DEF GalleryInv
<1> QED
  BY <1>1, GalleryInvHolds, PTL

\* However many images are under way and in whatever order they come or fail: the one
\* shown in the end is the one the index says, unless an older one came after it, and
\* the sign stays for a failure only (main.js 823-869).
THEOREM ShownIsIndex == GallerySpec => []GalleryShowsIndex
<1>1. GalleryInv => GalleryShowsIndex
  <2> SUFFICES ASSUME GalleryInv PROVE GalleryShowsIndex
    OBVIOUS
  <2>1. loadingSign /\ Quiet => LastLoad.state = "failed"
    <3> SUFFICES ASSUME loadingSign, Quiet PROVE LastLoad.state = "failed"
      OBVIOUS
    <3>1. loads \in Seq(LoadOfPage) /\ Len(loads) \in DOMAIN loads /\ LastLoad.state # "loaded"
      BY DEF GalleryInv, GalleryTypeOK, SignBehindLast, LoadOfPage, LoadState
    <3>2. LastLoad \in LoadOfPage /\ LastLoad.state # "loading"
      BY <3>1 DEF Quiet, LastLoad
    <3> QED
      BY <3>1, <3>2 DEF LoadOfPage, LoadState
  <2> QED
    BY <2>1 DEF GalleryInv, ShowsIndex, GalleryShowsIndex
<1> QED
  BY <1>1, GalleryInvHolds, PTL

--------------------
(* NicEditor: only the selected instance is focused, and no edit is lost. *)

\* What selected and selectCheck leave focused and selected is of the right type, and
\* the selected one alone is focused if that was so.
LEMMA SelectedKeeps ==
    ASSUME NicTypeOK, FocusIsSelected, NEW ins \in made, Selected(ins)
    PROVE  /\ selectedInstance' = ins
           /\ isFocused' \subseteq made
           /\ \A j \in isFocused' : selectedInstance' = j
<1>1. selectedInstance' = ins
  BY DEF Selected
<1>2. CASE selectedInstance \in {ins, Nobody}
  <2>1. isFocused \subseteq {ins}
    BY <1>2, NicEditorAssumption DEF NicTypeOK, FocusIsSelected
  <2>2. isFocused' = isFocused \cup {ins}
    BY <1>2 DEF Selected
  <2> QED
    BY <1>1, <2>1, <2>2
<1>3. CASE selectedInstance \notin {ins, Nobody}
  <2>1. isFocused' = {ins}
    BY <1>3 DEF Selected, BlurAll, NicTypeOK
  <2> QED
    BY <1>1, <2>1
<1> QED
  BY <1>2, <1>3

LEMMA SelectCheckKeeps ==
    ASSUME NicTypeOK, FocusIsSelected, NEW under, SelectCheck(under)
    PROVE  /\ selectedInstance' \in made \cup {Nobody}
           /\ isFocused' \subseteq made
           /\ \A j \in isFocused' : selectedInstance' = j
<1>1. CASE under \in isFocused
  BY <1>1 DEF SelectCheck, NicTypeOK, FocusIsSelected
<1>2. CASE under \notin isFocused
  BY <1>2 DEF SelectCheck, BlurAll, NicTypeOK
<1> QED
  BY <1>1, <1>2

LEMMA NicTypeAtFirst == NicInit => NicTypeOK
  BY NicEditorAssumption
     DEF NicInit, NicTypeOK, Content, Blank

\* The types and the one focus are kept together: that another instance was selected
\* is what makes selected call blur, and made is what blur reaches.
LEMMA TypeAndFocusStep ==
    ASSUME NicTypeOK, FocusIsSelected, [NicNext]_nicVars
    PROVE  NicTypeOK' /\ FocusIsSelected'
<1> USE NicEditorAssumption
<1>1. ASSUME NEW ins \in Instance, AddInstance(ins)
      PROVE  NicTypeOK' /\ FocusIsSelected'
  <2>1. value[ElementOf(ins)] \in Content /\ Br \in Content
    BY DEF NicTypeOK, Content, Br
  <2>2. content' \in [Instance -> Content]
    BY <1>1, <2>1 DEF AddInstance, NicTypeOK
  <2>3. /\ nicInstances' = nicInstances \cup {ins} /\ made' = made \cup {ins}
        /\ editable' = editable \cup {ins} /\ isFocused' = isFocused \ {ins}
        /\ UNCHANGED <<selectedInstance, focus, value, edits, lastEdit>>
    BY <1>1 DEF AddInstance
  <2> QED
    BY <2>2, <2>3 DEF NicTypeOK, FocusIsSelected
<1>2. ASSUME NEW ins \in Instance, SaveContent(ins)
      PROVE  NicTypeOK' /\ FocusIsSelected'
  BY <1>2 DEF SaveContent, Instances, NicTypeOK, FocusIsSelected
<1>3. ASSUME NEW ins \in Instance, RemoveInstance(ins)
      PROVE  NicTypeOK' /\ FocusIsSelected'
  <2>1. isFocused' \subseteq isFocused
    BY <1>3 DEF RemoveInstance
  <2>2. value' \in [Element -> Content]
    BY <1>3 DEF RemoveInstance, NicTypeOK
  <2>3. focus' \in nicInstances' \cup {Nobody}
    BY <1>3 DEF RemoveInstance, NicTypeOK
  <2>4. /\ nicInstances' = nicInstances \ {ins} /\ editable' = editable \ {ins}
        /\ UNCHANGED <<made, selectedInstance, content, edits, lastEdit>>
    BY <1>3 DEF RemoveInstance
  <2> QED
    BY <2>1, <2>2, <2>3, <2>4 DEF NicTypeOK, FocusIsSelected
<1>4. ASSUME NEW ins \in Instance, RemoveThrows(ins)
      PROVE  NicTypeOK' /\ FocusIsSelected'
  BY <1>4 DEF RemoveThrows, nicVars, NicTypeOK, FocusIsSelected
<1>5. ASSUME NEW ins \in Instance, NEW ctrlKey \in BOOLEAN, MouseDown(ins, ctrlKey)
      PROVE  NicTypeOK' /\ FocusIsSelected'
  <2>1. UNCHANGED <<nicInstances, made, editable, focus, content, value, edits, lastEdit>>
    BY <1>5 DEF MouseDown, Instances, Contents
  <2>2. /\ selectedInstance' \in made \cup {Nobody} /\ isFocused' \subseteq made
        /\ \A j \in isFocused' : selectedInstance' = j
    <3>1. CASE ctrlKey
      BY <1>5, <3>1, SelectCheckKeeps DEF MouseDown
    <3>2. CASE ~ctrlKey
      <4>1. ins \in made /\ Selected(ins)
        BY <1>5, <3>2 DEF MouseDown, NicTypeOK
      <4> QED
        BY <4>1, SelectedKeeps
    <3> QED
      BY <3>1, <3>2
  <2> QED
    BY <2>1, <2>2 DEF NicTypeOK, FocusIsSelected
<1>6. ASSUME NEW ins \in Instance, NEW ctrlKey \in BOOLEAN, KeyUp(ins, ctrlKey)
      PROVE  NicTypeOK' /\ FocusIsSelected'
  <2>1. UNCHANGED <<nicInstances, made, editable, focus, content, value, edits, lastEdit>>
    BY <1>6 DEF KeyUp, Instances, Contents
  <2>2. /\ selectedInstance' \in made \cup {Nobody} /\ isFocused' \subseteq made
        /\ \A j \in isFocused' : selectedInstance' = j
    <3>1. CASE ctrlKey
      BY <1>6, <3>1 DEF KeyUp, NicTypeOK, FocusIsSelected
    <3>2. CASE ~ctrlKey
      <4>1. ins \in made /\ Selected(ins)
        BY <1>6, <3>2 DEF KeyUp, NicTypeOK
      <4> QED
        BY <4>1, SelectedKeeps
    <3> QED
      BY <3>1, <3>2
  <2> QED
    BY <2>1, <2>2 DEF NicTypeOK, FocusIsSelected
<1>7. ASSUME NEW ins \in Instance, FocusComes(ins)
      PROVE  NicTypeOK' /\ FocusIsSelected'
  <2>1. /\ ins \in made /\ Selected(ins) /\ focus' = ins /\ ins \in nicInstances
        /\ UNCHANGED <<nicInstances, made, editable, content, value, edits, lastEdit>>
    BY <1>7 DEF FocusComes, Instances, Contents, NicTypeOK
  <2>2. /\ selectedInstance' \in made /\ isFocused' \subseteq made
        /\ \A j \in isFocused' : selectedInstance' = j
    BY <2>1, SelectedKeeps
  <2> QED
    BY <2>1, <2>2 DEF NicTypeOK, FocusIsSelected
<1>8. ASSUME NEW ins \in Instance, Edit(ins)
      PROVE  NicTypeOK' /\ FocusIsSelected'
  <2>1. PICK c \in {Blank, edits' + 1} :
            /\ content' = [content EXCEPT ![ins] = c]
            /\ lastEdit' = [lastEdit EXCEPT ![ElementOf(ins)] = c]
    BY <1>8 DEF Edit
  <2>2. edits' \in 0 .. MaxEdits /\ c \in Content
    BY <1>8 DEF Edit, NicTypeOK, Content, Blank
  <2>3. content' \in [Instance -> Content] /\ lastEdit' \in [Element -> Content]
    BY <2>1, <2>2 DEF NicTypeOK
  <2>4. UNCHANGED <<nicInstances, made, editable, selectedInstance, isFocused, focus, value>>
    BY <1>8 DEF Edit
  <2> QED
    BY <2>2, <2>3, <2>4 DEF NicTypeOK, FocusIsSelected
<1>9. CASE MouseDownElsewhere
  <2>1. /\ SelectCheck(Nobody)
        /\ UNCHANGED <<nicInstances, made, editable, focus, content, value, edits, lastEdit>>
    BY <1>9 DEF MouseDownElsewhere, Instances, Contents
  <2>2. /\ selectedInstance' \in made \cup {Nobody} /\ isFocused' \subseteq made
        /\ \A j \in isFocused' : selectedInstance' = j
    BY <2>1, SelectCheckKeeps
  <2> QED
    BY <2>1, <2>2 DEF NicTypeOK, FocusIsSelected
<1>10. CASE FocusLeaves
  BY <1>10 DEF FocusLeaves, Instances, Contents, NicTypeOK, FocusIsSelected
<1>11. CASE UNCHANGED nicVars
  BY <1>11 DEF nicVars, NicTypeOK, FocusIsSelected
<1> QED
  BY <1>1, <1>2, <1>3, <1>4, <1>5, <1>6, <1>7, <1>8, <1>9, <1>10, <1>11 DEF NicNext

\* Every state of the editor is of its types, and only the selected instance is ever
\* focused, with any number of instances and in any order of events (editor.js 293-526).
LEMMA TypeAndFocus == NicSpec => [](NicTypeOK /\ FocusIsSelected)
<1>1. NicInit => NicTypeOK /\ FocusIsSelected
  BY NicTypeAtFirst DEF NicInit, FocusIsSelected
<1>2. (NicTypeOK /\ FocusIsSelected) /\ [NicNext]_nicVars => (NicTypeOK /\ FocusIsSelected)'
  BY TypeAndFocusStep
<1> QED
  BY <1>1, <1>2, PTL DEF NicSpec

\* The sets, elements and contents of the editor stay what they are said to be; in
\* particular what has the browser's focus can be edited (editor.js 293-430).
THEOREM NicTypeCorrect == NicSpec => []NicTypeOK
  BY TypeAndFocus, PTL

\* Whatever mousedown, focus, blur and keyup do in whatever order, no instance is focused
\* but the selected one (editor.js 342-353, 484-506).
THEOREM OnlySelectedIsFocused == NicSpec => []FocusIsSelected
  BY TypeAndFocus, PTL

--------------------
(* Contents.  An element's text is in its instance as long as it has one,  *)
(* and in the element afterwards; that no element has two instances, and   *)
(* that one that is no textarea never loses its own, is what keeps the two *)
(* apart.                                                                  *)

Free(e) == \A ins \in nicInstances : ElementOf(ins) # e

OneEach == \A ins, j \in nicInstances : ElementOf(ins) = ElementOf(j) => ins = j

ContentInv ==
    /\ OneEach
    /\ \A ins \in nicInstances : Keeps(content[ins], lastEdit[ElementOf(ins)])
    /\ \A e \in Element : Free(e) => Keeps(value[e], lastEdit[e])

LEMMA ContentAtFirst == NicInit => ContentInv
  BY DEF NicInit, ContentInv, OneEach, Free, Keeps

\* Most events only move the focus.
LEMMA ContentUntouched ==
    ASSUME ContentInv, UNCHANGED <<nicInstances, content, value, lastEdit>>
    PROVE  ContentInv'
  BY DEF ContentInv, OneEach, Free, Keeps

LEMMA ContentStep ==
    ASSUME NicTypeOK, ContentInv, [NicNext]_nicVars
    PROVE  ContentInv'
<1> USE NicEditorAssumption
<1>1. ASSUME NEW ins \in Instance, OneOfElement(ins) /\ AddInstance(ins)
      PROVE  ContentInv'
  <2> DEFINE v == value[ElementOf(ins)]
  <2>1. /\ nicInstances' = nicInstances \cup {ins} /\ ins \notin nicInstances
        /\ \A j \in nicInstances : ElementOf(j) # ElementOf(ins)
        /\ UNCHANGED <<value, lastEdit>>
        /\ content' = [content EXCEPT ![ins] = IF v = Blank THEN Br ELSE v]
    BY <1>1 DEF OneOfElement, AddInstance, NicTypeOK
  <2>2. OneEach'
    BY <2>1 DEF OneEach, ContentInv
  <2>3. Keeps(v, lastEdit[ElementOf(ins)])
    BY <2>1 DEF ContentInv, Free
  <2>4. Keeps(content'[ins], lastEdit'[ElementOf(ins)])
    BY <2>1, <2>3 DEF Keeps, NicTypeOK, Blank, Br
  <2>5. \A j \in nicInstances : content'[j] = content[j]
    BY <2>1 DEF NicTypeOK
  <2>6. \A j \in nicInstances' : Keeps(content'[j], lastEdit'[ElementOf(j)])
    BY <2>1, <2>4, <2>5 DEF ContentInv
  <2>7. \A e \in Element : Free(e)' => Keeps(value'[e], lastEdit'[e])
    BY <2>1 DEF ContentInv, Free
  <2> QED
    BY <2>2, <2>6, <2>7 DEF ContentInv, Keeps
<1>2. ASSUME NEW ins \in Instance, SaveContent(ins)
      PROVE  ContentInv'
  <2>1. /\ UNCHANGED <<nicInstances, content, lastEdit>> /\ ins \in nicInstances
        /\ value' = [value EXCEPT ![ElementOf(ins)] = content[ins]]
    BY <1>2 DEF SaveContent, Instances
  <2>2. \A e \in Element : Free(e) => value'[e] = value[e]
    BY <2>1 DEF Free, NicTypeOK
  <2> QED
    BY <2>1, <2>2 DEF ContentInv, OneEach, Free, Keeps
<1>3. ASSUME NEW ins \in Instance, RemoveInstance(ins)
      PROVE  ContentInv'
  <2>1. /\ nicInstances' = nicInstances \ {ins} /\ ins \in nicInstances
        /\ UNCHANGED <<content, lastEdit>>
        /\ value' = [value EXCEPT ![ElementOf(ins)] = content[ins]]
    BY <1>3 DEF RemoveInstance
  <2>2. Keeps(value'[ElementOf(ins)], lastEdit[ElementOf(ins)])
    BY <2>1 DEF ContentInv, NicTypeOK
  <2>3. \A e \in Element : Free(e)' /\ e # ElementOf(ins) => Free(e) /\ value'[e] = value[e]
    BY <2>1 DEF Free, NicTypeOK
  <2>4. \A e \in Element : Free(e)' => Keeps(value'[e], lastEdit'[e])
    BY <2>1, <2>2, <2>3 DEF ContentInv
  <2> QED
    BY <2>1, <2>4 DEF ContentInv, OneEach, Keeps
<1>4. ASSUME NEW ins \in Instance, Edit(ins)
      PROVE  ContentInv'
  <2>1. PICK c \in {Blank, edits' + 1} :
            /\ content' = [content EXCEPT ![ins] = c]
            /\ lastEdit' = [lastEdit EXCEPT ![ElementOf(ins)] = c]
    BY <1>4 DEF Edit
  <2>2. ins \in nicInstances /\ UNCHANGED <<nicInstances, value>>
    BY <1>4 DEF Edit, NicTypeOK
  <2>3. Keeps(content'[ins], lastEdit'[ElementOf(ins)])
    BY <2>1, <2>2 DEF Keeps, NicTypeOK
  <2>4. \A j \in nicInstances : j # ins => /\ ElementOf(j) # ElementOf(ins)
                                         /\ content'[j] = content[j]
                                         /\ lastEdit'[ElementOf(j)] = lastEdit[ElementOf(j)]
    BY <2>1, <2>2 DEF ContentInv, OneEach, NicTypeOK
  <2>5. \A e \in Element : Free(e) => lastEdit'[e] = lastEdit[e]
    BY <2>1, <2>2 DEF Free, NicTypeOK
  <2> QED
    BY <2>2, <2>3, <2>4, <2>5 DEF ContentInv, OneEach, Free, Keeps
<1>5. ASSUME NEW ins \in Instance,
             RemoveThrows(ins) \/ FocusComes(ins)
             \/ \E ctrlKey \in BOOLEAN : MouseDown(ins, ctrlKey) \/ KeyUp(ins, ctrlKey)
      PROVE  ContentInv'
  BY <1>5, ContentUntouched
     DEF RemoveThrows, FocusComes, MouseDown, KeyUp, Instances, Contents, nicVars
<1>6. CASE MouseDownElsewhere \/ FocusLeaves \/ UNCHANGED nicVars
  BY <1>6, ContentUntouched DEF MouseDownElsewhere, FocusLeaves, Instances, Contents, nicVars
<1> QED
  BY <1>1, <1>2, <1>3, <1>4, <1>5, <1>6 DEF NicNext

\* However often instances are added, saved and removed, the last edit is in the instance,
\* or in the textarea when there is none (editor.js 389-396, 407-427, 507-512).
THEOREM NoEditIsLost == NicSpec => []EditsAreKept
<1>1. ContentInv /\ NicTypeOK => EditsAreKept
  BY NicEditorAssumption DEF ContentInv, EditsAreKept, Free
<1>2. NicTypeOK /\ ContentInv /\ [NicNext]_nicVars => ContentInv'
  BY ContentStep
<1> QED
  BY <1>1, <1>2, ContentAtFirst, NicTypeCorrect, PTL DEF NicSpec

--------------------
(* StringTools: what is decoded of a text in base64. *)

\* Bit b of a character, from the left.
BitOf(c, b) == (c \div Weight[b + 1]) % 2

Bit01 == {0, 1}

\* A character is its six bits.
LEMMA CharBits ==
    ASSUME NEW c \in ALPHA
    PROVE  /\ \A b \in 0 .. 5 : BitOf(c, b) \in Bit01
           /\ c = 32 * BitOf(c, 0) + 16 * BitOf(c, 1) + 8 * BitOf(c, 2)
                  + 4 * BitOf(c, 3) + 2 * BitOf(c, 4) + BitOf(c, 5)
<1>1. c \in 0 .. 63
  BY DEF ALPHA
<1>2. /\ BitOf(c, 0) = (c \div 32) % 2 /\ BitOf(c, 1) = (c \div 16) % 2
      /\ BitOf(c, 2) = (c \div 8) % 2 /\ BitOf(c, 3) = (c \div 4) % 2
      /\ BitOf(c, 4) = (c \div 2) % 2 /\ BitOf(c, 5) = (c \div 1) % 2
  BY DEF BitOf, Weight
<1>3. /\ c \div 1 = c /\ c = 2 * (c \div 2) + (c % 2)
      /\ c \div 2 = 2 * (c \div 4) + ((c \div 2) % 2)
      /\ c \div 4 = 2 * (c \div 8) + ((c \div 4) % 2)
      /\ c \div 8 = 2 * (c \div 16) + ((c \div 8) % 2)
      /\ c \div 16 = 2 * (c \div 32) + ((c \div 16) % 2)
      /\ (c \div 32) % 2 = c \div 32
  <2>1. c \in Nat
    BY <1>1
  <2>2. c \div 1 = c /\ c = 2 * (c \div 2) + (c % 2)
    BY <2>1
  <2>3. c \div 2 = 2 * (c \div 4) + ((c \div 2) % 2)
    BY <2>1
  <2>4. c \div 4 = 2 * (c \div 8) + ((c \div 4) % 2)
    BY <2>1
  <2>5. c \div 8 = 2 * (c \div 16) + ((c \div 8) % 2)
    BY <2>1
  <2>6. c \div 16 = 2 * (c \div 32) + ((c \div 16) % 2)
    BY <2>1
  <2>7. (c \div 32) % 2 = c \div 32
    BY <1>1
  <2> QED
    BY <2>2, <2>3, <2>4, <2>5, <2>6, <2>7
<1>4. \A b \in 0 .. 5 : BitOf(c, b) \in Bit01
  <2>1. \A b \in 0 .. 5 : b \in {0, 1, 2, 3, 4, 5}
    OBVIOUS
  <2>2. \A n \in Nat : n % 2 \in {0, 1}
    OBVIOUS
  <2>3. /\ c \div 1 \in Nat /\ c \div 2 \in Nat /\ c \div 4 \in Nat
        /\ c \div 8 \in Nat /\ c \div 16 \in Nat /\ c \div 32 \in Nat
    BY <1>1
  <2>4. BitOf(c, 0) \in Bit01 /\ BitOf(c, 1) \in Bit01 /\ BitOf(c, 2) \in Bit01
        /\ BitOf(c, 3) \in Bit01 /\ BitOf(c, 4) \in Bit01 /\ BitOf(c, 5) \in Bit01
    BY <1>2, <2>2, <2>3 DEF Bit01
  <2> QED
    BY <2>1, <2>4
<1> QED
  BY <1>1, <1>2, <1>3, <1>4

\* The three bytes of a block, by the bits of its characters.
Byte0(c0, c1) == 128 * BitOf(c0, 0) + 64 * BitOf(c0, 1) + 32 * BitOf(c0, 2) + 16 * BitOf(c0, 3)
                 + 8 * BitOf(c0, 4) + 4 * BitOf(c0, 5) + 2 * BitOf(c1, 0) + BitOf(c1, 1)
Byte1(c1, c2) == 128 * BitOf(c1, 2) + 64 * BitOf(c1, 3) + 32 * BitOf(c1, 4) + 16 * BitOf(c1, 5)
                 + 8 * BitOf(c2, 0) + 4 * BitOf(c2, 1) + 2 * BitOf(c2, 2) + BitOf(c2, 3)
Byte2(c2, c3) == 128 * BitOf(c2, 4) + 64 * BitOf(c2, 5) + 32 * BitOf(c3, 0) + 16 * BitOf(c3, 1)
                 + 8 * BitOf(c3, 2) + 4 * BitOf(c3, 3) + 2 * BitOf(c3, 4) + BitOf(c3, 5)

\* Six bits taken apart after the second and after the fourth.
LEMMA SixBits ==
    ASSUME NEW b0 \in 0 .. 1, NEW b1 \in 0 .. 1, NEW b2 \in 0 .. 1,
           NEW b3 \in 0 .. 1, NEW b4 \in 0 .. 1, NEW b5 \in 0 .. 1
    PROVE  /\ (32 * b0 + 16 * b1 + 8 * b2 + 4 * b3 + 2 * b4 + b5) \div 16 = 2 * b0 + b1
           /\ (32 * b0 + 16 * b1 + 8 * b2 + 4 * b3 + 2 * b4 + b5) % 16 = 8 * b2 + 4 * b3 + 2 * b4 + b5
           /\ (32 * b0 + 16 * b1 + 8 * b2 + 4 * b3 + 2 * b4 + b5) \div 4 = 8 * b0 + 4 * b1 + 2 * b2 + b3
           /\ (32 * b0 + 16 * b1 + 8 * b2 + 4 * b3 + 2 * b4 + b5) % 4 = 2 * b4 + b5
<1>1. (32 * b0 + 16 * b1 + 8 * b2 + 4 * b3 + 2 * b4 + b5) \div 16 = 2 * b0 + b1
  OBVIOUS
<1>2. (32 * b0 + 16 * b1 + 8 * b2 + 4 * b3 + 2 * b4 + b5) % 16 = 8 * b2 + 4 * b3 + 2 * b4 + b5
  OBVIOUS
<1>3. (32 * b0 + 16 * b1 + 8 * b2 + 4 * b3 + 2 * b4 + b5) \div 4 = 8 * b0 + 4 * b1 + 2 * b2 + b3
  OBVIOUS
<1>4. (32 * b0 + 16 * b1 + 8 * b2 + 4 * b3 + 2 * b4 + b5) % 4 = 2 * b4 + b5
  OBVIOUS
<1> QED
  BY <1>1, <1>2, <1>3, <1>4

\* Three digits to the base of 256.
Word(z0, z1, z2) == 256 * (256 * z0 + z1) + z2

LEMMA Digits ==
    ASSUME NEW z0 \in 0 .. 255, NEW z1 \in 0 .. 255, NEW z2 \in 0 .. 255
    PROVE  Bytes(Word(z0, z1, z2)) = <<z0, z1, z2>>
<1>1. (256 * z0 + z1) \div 256 = z0
  OBVIOUS
<1>2. (256 * (256 * z0 + z1) + z2) \div 256 = 256 * z0 + z1
  OBVIOUS
<1>3. (256 * (256 * z0 + z1) + z2) % 256 = z2
  OBVIOUS
<1>4. (256 * z0 + z1) % 256 = z1
  OBVIOUS
<1> QED
  BY <1>1, <1>2, <1>3, <1>4 DEF Bytes, Word

\* A character's first two, and first four, bits and the rest of it.
LEMMA CharHalves ==
    ASSUME NEW c \in ALPHA
    PROVE  /\ c \div 16 = 2 * BitOf(c, 0) + BitOf(c, 1)
           /\ c % 16 = 8 * BitOf(c, 2) + 4 * BitOf(c, 3) + 2 * BitOf(c, 4) + BitOf(c, 5)
           /\ c \div 4 = 8 * BitOf(c, 0) + 4 * BitOf(c, 1) + 2 * BitOf(c, 2) + BitOf(c, 3)
           /\ c % 4 = 2 * BitOf(c, 4) + BitOf(c, 5)
<1>1. /\ BitOf(c, 0) \in 0 .. 1 /\ BitOf(c, 1) \in 0 .. 1 /\ BitOf(c, 2) \in 0 .. 1
      /\ BitOf(c, 3) \in 0 .. 1 /\ BitOf(c, 4) \in 0 .. 1 /\ BitOf(c, 5) \in 0 .. 1
  <2>1. Bit01 = 0 .. 1
    BY DEF Bit01
  <2> QED
    BY <2>1, CharBits
<1> DEFINE e == 32 * BitOf(c, 0) + 16 * BitOf(c, 1) + 8 * BitOf(c, 2)
                + 4 * BitOf(c, 3) + 2 * BitOf(c, 4) + BitOf(c, 5)
<1>2. c = e
  BY CharBits
<1>3. /\ e \div 16 = 2 * BitOf(c, 0) + BitOf(c, 1)
      /\ e % 16 = 8 * BitOf(c, 2) + 4 * BitOf(c, 3) + 2 * BitOf(c, 4) + BitOf(c, 5)
      /\ e \div 4 = 8 * BitOf(c, 0) + 4 * BitOf(c, 1) + 2 * BitOf(c, 2) + BitOf(c, 3)
      /\ e % 4 = 2 * BitOf(c, 4) + BitOf(c, 5)
  BY <1>1, SixBits
<1> HIDE DEF e
<1> QED
  BY <1>2, <1>3

\* The bytes the code computes of a block are those of its bits.
LEMMA BlockBits ==
    ASSUME NEW c0 \in ALPHA, NEW c1 \in ALPHA, NEW c2 \in ALPHA, NEW c3 \in ALPHA
    PROVE  /\ Bytes(((c0 * 64 + c1) * 64 + c2) * 64 + c3) = <<Byte0(c0, c1), Byte1(c1, c2), Byte2(c2, c3)>>
           /\ Byte0(c0, c1) \in 0 .. 255 /\ Byte1(c1, c2) \in 0 .. 255 /\ Byte2(c2, c3) \in 0 .. 255
<1> DEFINE b == ((c0 * 64 + c1) * 64 + c2) * 64 + c3
<1>1. c0 \in 0 .. 63 /\ c1 \in 0 .. 63 /\ c2 \in 0 .. 63 /\ c3 \in 0 .. 63
  BY DEF ALPHA
<1>2. /\ c1 \div 16 \in 0 .. 3 /\ c1 % 16 \in 0 .. 15 /\ c1 = 16 * (c1 \div 16) + (c1 % 16)
      /\ c2 \div 4 \in 0 .. 15 /\ c2 % 4 \in 0 .. 3 /\ c2 = 4 * (c2 \div 4) + (c2 % 4)
  BY <1>1
<1> DEFINE y0 == 4 * c0 + (c1 \div 16)
           y1 == 16 * (c1 % 16) + (c2 \div 4)
           y2 == 64 * (c2 % 4) + c3
<1>3. y0 \in 0 .. 255 /\ y1 \in 0 .. 255 /\ y2 \in 0 .. 255
  BY <1>1, <1>2
<1>4. b = Word(y0, y1, y2)
  BY <1>1, <1>2 DEF Word
<1>5. /\ BitOf(c0, 0) \in Int /\ BitOf(c0, 1) \in Int /\ BitOf(c0, 2) \in Int
      /\ BitOf(c0, 3) \in Int /\ BitOf(c0, 4) \in Int /\ BitOf(c0, 5) \in Int
      /\ BitOf(c1, 0) \in Int /\ BitOf(c1, 1) \in Int /\ BitOf(c1, 2) \in Int
      /\ BitOf(c1, 3) \in Int /\ BitOf(c1, 4) \in Int /\ BitOf(c1, 5) \in Int
      /\ BitOf(c2, 0) \in Int /\ BitOf(c2, 1) \in Int /\ BitOf(c2, 2) \in Int
      /\ BitOf(c2, 3) \in Int /\ BitOf(c2, 4) \in Int /\ BitOf(c2, 5) \in Int
      /\ BitOf(c3, 0) \in Int /\ BitOf(c3, 1) \in Int /\ BitOf(c3, 2) \in Int
      /\ BitOf(c3, 3) \in Int /\ BitOf(c3, 4) \in Int /\ BitOf(c3, 5) \in Int
  <2>1. Bit01 \subseteq Int
    BY DEF Bit01
  <2>2. \A c \in ALPHA, k \in 0 .. 5 : BitOf(c, k) \in Int
    BY <2>1, CharBits
  <2> QED
    BY <2>2
<1>6. y0 = Byte0(c0, c1)
  <2>1. c0 = 32 * BitOf(c0, 0) + 16 * BitOf(c0, 1) + 8 * BitOf(c0, 2)
             + 4 * BitOf(c0, 3) + 2 * BitOf(c0, 4) + BitOf(c0, 5)
    BY CharBits
  <2>2. c1 \div 16 = 2 * BitOf(c1, 0) + BitOf(c1, 1)
    BY CharHalves
  <2> QED
    BY <1>5, <2>1, <2>2 DEF Byte0
<1>7. y1 = Byte1(c1, c2)
  <2>1. c1 % 16 = 8 * BitOf(c1, 2) + 4 * BitOf(c1, 3) + 2 * BitOf(c1, 4) + BitOf(c1, 5)
    BY CharHalves
  <2>2. c2 \div 4 = 8 * BitOf(c2, 0) + 4 * BitOf(c2, 1) + 2 * BitOf(c2, 2) + BitOf(c2, 3)
    BY CharHalves
  <2> QED
    BY <1>5, <2>1, <2>2 DEF Byte1
<1>8. y2 = Byte2(c2, c3)
  <2>1. c2 % 4 = 2 * BitOf(c2, 4) + BitOf(c2, 5)
    BY CharHalves
  <2>2. c3 = 32 * BitOf(c3, 0) + 16 * BitOf(c3, 1) + 8 * BitOf(c3, 2)
             + 4 * BitOf(c3, 3) + 2 * BitOf(c3, 4) + BitOf(c3, 5)
    BY CharBits
  <2> QED
    BY <1>5, <2>1, <2>2 DEF Byte2
<1> HIDE DEF b, y0, y1, y2
<1>9. Bytes(b) = <<y0, y1, y2>>
  <2>1. Bytes(Word(y0, y1, y2)) = <<y0, y1, y2>>
    BY <1>3, Digits
  <2> QED
    BY <1>4, <2>1
<1>10. Bytes(b) = <<Byte0(c0, c1), Byte1(c1, c2), Byte2(c2, c3)>>
  BY <1>6, <1>7, <1>8, <1>9
<1> QED
  BY <1>3, <1>6, <1>7, <1>8, <1>10 DEF b

\* A block's bits in the text.
LEMMA BitIs ==
    ASSUME NEW q \in Nat, NEW m \in 0 .. 3, NEW b \in 0 .. 5
    PROVE  Bit(24 * q + 6 * m + b) = BitOf(CharAt(4 * q + m), b)
<1>1. (24 * q + 6 * m + b) \div 6 = 4 * q + m /\ (24 * q + 6 * m + b) % 6 = b
  OBVIOUS
<1> QED
  BY <1>1 DEF Bit, BitOf

\* A block's bytes in the text.
LEMMA BytesAre ==
    ASSUME NEW q \in Nat
    PROVE  /\ ByteOfBits(3 * q) = Byte0(CharAt(4 * q), CharAt(4 * q + 1))
           /\ ByteOfBits(3 * q + 1) = Byte1(CharAt(4 * q + 1), CharAt(4 * q + 2))
           /\ ByteOfBits(3 * q + 2) = Byte2(CharAt(4 * q + 2), CharAt(4 * q + 3))
<1>1. \A m \in 0 .. 3, b \in 0 .. 5 : Bit(24 * q + 6 * m + b) = BitOf(CharAt(4 * q + m), b)
  BY BitIs
<1>2. /\ \A b \in 0 .. 5 : Bit(24 * q + b) = BitOf(CharAt(4 * q), b)
      /\ \A b \in 0 .. 5 : Bit(24 * q + (6 + b)) = BitOf(CharAt(4 * q + 1), b)
      /\ \A b \in 0 .. 5 : Bit(24 * q + (12 + b)) = BitOf(CharAt(4 * q + 2), b)
      /\ \A b \in 0 .. 5 : Bit(24 * q + (18 + b)) = BitOf(CharAt(4 * q + 3), b)
  <2>1. \A b \in 0 .. 5 : /\ 24 * q + 6 * 0 + b = 24 * q + b
                          /\ 24 * q + 6 * 1 + b = 24 * q + (6 + b)
                          /\ 24 * q + 6 * 2 + b = 24 * q + (12 + b)
                          /\ 24 * q + 6 * 3 + b = 24 * q + (18 + b)
    OBVIOUS
  <2>2. 4 * q + 0 = 4 * q
    OBVIOUS
  <2>3. \A b \in 0 .. 5 : Bit(24 * q + 6 * 0 + b) = BitOf(CharAt(4 * q + 0), b)
    BY <1>1
  <2>4. \A b \in 0 .. 5 : Bit(24 * q + 6 * 1 + b) = BitOf(CharAt(4 * q + 1), b)
    BY <1>1
  <2>5. \A b \in 0 .. 5 : Bit(24 * q + 6 * 2 + b) = BitOf(CharAt(4 * q + 2), b)
    BY <1>1
  <2>6. \A b \in 0 .. 5 : Bit(24 * q + 6 * 3 + b) = BitOf(CharAt(4 * q + 3), b)
    BY <1>1
  <2> QED
    BY <2>1, <2>2, <2>3, <2>4, <2>5, <2>6
<1>3. \A b \in 0 .. 7 : /\ 8 * (3 * q) + b = 24 * q + b
                        /\ 8 * (3 * q + 1) + b = 24 * q + (8 + b)
                        /\ 8 * (3 * q + 2) + b = 24 * q + (16 + b)
  OBVIOUS
<1>4. ByteOfBits(3 * q) = Byte0(CharAt(4 * q), CharAt(4 * q + 1))
  <2>1. \A b \in 0 .. 7 : Bit(8 * (3 * q) + b) = Bit(24 * q + b)
    BY <1>3
  <2>2. \A b \in 0 .. 5 : Bit(8 * (3 * q) + b) = BitOf(CharAt(4 * q), b)
    BY <1>2, <2>1
  <2>3. Bit(8 * (3 * q) + 6) = BitOf(CharAt(4 * q + 1), 0) /\ Bit(8 * (3 * q) + 7) = BitOf(CharAt(4 * q + 1), 1)
    <3>1. Bit(24 * q + (6 + 0)) = BitOf(CharAt(4 * q + 1), 0) /\ Bit(24 * q + (6 + 1)) = BitOf(CharAt(4 * q + 1), 1)
      BY <1>2
    <3> QED
      BY <2>1, <3>1
  <2> QED
    BY <2>2, <2>3 DEF ByteOfBits, Byte0
<1>5. ByteOfBits(3 * q + 1) = Byte1(CharAt(4 * q + 1), CharAt(4 * q + 2))
  <2>1. \A b \in 0 .. 7 : Bit(8 * (3 * q + 1) + b) = Bit(24 * q + (8 + b))
    BY <1>3
  <2>2. \A b \in 0 .. 3 : Bit(8 * (3 * q + 1) + b) = BitOf(CharAt(4 * q + 1), 2 + b)
    <3>1. \A b \in 0 .. 3 : 2 + b \in 0 .. 5 /\ 6 + (2 + b) = 8 + b
      OBVIOUS
    <3> QED
      BY <1>2, <2>1, <3>1
  <2>3. \A b \in 0 .. 3 : Bit(8 * (3 * q + 1) + (4 + b)) = BitOf(CharAt(4 * q + 2), b)
    <3>1. \A b \in 0 .. 3 : 4 + b \in 0 .. 7 /\ 12 + b = 8 + (4 + b)
      OBVIOUS
    <3> QED
      BY <1>2, <2>1, <3>1
  <2> QED
    BY <2>2, <2>3 DEF ByteOfBits, Byte1
<1>6. ByteOfBits(3 * q + 2) = Byte2(CharAt(4 * q + 2), CharAt(4 * q + 3))
  <2>1. \A b \in 0 .. 7 : Bit(8 * (3 * q + 2) + b) = Bit(24 * q + (16 + b))
    BY <1>3
  <2>2. \A b \in 0 .. 1 : Bit(8 * (3 * q + 2) + b) = BitOf(CharAt(4 * q + 2), 4 + b)
    <3>1. \A b \in 0 .. 1 : 4 + b \in 0 .. 5 /\ 12 + (4 + b) = 16 + b
      OBVIOUS
    <3> QED
      BY <1>2, <2>1, <3>1
  <2>3. \A b \in 0 .. 5 : Bit(8 * (3 * q + 2) + (2 + b)) = BitOf(CharAt(4 * q + 3), b)
    <3>1. \A b \in 0 .. 5 : 2 + b \in 0 .. 7 /\ 18 + b = 16 + (2 + b)
      OBVIOUS
    <3> QED
      BY <1>2, <2>1, <3>1
  <2> QED
    BY <2>2, <2>3 DEF ByteOfBits, Byte2
<1> QED
  BY <1>4, <1>5, <1>6

--------------------
(* The inductive invariant.  What is decoded so far are the bits of the    *)
(* blocks before i.                                                        *)

Letter == ALPHA \cup {PADCHAR, BAD}

Readables(n) == \A m \in 1 .. n : s[m] \in ALPHA

BytesDecoded == \A j \in 1 .. Len(x) : x[j] = ByteOfBits(j - 1)

\* While blocks are decoded: the padding is known, and what is left is whole blocks.
BlocksInv ==
    /\ Len(s) > 0 /\ Len(s) % 4 = 0
    /\ pads = Padding
    /\ imax = IF pads = 0 THEN Len(s) ELSE Len(s) - 4
    /\ i \in 0 .. imax /\ i % 4 = 0
    /\ Readables(i)
    /\ Len(x) = 3 * (i \div 4)
    /\ BytesDecoded

StringInv ==
    /\ s \in Seq(Letter)
    /\ x \in Seq(0 .. 255)
    /\ i \in Nat /\ imax \in Nat /\ pads \in 0 .. 2
    /\ decoding \in {"no", "blocks", "done", "thrown"}
    /\ decoding = "no" => x = <<>> /\ i = 0
    /\ decoding = "blocks" => BlocksInv
    /\ DecodesBits

LEMMA PaddingIs == s \in Seq(Letter) => Padding \in 0 .. 2
  BY DEF Padding

LEMMA StringInvAtFirst == StringInit => StringInv
<1> SUFFICES ASSUME StringInit PROVE StringInv
  OBVIOUS
<1>1. s \in Seq(Letter)
  BY StringToolsAssumption DEF StringInit, Letter
<1>2. x \in Seq(0 .. 255)
  BY DEF StringInit
<1> QED
  BY <1>1, <1>2 DEF StringInit, StringInv, DecodesBits

\* The bytes of a block of which m characters can be read.
LEMMA BlockBytes ==
    ASSUME NEW m \in 2 .. 4, i \in Nat, Readable(m)
    PROVE  \E z0, z1, z2 \in 0 .. 255 :
               /\ Bytes(B10(m)) = <<z0, z1, z2>>
               /\ z0 = Byte0(CharAt(i), CharAt(i + 1))
               /\ m > 2 => z1 = Byte1(CharAt(i + 1), CharAt(i + 2))
               /\ m > 3 => z2 = Byte2(CharAt(i + 2), CharAt(i + 3))
<1> DEFINE c2 == IF 2 < m THEN CharAt(i + 2) ELSE 0
           c3 == IF 3 < m THEN CharAt(i + 3) ELSE 0
<1>1. /\ CharAt(i) \in ALPHA /\ CharAt(i + 1) \in ALPHA
      /\ 2 < m => CharAt(i + 2) \in ALPHA
      /\ 3 < m => CharAt(i + 3) \in ALPHA
  <2>1. /\ 0 \in 0 .. m - 1 /\ 1 \in 0 .. m - 1 /\ i + 0 = i
        /\ 2 < m => 2 \in 0 .. m - 1
        /\ 3 < m => 3 \in 0 .. m - 1
    OBVIOUS
  <2> QED
    BY <2>1 DEF Readable
<1>2. c2 \in ALPHA /\ c3 \in ALPHA
  <2>1. 0 \in ALPHA
    BY DEF ALPHA
  <2> QED
    BY <1>1, <2>1
<1>3. B10(m) = ((CharAt(i) * 64 + CharAt(i + 1)) * 64 + c2) * 64 + c3
  <2>1. 0 < m /\ 1 < m /\ i + 0 = i
    OBVIOUS
  <2> QED
    BY <2>1 DEF B10
<1>4. /\ Bytes(B10(m)) = <<Byte0(CharAt(i), CharAt(i + 1)), Byte1(CharAt(i + 1), c2), Byte2(c2, c3)>>
      /\ Byte0(CharAt(i), CharAt(i + 1)) \in 0 .. 255
      /\ Byte1(CharAt(i + 1), c2) \in 0 .. 255
      /\ Byte2(c2, c3) \in 0 .. 255
  <2> DEFINE d0 == CharAt(i)
             d1 == CharAt(i + 1)
  <2>1. d0 \in ALPHA /\ d1 \in ALPHA /\ c2 \in ALPHA /\ c3 \in ALPHA
    BY <1>1, <1>2
  <2>2. B10(m) = ((d0 * 64 + d1) * 64 + c2) * 64 + c3
    BY <1>3
  <2> HIDE DEF d0, d1, c2, c3
  <2>3. /\ Bytes(((d0 * 64 + d1) * 64 + c2) * 64 + c3) = <<Byte0(d0, d1), Byte1(d1, c2), Byte2(c2, c3)>>
        /\ Byte0(d0, d1) \in 0 .. 255 /\ Byte1(d1, c2) \in 0 .. 255 /\ Byte2(c2, c3) \in 0 .. 255
    BY <2>1, BlockBits
  <2>4. /\ Bytes(B10(m)) = <<Byte0(d0, d1), Byte1(d1, c2), Byte2(c2, c3)>>
        /\ Byte0(d0, d1) \in 0 .. 255 /\ Byte1(d1, c2) \in 0 .. 255 /\ Byte2(c2, c3) \in 0 .. 255
    BY <2>2, <2>3
  <2> QED
    BY <2>4 DEF d0, d1
<1>5. /\ m > 2 => Byte1(CharAt(i + 1), c2) = Byte1(CharAt(i + 1), CharAt(i + 2))
      /\ m > 3 => Byte2(c2, c3) = Byte2(CharAt(i + 2), CharAt(i + 3))
  <2>1. m > 2 => c2 = CharAt(i + 2)
    OBVIOUS
  <2>2. m > 3 => c2 = CharAt(i + 2) /\ c3 = CharAt(i + 3)
    OBVIOUS
  <2> HIDE DEF c2, c3
  <2> QED
    BY <2>1, <2>2
<1> HIDE DEF c2, c3
<1> QED
  BY <1>4, <1>5

\* What has been decoded, and the bytes of such a block.
Longer(m) == x \o SubSeq(Bytes(B10(m)), 1, m - 1)

\* Of a whole block all the bytes are taken.
LEMMA WholeBlock == ASSUME i \in Nat, Readable(4) PROVE Longer(4) = x \o Bytes(B10(4))
<1> DEFINE z == Bytes(B10(4))
<1>1. \A k \in 0 .. 3 : CharAt(i + k) \in Int
  BY DEF Readable, ALPHA
<1>2. B10(4) \in Int
  <2>1. CharAt(i + 0) \in Int /\ CharAt(i + 1) \in Int /\ CharAt(i + 2) \in Int /\ CharAt(i + 3) \in Int
    BY <1>1
  <2> QED
    BY <2>1 DEF B10
<1>3. z \in Seq(Int) /\ Len(z) = 3
  BY <1>2 DEF Bytes
<1>4. Longer(4) = x \o SubSeq(z, 1, 4 - 1)
  BY DEF Longer
<1> HIDE DEF z
<1>5. SubSeq(z, 1, 4 - 1) = z
  <2>1. SubSeq(z, 1, 3) = z
    BY <1>3
  <2>2. 4 - 1 = 3
    OBVIOUS
  <2> QED
    BY <2>1, <2>2
<1>6. Longer(4) = x \o z
  BY <1>4, <1>5
<1> QED
  BY <1>6 DEF z

\* A block of which m characters can be read adds m - 1 bytes of the text's bits.
LEMMA BlockDecodes ==
    ASSUME x \in Seq(0 .. 255), i \in Nat, i % 4 = 0, Len(x) = 3 * (i \div 4), BytesDecoded,
           NEW m \in 2 .. 4, Readable(m)
    PROVE  /\ Longer(m) \in Seq(0 .. 255)
           /\ Len(Longer(m)) = Len(x) + (m - 1)
           /\ \A j \in 1 .. Len(x) + (m - 1) : Longer(m)[j] = ByteOfBits(j - 1)
<1> DEFINE q == i \div 4
           z == Bytes(B10(m))
           w == SubSeq(z, 1, m - 1)
<1>1. q \in Nat /\ i = 4 * q /\ Len(x) = 3 * q
  OBVIOUS
<1>2. PICK z0, z1, z2 \in 0 .. 255 :
          /\ z = <<z0, z1, z2>>
          /\ z0 = Byte0(CharAt(i), CharAt(i + 1))
          /\ m > 2 => z1 = Byte1(CharAt(i + 1), CharAt(i + 2))
          /\ m > 3 => z2 = Byte2(CharAt(i + 2), CharAt(i + 3))
  BY BlockBytes
<1>3. Longer(m) = x \o w
  BY DEF Longer
<1> HIDE DEF q, z
<1>4. w \in Seq(0 .. 255) /\ Len(w) = m - 1 /\ \A k \in 1 .. m - 1 : w[k] = z[k]
  <2>1. z \in Seq(0 .. 255) /\ Len(z) = 3
    BY <1>2
  <2>2. \A k \in 1 .. m - 1 : k = 1 \/ k = 2 \/ k = 3
    OBVIOUS
  <2>3. \A k \in 1 .. m - 1 : z[k] \in 0 .. 255
    <3>1. z[1] \in 0 .. 255 /\ z[2] \in 0 .. 255 /\ z[3] \in 0 .. 255
      BY <1>2
    <3> QED
      BY <2>2, <3>1
  <2>4. 1 \in Int /\ m - 1 \in Int /\ 1 <= m - 1 /\ (m - 1) - 1 + 1 = m - 1
    OBVIOUS
  <2>5. /\ w \in Seq(0 .. 255)
        /\ Len(w) = IF 1 <= m - 1 THEN (m - 1) - 1 + 1 ELSE 0
        /\ \A k \in 1 .. (m - 1) - 1 + 1 : w[k] = z[1 + k - 1]
    BY <2>3, <2>4, SubSeqProperties
  <2>6. \A k \in 1 .. m - 1 : 1 + k - 1 = k
    OBVIOUS
  <2> QED
    BY <2>4, <2>5, <2>6
<1> HIDE DEF w
<1>5. /\ Longer(m) \in Seq(0 .. 255) /\ Len(Longer(m)) = Len(x) + (m - 1)
      /\ \A j \in 1 .. Len(x) + (m - 1) : Longer(m)[j] = IF j <= Len(x) THEN x[j] ELSE w[j - Len(x)]
  <2>1. x \o w \in Seq(0 .. 255) /\ Len(x \o w) = Len(x) + Len(w)
        /\ \A j \in 1 .. Len(x) + Len(w) : (x \o w)[j] = IF j <= Len(x) THEN x[j] ELSE w[j - Len(x)]
    BY <1>4, ConcatProperties
  <2> QED
    BY <1>3, <1>4, <2>1
<1>6. /\ ByteOfBits(3 * q) = Byte0(CharAt(4 * q), CharAt(4 * q + 1))
      /\ ByteOfBits(3 * q + 1) = Byte1(CharAt(4 * q + 1), CharAt(4 * q + 2))
      /\ ByteOfBits(3 * q + 2) = Byte2(CharAt(4 * q + 2), CharAt(4 * q + 3))
  BY <1>1, BytesAre
<1>7. /\ w[1] = ByteOfBits(3 * q)
      /\ m > 2 => w[2] = ByteOfBits(3 * q + 1)
      /\ m > 3 => w[3] = ByteOfBits(3 * q + 2)
  <2>1. z[1] = z0 /\ z[2] = z1 /\ z[3] = z2
    BY <1>2
  <2>2. w[1] = z0 /\ (m > 2 => w[2] = z1) /\ (m > 3 => w[3] = z2)
    BY <1>4, <2>1
  <2> QED
    BY <1>1, <1>2, <1>6, <2>2
<1>8. \A k \in 1 .. m - 1 : w[k] = ByteOfBits(3 * q + (k - 1))
  <2>1. \A k \in 1 .. m - 1 : k = 1 \/ (k = 2 /\ m > 2) \/ (k = 3 /\ m > 3)
    OBVIOUS
  <2>2. 3 * q + (1 - 1) = 3 * q /\ 3 * q + (2 - 1) = 3 * q + 1 /\ 3 * q + (3 - 1) = 3 * q + 2
    BY <1>1
  <2> QED
    BY <1>7, <2>1, <2>2
<1>9. ASSUME NEW j \in 1 .. Len(x) + (m - 1) PROVE Longer(m)[j] = ByteOfBits(j - 1)
  <2>1. ASSUME j <= Len(x) PROVE Longer(m)[j] = ByteOfBits(j - 1)
    <3>1. j \in 1 .. Len(x)
      BY <1>1, <2>1
    <3> QED
      BY <1>5, <2>1, <3>1 DEF BytesDecoded
  <2>2. ASSUME ~(j <= Len(x)) PROVE Longer(m)[j] = ByteOfBits(j - 1)
    <3>1. j - Len(x) \in 1 .. m - 1 /\ 3 * q + ((j - Len(x)) - 1) = j - 1
      BY <1>1, <2>2
    <3>2. Longer(m)[j] = w[j - Len(x)]
      BY <1>5, <2>2
    <3> QED
      BY <1>8, <3>1, <3>2
  <2> QED
    BY <2>1, <2>2
<1> QED
  BY <1>5, <1>9

\* The block at i is whole, and within what the text has before its padding.
LEMMA BlockInside ==
    ASSUME s \in Seq(Letter), i \in Nat, pads \in 0 .. 2, decoding = "blocks", BlocksInv
    PROVE  /\ i < imax => i + 4 <= imax
           /\ imax <= Len(s) - Padding
           /\ pads # 0 => imax = Len(s) - 4 /\ imax + (4 - pads) = Len(s) - Padding
           /\ pads = 0 => imax = Len(s)
<1>1. Len(s) \in Nat /\ Len(s) % 4 = 0 /\ i % 4 = 0 /\ pads = Padding /\ Len(s) > 0
  BY DEF BlocksInv
<1>2. imax = IF pads = 0 THEN Len(s) ELSE Len(s) - 4
  BY DEF BlocksInv
<1>3. (Len(s) - 4) % 4 = 0
  BY <1>1
<1>4. imax \in Int /\ imax % 4 = 0
  <2>1. CASE pads = 0
    <3>1. imax = Len(s)
      BY <1>2, <2>1
    <3> QED
      BY <1>1, <3>1
  <2>2. CASE pads # 0
    <3>1. imax = Len(s) - 4
      BY <1>2, <2>2
    <3> QED
      BY <1>1, <1>3, <3>1
  <2> QED
    BY <2>1, <2>2
<1>5. i < imax => i + 4 <= imax
  BY <1>1, <1>4
<1> QED
  BY <1>1, <1>2, <1>5

\* The characters the code cannot read are no text's of the alphabet.
LEMMA UnreadableIsIllFormed ==
    ASSUME s \in Seq(Letter), i \in Nat, NEW m \in 1 .. 4, i + m <= Len(s) - Padding, ~Readable(m)
    PROVE  ~WellFormedText
<1>1. PICK k \in 0 .. m - 1 : CharAt(i + k) \notin ALPHA
  BY DEF Readable
<1>2. (i + k) + 1 \in 1 .. Len(s) - Padding
  BY PaddingIs
<1>3. s[(i + k) + 1] \notin ALPHA
  BY <1>1 DEF CharAt
<1> QED
  BY <1>2, <1>3 DEF WellFormedText

\* Those it can read continue the characters read before.
LEMMA ReadableContinues ==
    ASSUME i \in Nat, NEW m \in 1 .. 4, Readables(i), Readable(m)
    PROVE  Readables(i + m)
<1> SUFFICES ASSUME NEW n \in 1 .. i + m PROVE s[n] \in ALPHA
  BY DEF Readables
<1>1. CASE n <= i
  BY <1>1 DEF Readables
<1>2. CASE ~(n <= i)
  <2>1. (n - 1) - i \in 0 .. m - 1 /\ i + ((n - 1) - i) = n - 1 /\ (n - 1) + 1 = n
    BY <1>2
  <2>2. CharAt(n - 1) \in ALPHA
    BY <2>1 DEF Readable
  <2> QED
    BY <2>1, <2>2 DEF CharAt
<1> QED
  BY <1>1, <1>2

\* What is said of the text stays as long as the text does.
LEMMA TextStays ==
    ASSUME s' = s
    PROVE  /\ Padding' = Padding
           /\ WellFormedText' = WellFormedText
           /\ \A n : Readables(n)' = Readables(n)
           /\ \A j : ByteOfBits(j)' = ByteOfBits(j)
<1>1. Padding' = Padding
  BY DEF Padding
<1>2. WellFormedText' = WellFormedText
  BY <1>1 DEF WellFormedText
<1>3. \A n : Readables(n)' = Readables(n)
  BY DEF Readables
<1>4. \A k : Bit(k)' = Bit(k)
  BY DEF Bit, CharAt
<1>5. \A j : ByteOfBits(j)' = ByteOfBits(j)
  BY <1>4 DEF ByteOfBits
<1> QED
  BY <1>1, <1>2, <1>3, <1>5

\* A turn of the loop on a block it can read.
LEMMA BlockStep ==
    ASSUME StringInv, DecodeBlock, Readable(4)
    PROVE  StringInv'
<1> USE DEF StringInv
<1>1. /\ decoding = "blocks" /\ i < imax /\ x' = x \o Bytes(B10(4)) /\ i' = i + 4
      /\ decoding' = "blocks" /\ s' = s /\ imax' = imax /\ pads' = pads
  BY DEF DecodeBlock
<1>2. /\ Len(s) > 0 /\ Len(s) % 4 = 0 /\ pads = Padding
      /\ imax = IF pads = 0 THEN Len(s) ELSE Len(s) - 4
      /\ i \in 0 .. imax /\ i % 4 = 0 /\ Readables(i)
      /\ Len(x) = 3 * (i \div 4) /\ BytesDecoded
  BY <1>1 DEF BlocksInv
<1>3. x' = Longer(4)
  BY <1>1, <1>2, WholeBlock
<1>4. /\ x' \in Seq(0 .. 255) /\ Len(x') = Len(x) + 3
      /\ \A j \in 1 .. Len(x) + 3 : x'[j] = ByteOfBits(j - 1)
  <2>1. 4 \in 2 .. 4 /\ 4 - 1 = 3
    OBVIOUS
  <2> QED
    BY <1>2, <1>3, <2>1, BlockDecodes
<1>5. Readables(i + 4)
  BY <1>2, ReadableContinues
<1>6. i + 4 <= imax
  BY <1>1, BlockInside
<1>7. (i + 4) % 4 = 0 /\ Len(x) + 3 = 3 * ((i + 4) \div 4)
  <2>1. i \in Nat /\ i % 4 = 0 /\ Len(x) = 3 * (i \div 4)
    BY <1>2
  <2>2. (i + 4) % 4 = 0
    BY <2>1
  <2>3. (i + 4) \div 4 = (i \div 4) + 1 /\ i \div 4 \in Nat
    BY <2>1
  <2> QED
    BY <2>1, <2>2, <2>3
<1>8. BytesDecoded'
  BY <1>1, <1>4, TextStays DEF BytesDecoded
<1>9. BlocksInv'
  <2>1. Readables(i)'
    BY <1>1, <1>5 DEF Readables
  <2>2. i' \in 0 .. imax'
    BY <1>1, <1>2, <1>6
  <2>3. Padding' = Padding
    BY <1>1, TextStays
  <2> QED
    BY <1>1, <1>2, <1>4, <1>7, <1>8, <2>1, <2>2, <2>3 DEF BlocksInv, Readables
<1>10. DecodesBits'
  BY <1>1 DEF DecodesBits
<1> QED
  BY <1>1, <1>4, <1>9, <1>10

\* The end of a text, of which the last block can be read as far as it has characters.
LEMMA RestStep ==
    ASSUME StringInv, DecodeRest, pads # 0 => Readable(4 - pads)
    PROVE  StringInv'
<1> USE DEF StringInv
<1>1. /\ decoding = "blocks" /\ i >= imax /\ decoding' = "done"
      /\ s' = s /\ i' = i /\ imax' = imax /\ pads' = pads
      /\ x' = IF pads = 0 THEN x ELSE Longer(4 - pads)
  <2>1. (4 - pads) - 1 = 3 - pads
    OBVIOUS
  <2> QED
    BY <2>1 DEF DecodeRest, Longer
<1>2. /\ Len(s) > 0 /\ Len(s) % 4 = 0 /\ pads = Padding
      /\ imax = IF pads = 0 THEN Len(s) ELSE Len(s) - 4
      /\ i \in 0 .. imax /\ i % 4 = 0 /\ Readables(i)
      /\ Len(x) = 3 * (i \div 4) /\ BytesDecoded
  BY <1>1 DEF BlocksInv
<1>3. i = imax /\ imax \in Nat
  <2>1. i \in 0 .. imax /\ i >= imax
    BY <1>1, <1>2
  <2> QED
    BY <2>1
<1>4. /\ x' \in Seq(0 .. 255) /\ Len(x') = 3 * (Len(s) \div 4) - Padding
      /\ \A j \in 1 .. Len(x') : x'[j] = ByteOfBits(j - 1)
      /\ Readables(Len(s) - Padding)
  <2>1. CASE pads = 0
    BY <1>1, <1>2, <1>3, <2>1 DEF BytesDecoded
  <2>2. CASE pads # 0
    <3>1. 4 - pads \in 2 .. 4 /\ 4 - pads \in 1 .. 4 /\ (4 - pads) - 1 = 3 - pads /\ Readable(4 - pads)
      BY <2>2
    <3>2. i = Len(s) - 4 /\ i + (4 - pads) = Len(s) - Padding
      BY <1>1, <1>2, <1>3, <2>2, BlockInside
    <3>3. /\ x' \in Seq(0 .. 255) /\ Len(x') = Len(x) + (3 - pads)
          /\ \A j \in 1 .. Len(x) + (3 - pads) : x'[j] = ByteOfBits(j - 1)
      BY <1>1, <1>2, <2>2, <3>1, BlockDecodes
    <3>4. Len(x) + (3 - pads) = 3 * (Len(s) \div 4) - Padding
      <4>1. i \div 4 \in Nat /\ (i + 4) \div 4 = (i \div 4) + 1
        OBVIOUS
      <4>2. Len(s) = i + 4
        BY <3>2
      <4> HIDE DEF StringInv
      <4>3. Len(s) \div 4 = (i \div 4) + 1
        BY <4>1, <4>2
      <4> QED
        BY <1>2, <4>1, <4>3 DEF StringInv
    <3>5. Readables(i + (4 - pads))
      BY <1>2, <3>1, ReadableContinues
    <3> QED
      BY <3>2, <3>3, <3>4, <3>5
  <2> QED
    BY <2>1, <2>2
<1>5. WellFormedText
  BY <1>2, <1>4 DEF WellFormedText, Readables
<1>6. DecodesBits'
  BY <1>1, <1>4, <1>5, TextStays DEF DecodesBits
<1> QED
  BY <1>1, <1>4, <1>6

\* A block with a character out of the alphabet: the text is not well formed.
LEMMA ThrowStep ==
    ASSUME StringInv, decoding = "blocks", decoding' = "thrown", UNCHANGED <<s, i, imax, pads, x>>,
           NEW m \in 1 .. 4, i + m <= Len(s) - Padding, ~Readable(m)
    PROVE  StringInv'
<1>1. ~WellFormedText
  BY UnreadableIsIllFormed DEF StringInv
<1>2. ~WellFormedText'
  BY <1>1, TextStays
<1> QED
  BY <1>2 DEF StringInv, DecodesBits

LEMMA StringInvStep == StringInv /\ [StringNext]_stringVars => StringInv'
<1> SUFFICES ASSUME StringInv, [StringNext]_stringVars PROVE StringInv'
  OBVIOUS
<1>1. CASE DecodeNothing
  <2>1. s = <<>> /\ s' = s /\ x' = x /\ x = <<>> /\ decoding' = "done" /\ i' = i /\ imax' = imax /\ pads' = pads
    BY <1>1 DEF DecodeNothing, StringInv
  <2>2. Padding' = 0 /\ WellFormedText'
    BY <2>1 DEF Padding, WellFormedText
  <2>3. DecodesBits'
    BY <2>1, <2>2 DEF DecodesBits
  <2> QED
    BY <2>1, <2>3 DEF StringInv
<1>2. CASE DecodeOddLength
  <2>1. Len(s) % 4 # 0 /\ s' = s /\ x' = x /\ decoding' = "thrown" /\ i' = i /\ imax' = imax /\ pads' = pads
    BY <1>2 DEF DecodeOddLength
  <2>2. DecodesBits'
    BY <2>1 DEF DecodesBits, WellFormedText
  <2> QED
    BY <2>1, <2>2 DEF StringInv
<1>3. CASE DecodeStarts
  <2>1. /\ Len(s) > 0 /\ Len(s) % 4 = 0 /\ decoding' = "blocks" /\ s' = s /\ x' = x /\ i' = i
        /\ x = <<>> /\ i = 0 /\ s \in Seq(Letter)
    BY <1>3 DEF DecodeStarts, StringInv
  <2>2. pads' = Padding /\ imax' = IF pads' = 0 THEN Len(s) ELSE Len(s) - 4
    <3>1. Len(s) \in Nat /\ (Len(s) - 1) + 1 = Len(s) /\ (Len(s) - 2) + 1 = Len(s) - 1
      BY <2>1
    <3>2. s # <<>>
      BY <2>1
    <3> QED
      BY <1>3, <3>1, <3>2 DEF DecodeStarts, CountPads, CharAt, Padding
  <2>3. Padding' = Padding /\ Padding \in 0 .. 2
    BY <2>1, TextStays, PaddingIs
  <2>4. Len(s) - 4 \in Nat
    BY <2>1
  <2>5. imax' \in Nat
    BY <2>2, <2>4
  <2>6. BlocksInv'
    BY <2>1, <2>2, <2>3, <2>5 DEF BlocksInv, Readables, BytesDecoded
  <2>7. DecodesBits'
    BY <2>1 DEF DecodesBits
  <2> QED
    BY <2>1, <2>2, <2>3, <2>5, <2>6, <2>7 DEF StringInv
<1>4. CASE DecodeBlock
  <2>1. CASE Readable(4)
    BY <1>4, <2>1, BlockStep
  <2>2. CASE ~Readable(4)
    <3>1. decoding = "blocks" /\ decoding' = "thrown" /\ UNCHANGED <<s, i, imax, pads, x>> /\ i < imax
      BY <1>4, <2>2 DEF DecodeBlock
    <3>2. i + 4 <= Len(s) - Padding
      <4>1. i + 4 <= imax /\ imax <= Len(s) - Padding
        BY <3>1, BlockInside DEF StringInv
      <4> QED
        BY <4>1, PaddingIs DEF StringInv
    <3> QED
      BY <2>2, <3>1, <3>2, ThrowStep
  <2> QED
    BY <2>1, <2>2
<1>5. CASE DecodeRest
  <2>1. CASE pads # 0 => Readable(4 - pads)
    BY <1>5, <2>1, RestStep
  <2>2. CASE pads # 0 /\ ~Readable(4 - pads)
    <3>1. decoding = "blocks" /\ decoding' = "thrown" /\ UNCHANGED <<s, i, imax, pads, x>> /\ i >= imax
      BY <1>5, <2>2 DEF DecodeRest
    <3>2. i + (4 - pads) <= Len(s) - Padding
      <4>1. i \in 0 .. imax /\ imax \in Nat
        BY <3>1 DEF StringInv, BlocksInv
      <4>2. imax + (4 - pads) = Len(s) - Padding
        BY <2>2, <3>1, BlockInside DEF StringInv
      <4>3. i = imax
        BY <3>1, <4>1
      <4> QED
        BY <4>2, <4>3, PaddingIs DEF StringInv
    <3>3. 4 - pads \in 1 .. 4
      BY DEF StringInv
    <3> QED
      BY <2>2, <3>1, <3>2, <3>3, ThrowStep
  <2> QED
    BY <2>1, <2>2
<1>6. CASE UNCHANGED stringVars
  <2>1. s' = s /\ i' = i /\ imax' = imax /\ pads' = pads /\ x' = x /\ decoding' = decoding
    BY <1>6 DEF stringVars
  <2>2. /\ Padding' = Padding /\ WellFormedText' = WellFormedText /\ BytesDecoded' = BytesDecoded
        /\ \A n : Readables(n)' = Readables(n)
        /\ \A j : ByteOfBits(j)' = ByteOfBits(j)
    BY <2>1, TextStays DEF BytesDecoded
  <2>3. BlocksInv' = BlocksInv
    BY <2>1, <2>2 DEF BlocksInv, Readables
  <2>4. DecodesBits' = DecodesBits
    BY <2>1, <2>2 DEF DecodesBits
  <2> QED
    BY <2>1, <2>3, <2>4 DEF StringInv
<1> QED
  BY <1>1, <1>2, <1>3, <1>4, <1>5, <1>6 DEF StringNext

LEMMA StringInvHolds == StringSpec => []StringInv
  BY StringInvAtFirst, StringInvStep, PTL DEF StringSpec

\* What base64's decode returns are the bits of the text, for every text, and exactly the
\* ill-formed ones throw (main.js 471-524).
THEOREM DecodesEveryText == StringSpec => []DecodesBits
<1>1. StringInv => DecodesBits
  BY DEF StringInv
<1> QED
  BY <1>1, StringInvHolds, PTL

--------------------
(* LazyLoad: counting.  The elements and what is on the agenda are         *)
(* sequences; the invariant counts those of a kind.                        *)

\* The places of a sequence with a member of P, and how many there are.
Places(q, P) == {p \in 1 .. Len(q) : q[p] \in P}
Count(q, P)  == Cardinality(Places(q, P))

LEMMA CountIsNat ==
    ASSUME NEW S, NEW q \in Seq(S), NEW P
    PROVE  IsFiniteSet(Places(q, P)) /\ Count(q, P) \in Nat
<1>1. IsFiniteSet(1 .. Len(q))
  BY FS_Interval
<1>2. Places(q, P) \subseteq 1 .. Len(q)
  BY DEF Places
<1>3. IsFiniteSet(Places(q, P))
  BY <1>1, <1>2, FS_Subset
<1> QED
  BY <1>3, FS_CardinalityType DEF Count

LEMMA CountConcat ==
    ASSUME NEW S, NEW q \in Seq(S), NEW r \in Seq(S), NEW P
    PROVE  Count(q \o r, P) = Count(q, P) + Count(r, P)
<1> DEFINE A == Places(q, P)
           B == Places(r, P)
           C == {p + Len(q) : p \in B}
           f == [p \in B |-> p + Len(q)]
<1>1. Len(q) \in Nat /\ Len(r) \in Nat /\ A \subseteq 1 .. Len(q) /\ B \subseteq 1 .. Len(r)
  BY DEF Places
<1>2. IsFiniteSet(A) /\ IsFiniteSet(B) /\ Cardinality(A) \in Nat /\ Cardinality(B) \in Nat
  BY CountIsNat DEF Count
<1>3. f \in Bijection(B, C)
  <2>1. f \in [B -> C]
    OBVIOUS
  <2>2. \A p1, p2 \in B : f[p1] = f[p2] => p1 = p2
    BY <1>1
  <2>3. \A c \in C : \E p \in B : f[p] = c
    OBVIOUS
  <2> QED
    BY <2>1, <2>2, <2>3, Fun_IsBij
<1>4. IsFiniteSet(C) /\ Cardinality(C) = Cardinality(B)
  BY <1>2, <1>3, FS_Bijection DEF ExistsBijection
<1>5. A \cap C = {}
  BY <1>1
<1>6. Places(q \o r, P) = A \cup C
  <2>1. Len(q \o r) = Len(q) + Len(r)
        /\ \A p \in 1 .. Len(q) + Len(r) : (q \o r)[p] = IF p <= Len(q) THEN q[p] ELSE r[p - Len(q)]
    BY ConcatProperties
  <2>2. ASSUME NEW p \in Places(q \o r, P) PROVE p \in A \cup C
    <3>1. p \in 1 .. Len(q) + Len(r) /\ (q \o r)[p] \in P
      BY <2>1 DEF Places
    <3>2. CASE p <= Len(q)
      BY <1>1, <2>1, <3>1, <3>2 DEF Places
    <3>3. CASE ~(p <= Len(q))
      <4>1. p - Len(q) \in 1 .. Len(r) /\ r[p - Len(q)] \in P /\ (p - Len(q)) + Len(q) = p
        BY <1>1, <2>1, <3>1, <3>3
      <4>2. p - Len(q) \in B
        BY <4>1 DEF Places
      <4> QED
        BY <4>1, <4>2
    <3> QED
      BY <3>2, <3>3
  <2>3. ASSUME NEW p \in A PROVE p \in Places(q \o r, P)
    BY <1>1, <2>1 DEF Places
  <2>4. ASSUME NEW p \in B PROVE p + Len(q) \in Places(q \o r, P)
    <3>1. p \in 1 .. Len(r) /\ r[p] \in P
      BY DEF Places
    <3>2. p + Len(q) \in 1 .. Len(q) + Len(r) /\ ~(p + Len(q) <= Len(q)) /\ (p + Len(q)) - Len(q) = p
      BY <1>1, <3>1
    <3> QED
      BY <2>1, <3>1, <3>2 DEF Places
  <2> QED
    BY <2>2, <2>3, <2>4
<1>7. Cardinality(A \cup C) = Cardinality(A) + Cardinality(C) - Cardinality(A \cap C)
  BY <1>2, <1>4, FS_Union
<1>8. Cardinality(A \cap C) = 0
  BY <1>5, FS_EmptySet
<1> HIDE DEF A, B, C
<1>9. Cardinality(A \cup C) = Cardinality(A) + Cardinality(B)
  BY <1>2, <1>4, <1>7, <1>8
<1> QED
  BY <1>6, <1>9 DEF Count, A, B

LEMMA CountOne == ASSUME NEW item, NEW P PROVE Count(<<item>>, P) = IF item \in P THEN 1 ELSE 0
<1>1. CASE item \in P
  <2>1. Places(<<item>>, P) = {1}
    BY <1>1 DEF Places
  <2> QED
    BY <1>1, <2>1, FS_Singleton DEF Count
<1>2. CASE item \notin P
  <2>1. Places(<<item>>, P) = {}
    BY <1>2 DEF Places
  <2> QED
    BY <1>2, <2>1, FS_EmptySet DEF Count
<1> QED
  BY <1>1, <1>2

LEMMA CountNone == ASSUME NEW P PROVE Count(<<>>, P) = 0
<1>1. Places(<<>>, P) = {}
  BY DEF Places
<1> QED
  BY <1>1, FS_EmptySet DEF Count

LEMMA CountAll ==
    ASSUME NEW n \in Nat, NEW item, NEW P, item \in P
    PROVE  Count([p \in 1 .. n |-> item], P) = n
<1> DEFINE q == [p \in 1 .. n |-> item]
<1>1. q \in Seq({item}) /\ Len(q) = n
  OBVIOUS
<1>2. Places(q, P) = 1 .. n
  BY <1>1 DEF Places
<1>3. Cardinality(1 .. n) = n
  BY FS_Interval
<1> QED
  BY <1>2, <1>3 DEF Count

LEMMA CountHead ==
    ASSUME NEW S, NEW q \in Seq(S), q # <<>>, NEW P
    PROVE  Count(q, P) = (IF Head(q) \in P THEN 1 ELSE 0) + Count(Tail(q), P)
<1>1. Head(q) \in S /\ Tail(q) \in Seq(S) /\ <<Head(q)>> \in Seq(S)
  OBVIOUS
<1>2. q = <<Head(q)>> \o Tail(q)
  OBVIOUS
<1>3. Count(<<Head(q)>> \o Tail(q), P) = Count(<<Head(q)>>, P) + Count(Tail(q), P)
  BY <1>1, CountConcat
<1> QED
  BY <1>2, <1>3, CountOne

\* Nothing to count.
LEMMA CountZero ==
    ASSUME NEW S, NEW q \in Seq(S), NEW P
    PROVE  Count(q, P) = 0 <=> \A p \in 1 .. Len(q) : q[p] \notin P
<1>1. IsFiniteSet(Places(q, P))
  BY CountIsNat
<1>2. Count(q, P) = 0 <=> Places(q, P) = {}
  BY <1>1, FS_EmptySet DEF Count
<1> QED
  BY <1>2 DEF Places

--------------------
(* The inductive invariant. *)

Item == [do : {"load", "next"}, call : Calls] \cup [do : {"append"}, call : Calls, src : ToSet(Source)]

HeadElement == [call : Calls, src : ToSet(Source), state : {"loading", "loaded", "failed"}]

\* What comes to _gotoNext, now or when the script has been put into the page and loaded.
Tokens == {item \in Item : item.do = "next" \/ (item.do = "append" /\ IsScript(item.src))}

Copies(name) == {e \in HeadElement : e.src = name}
OnTheirWay   == {e \in HeadElement : Loading(e)}

NSource == Len(Source)

AtLoad == todo # <<>> /\ Head(todo).do = "load"

\* How many sources of a call have been taken up, the one at hand included.
TakenUp(c) == IF left[c] = <<>> THEN NSource ELSE NSource - Len(left[c]) + 1

\* How many of the last call have been searched for in the page.
Searched == TakenUp(begun) - (IF AtLoad THEN 1 ELSE 0)

LazyTypes ==
    /\ prefixed \in BOOLEAN /\ overlapped \in BOOLEAN /\ begun \in 0 .. MaxCalls
    /\ left \in [Calls -> Seq(ToSet(Source))]
    /\ elements \in Seq(HeadElement) /\ todo \in Seq(Item)
    /\ ran \in [Calls -> Nat] /\ early \subseteq Calls

\* What is left of a call is the end of the source; nothing is left once the callback has
\* run, and calls not yet made have no elements.
LeftFits ==
    /\ \A c \in Calls :
           /\ Len(left[c]) <= NSource
           /\ \A p \in 1 .. Len(left[c]) : left[c][p] = Source[NSource - Len(left[c]) + p]
           /\ ran[c] > 0 => left[c] = <<>>
           /\ c > begun => left[c] = <<>> /\ ran[c] = 0
    /\ \A p \in 1 .. Len(elements) : elements[p].call <= begun

\* The handler works for one call, and on a source only at the head of the agenda.
TodoFits ==
    /\ \A p, p2 \in 1 .. Len(todo) : todo[p].call = todo[p2].call
    /\ \A p \in 1 .. Len(todo) : /\ todo[p].call <= begun
                                 /\ todo[p].do = "load" => p = 1 /\ left[todo[p].call] # <<>>

Still == ~overlapped /\ AllLoad /\ begun > 0

\* How many elements of an earlier call are taken for a source.
Mistaken == IF prefixed THEN begun - 1 ELSE 0

RanOf(c) == IF prefixed THEN 1 + NSource * (c - 1) ELSE 1

IsAppendOf(item, name) == item.do = "append" /\ item.src = name

\* All that goes on is the last call's.
LastOnly ==
    /\ \A p \in 1 .. Len(todo) : todo[p].call = begun
    /\ \A p \in 1 .. Len(elements) : Loading(elements[p]) => elements[p].call = begun

\* The elements each source has, and those it is about to have.
CopiesFit ==
    /\ \A n \in 1 .. NSource :
           Count(elements, Copies(Source[n])) =
               begun - (IF n <= Searched /\ \A p \in 1 .. Len(todo) : ~IsAppendOf(todo[p], Source[n])
                        THEN 0 ELSE 1)
    /\ \A p \in 1 .. Len(todo) :
           todo[p].do = "append" => /\ \E n \in 1 .. Searched : todo[p].src = Source[n]
                                    /\ \A p2 \in 1 .. Len(todo) :
                                           IsAppendOf(todo[p2], todo[p].src) => p2 = p

\* Each source searched for leads to _gotoNext once for itself and once for each element
\* taken for it; all but the first of each source's lead to the callback.
RunsAddUp ==
    ran[begun] + TakenUp(begun) - 1 + Count(todo, Tokens) + Count(elements, OnTheirWay)
        = Searched * (Mistaken + 1)

CountsFit == Still => /\ \A c \in 1 .. begun - 1 : ran[c] = RanOf(c)
                      /\ LastOnly /\ CopiesFit /\ RunsAddUp

\* Nothing is taken for a loaded script.
Plain == ~prefixed \/ (begun <= 1 /\ ~overlapped /\ AllLoad)

\* What goes on with a call.
IsLive(item) == item \in Tokens \/ item.do = "load"

Behind(c) == \A n \in 1 .. NSource - Len(left[c]) : IsScript(Source[n]) => Source[n] \in Loaded

\* One source after the other.
OneByOne ==
    /\ \A c \in 1 .. begun : Behind(c)
    /\ \A p \in 1 .. Len(todo) :
           LET rest == left[todo[p].call]
           IN  /\ todo[p].do = "next" /\ rest # <<>> /\ IsScript(Head(rest)) => Head(rest) \in Loaded
               /\ todo[p].do = "append" /\ IsScript(todo[p].src) /\ rest # <<>> => todo[p].src = Head(rest)
    /\ \A p \in 1 .. Len(elements) :
           LET rest == left[elements[p].call]
           IN  Loading(elements[p]) /\ rest # <<>> => elements[p].src = Head(rest)
    /\ \A p, p2 \in 1 .. Len(todo) : IsLive(todo[p]) /\ IsLive(todo[p2]) => p = p2
    /\ \A p \in 1 .. Len(todo), e \in 1 .. Len(elements) :
           IsLive(todo[p]) /\ Loading(elements[e]) => todo[p].call # elements[e].call
    /\ \A e, e2 \in 1 .. Len(elements) :
           Loading(elements[e]) /\ Loading(elements[e2]) /\ elements[e].call = elements[e2].call => e = e2

LazyInv ==
    /\ LazyTypes /\ LeftFits /\ TodoFits /\ CountsFit
    /\ Plain => OneByOne
    /\ Still /\ begun > 1 => Scripts \subseteq Loaded
    /\ ~prefixed \/ (~overlapped /\ AllLoad) => early = {}

--------------------
(* What follows from it. *)

LEMMA SourceIs ==
    /\ NSource \in Nat /\ NSource > 0 /\ Source \in Seq(ToSet(Source))
    /\ \A n \in 1 .. NSource : Source[n] \in ToSet(Source)
    /\ \A n, n2 \in 1 .. NSource : Source[n] = Source[n2] => n = n2
    /\ \A name \in ToSet(Source) : \E n \in 1 .. NSource : name = Source[n]
    /\ MaxCalls \in Nat /\ Calls = 1 .. MaxCalls
BY LazyLoadAssumption DEF NSource, ToSet, Calls

LEMMA RestIs ==
    ASSUME LazyTypes, LeftFits, NEW c \in Calls
    PROVE  /\ left[c] \in Seq(ToSet(Source)) /\ Len(left[c]) \in 0 .. NSource
           /\ TakenUp(c) \in 1 .. NSource
           /\ left[c] # <<>> =>
                  /\ TakenUp(c) = NSource - Len(left[c]) + 1
                  /\ Head(left[c]) = Source[TakenUp(c)]
                  /\ Len(Tail(left[c])) = Len(left[c]) - 1 /\ Tail(left[c]) \in Seq(ToSet(Source))
                  /\ \A p \in 1 .. Len(Tail(left[c])) :
                         Tail(left[c])[p] = Source[NSource - Len(Tail(left[c])) + p]
<1>1. left[c] \in Seq(ToSet(Source)) /\ Len(left[c]) \in 0 .. NSource
  BY SourceIs DEF LazyTypes, LeftFits
<1>2. CASE left[c] = <<>>
  BY <1>1, <1>2, SourceIs DEF TakenUp
<1>3. CASE left[c] # <<>>
  <2>1. Len(left[c]) \in 1 .. NSource /\ NSource \in Nat
    BY <1>1, <1>3, SourceIs
  <2>2. TakenUp(c) = NSource - Len(left[c]) + 1
    BY <1>3 DEF TakenUp
  <2>3. Head(left[c]) = Source[NSource - Len(left[c]) + 1]
    <3>1. Head(left[c]) = left[c][1]
      BY <1>1, <1>3
    <3>2. 1 \in 1 .. Len(left[c])
      BY <2>1
    <3>3. left[c][1] = Source[NSource - Len(left[c]) + 1]
      BY <3>2 DEF LeftFits
    <3> QED
      BY <3>1, <3>3
  <2>4. /\ Len(Tail(left[c])) = Len(left[c]) - 1 /\ Tail(left[c]) \in Seq(ToSet(Source))
        /\ \A p \in 1 .. Len(Tail(left[c])) : Tail(left[c])[p] = left[c][p + 1]
    BY <1>1, <1>3, HeadTailProperties
  <2>5. \A p \in 1 .. Len(Tail(left[c])) :
            Tail(left[c])[p] = Source[NSource - Len(Tail(left[c])) + p]
    <3>1. ASSUME NEW p \in 1 .. Len(Tail(left[c])) PROVE Tail(left[c])[p] = Source[NSource - Len(Tail(left[c])) + p]
      <4>1. p + 1 \in 1 .. Len(left[c])
            /\ NSource - Len(left[c]) + (p + 1) = NSource - Len(Tail(left[c])) + p
        <5> DEFINE m == Len(left[c])
                   t == Len(Tail(left[c]))
        <5>1. t = m - 1 /\ m \in 1 .. NSource /\ p \in 1 .. t /\ NSource \in Nat
          BY <2>1, <2>4
        <5> HIDE DEF m, t
        <5>2. p + 1 \in 1 .. m /\ NSource - m + (p + 1) = NSource - t + p
          BY <5>1
        <5> QED
          BY <5>2 DEF m, t
      <4>2. left[c][p + 1] = Source[NSource - Len(left[c]) + (p + 1)]
        BY <4>1 DEF LeftFits
      <4> QED
        BY <2>4, <4>1, <4>2
    <3> QED
      BY <3>1
  <2> QED
    BY <1>1, <2>1, <2>2, <2>3, <2>4, <2>5
<1> QED
  BY <1>2, <1>3

LEMMA ProductSteps ==
    ASSUME NEW a \in Nat, NEW b \in Nat
    PROVE  /\ a * b \in Nat /\ a * (b + 1) = a * b + a /\ (a + 1) * (b + 1) = a * (b + 1) + (b + 1)
           /\ 0 * (b + 1) = 0 /\ a * 0 = 0
OBVIOUS

LEMMA ZeroTimes == \A b \in Nat : 0 * (b + 1) = 0
OBVIOUS

\* At rest the last call has run its callback as often as it will.
LEMMA AtRestDone ==
    ASSUME LazyInv, Still, AtRest
    PROVE  /\ begun \in Calls /\ left[begun] = <<>> /\ Searched = NSource
           /\ ran[begun] = RanOf(begun)
           /\ \A n \in 1 .. NSource : Count(elements, Copies(Source[n])) = begun
           /\ Scripts \subseteq Loaded
<1>1. LazyTypes /\ LeftFits /\ CopiesFit /\ RunsAddUp /\ todo = <<>> /\ begun > 0
  BY DEF LazyInv, CountsFit, Still, AtRest
<1>2. begun \in Calls /\ begun \in Nat /\ begun - 1 \in Nat
  BY <1>1, SourceIs DEF LazyTypes
<1>3. Count(todo, Tokens) = 0
  BY <1>1, CountNone
<1>4. Count(elements, OnTheirWay) = 0
  <2>1. \A p \in 1 .. Len(elements) : elements[p] \notin OnTheirWay
    BY DEF AtRest, OnTheirWay
  <2> QED
    BY <1>1, <2>1, CountZero DEF LazyTypes
<1>5. Searched = TakenUp(begun) /\ TakenUp(begun) \in 1 .. NSource
  <2>1. ~AtLoad
    BY <1>1 DEF AtLoad
  <2>2. TakenUp(begun) \in 1 .. NSource
    BY <1>1, <1>2, RestIs
  <2> QED
    BY <2>1, <2>2 DEF Searched
<1>6. Mistaken \in Nat /\ ran[begun] \in Nat
  BY <1>1, <1>2 DEF Mistaken, LazyTypes
<1>7. ran[begun] = 1 + TakenUp(begun) * Mistaken /\ TakenUp(begun) * Mistaken \in Nat
  <2>1. ran[begun] + TakenUp(begun) - 1 + 0 + 0 = TakenUp(begun) * (Mistaken + 1)
    BY <1>1, <1>3, <1>4, <1>5 DEF RunsAddUp
  <2>2. TakenUp(begun) * (Mistaken + 1) = TakenUp(begun) * Mistaken + TakenUp(begun)
        /\ TakenUp(begun) * Mistaken \in Nat
    BY <1>5, <1>6, ProductSteps
  <2> QED
    BY <1>5, <1>6, <2>1, <2>2
<1>8. left[begun] = <<>> /\ TakenUp(begun) = NSource
  <2>1. ran[begun] > 0
    BY <1>7
  <2> QED
    BY <1>1, <1>2, <2>1 DEF LeftFits, TakenUp
<1>9. ran[begun] = RanOf(begun)
  <2>1. NSource * 0 = 0
    BY SourceIs
  <2> QED
    BY <1>7, <1>8, <2>1 DEF RanOf, Mistaken
<1>10. \A n \in 1 .. NSource : Count(elements, Copies(Source[n])) = begun
  <2>1. \A n \in 1 .. NSource : n <= Searched /\ \A p \in 1 .. Len(todo) : ~IsAppendOf(todo[p], Source[n])
    BY <1>1, <1>5, <1>8
  <2> QED
    BY <1>1, <1>2, <2>1 DEF CopiesFit
<1>11. Scripts \subseteq Loaded
  <2>1. ASSUME NEW name \in Scripts PROVE name \in Loaded
    <3>1. PICK n \in 1 .. NSource : name = Source[n]
      BY SourceIs DEF Scripts
    <3>2. ~(Count(elements, Copies(name)) = 0)
      BY <1>2, <1>10, <3>1
    <3>3. PICK p \in 1 .. Len(elements) : elements[p] \in Copies(name)
      BY <1>1, <3>2, CountZero DEF LazyTypes
    <3>4. elements[p] \in HeadElement /\ elements[p].src = name /\ p \in DOMAIN elements
      BY <1>1, <3>3 DEF LazyTypes, Copies
    <3>5. elements[p].state = "loaded"
      BY <3>4 DEF AtRest, Still, AllLoad, Loading, HeadElement
    <3> QED
      BY <3>4, <3>5 DEF Loaded
  <2> QED
    BY <2>1
<1> QED
  BY <1>2, <1>5, <1>8, <1>9, <1>10, <1>11

\* The property.
LEMMA InvIsEnough == LazyInv => ReadyWhenCalled
<1> SUFFICES ASSUME LazyInv PROVE ReadyWhenCalled
  OBVIOUS
<1>1. early # {} => prefixed /\ (overlapped \/ ~AllLoad)
  BY DEF LazyInv, LazyTypes
<1>2. ASSUME AtRest, AllLoad, ~overlapped, NEW c \in 1 .. begun PROVE ran[c] = RanOf(c)
  <2>1. begun \in Nat /\ Still
    BY <1>2 DEF LazyInv, LazyTypes, Still
  <2>2. CASE c = begun
    BY <1>2, <2>1, <2>2, AtRestDone
  <2>3. CASE c # begun
    <3>1. c \in 1 .. begun - 1
      BY <2>1, <2>3
    <3> QED
      BY <2>1, <3>1 DEF LazyInv, CountsFit
  <2> QED
    BY <2>2, <2>3
<1> QED
  BY <1>1, <1>2 DEF ReadyWhenCalled, RanOf, NSource

--------------------
(* The actions. *)

LEMMA LazyInvAtFirst == LazyInit => LazyInv
<1> SUFFICES ASSUME LazyInit PROVE LazyInv
  OBVIOUS
<1>1. LazyTypes
  <2>1. left \in [Calls -> Seq(ToSet(Source))] /\ ran \in [Calls -> Nat]
    BY DEF LazyInit
  <2>2. elements \in Seq(HeadElement) /\ todo \in Seq(Item)
    BY DEF LazyInit
  <2>3. begun = 0 /\ early = {} /\ MaxCalls \in Nat
    BY SourceIs DEF LazyInit
  <2>4. begun \in 0 .. MaxCalls /\ early \subseteq Calls
    BY <2>3
  <2>5. prefixed \in BOOLEAN /\ overlapped \in BOOLEAN
    BY Zenon DEF LazyInit
  <2> QED
    BY <2>1, <2>2, <2>4, <2>5 DEF LazyTypes
<1>2. LeftFits
  <2>1. \A c \in Calls : left[c] = <<>> /\ ran[c] = 0
    BY DEF LazyInit
  <2>2. elements = <<>> /\ NSource \in Nat
    BY SourceIs DEF LazyInit
  <2>3. \A p \in 1 .. Len(elements) : FALSE
    BY <2>2
  <2>4. ASSUME NEW c \in Calls
        PROVE  /\ Len(left[c]) <= NSource
               /\ \A p \in 1 .. Len(left[c]) : left[c][p] = Source[NSource - Len(left[c]) + p]
    <3>1. Len(left[c]) = 0
      BY <2>1
    <3> QED
      BY <2>2, <3>1
  <2> QED
    BY <2>1, <2>3, <2>4 DEF LeftFits
<1>3. TodoFits /\ CountsFit
  BY DEF LazyInit, TodoFits, CountsFit, Still
<1>4. OneByOne
  <2>1. begun = 0 /\ todo = <<>> /\ elements = <<>>
    BY DEF LazyInit
  <2> QED
    BY <2>1 DEF OneByOne
<1>5. ~(begun > 1) /\ early = {}
  BY DEF LazyInit
<1> QED
  BY <1>1, <1>2, <1>3, <1>4, <1>5 DEF LazyInv

\* A call finds the page at rest, or the calls overlap.
LEMMA LazyLoadKeeps == ASSUME LazyInv, LazyLoad PROVE LazyInv'
<1>0. LazyTypes /\ LeftFits /\ TodoFits
  BY DEF LazyInv
<1> DEFINE c == begun + 1
           item == [do |-> "load", call |-> c]
<1>1. /\ begun < MaxCalls /\ todo = <<>> /\ begun' = c /\ left' = [left EXCEPT ![c] = Source]
      /\ todo' = <<item>> /\ overlapped' = (overlapped \/ ~AtRest)
      /\ prefixed' = prefixed /\ elements' = elements /\ ran' = ran /\ early' = early
  BY DEF LazyLoad
<1>2. begun \in Nat /\ c \in Calls /\ begun \notin {c} /\ c \in Nat /\ c # 0 /\ c - 1 = begun
  BY <1>0, <1>1, SourceIs DEF LazyTypes
<1>3. item \in Item /\ item.do = "load" /\ item.call = c /\ item \notin Tokens
  BY <1>2 DEF Item, Tokens
<1>4. /\ todo' \in Seq(Item) /\ Len(todo') = 1 /\ todo'[1] = item /\ todo' # <<>> /\ Head(todo') = item
      /\ \A p \in 1 .. Len(todo') : p = 1
  BY <1>1, <1>3
<1>5. left'[c] = Source /\ \A d \in Calls : d # c => left'[d] = left[d]
  BY <1>0, <1>1, <1>2 DEF LazyTypes
<1>6. Source # <<>> /\ Len(Source) = NSource /\ NSource \in Nat /\ NSource > 0
  BY SourceIs DEF NSource
<1>7. ran[c] = 0 /\ c > begun
  BY <1>0, <1>2 DEF LeftFits
<1> HIDE DEF item, c
<1>8. LazyTypes'
  <2>1. left' \in [Calls -> Seq(ToSet(Source))]
    BY <1>0, <1>1, SourceIs DEF LazyTypes
  <2>2. overlapped' \in BOOLEAN
    BY <1>0, <1>1 DEF LazyTypes
  <2>3. begun' \in 0 .. MaxCalls
    BY <1>1, <1>2, SourceIs
  <2> QED
    BY <1>0, <1>1, <1>4, <2>1, <2>2, <2>3 DEF LazyTypes
<1>9. LeftFits'
  <2>1. ASSUME NEW d \in Calls
        PROVE  /\ Len(left'[d]) <= NSource
               /\ \A p \in 1 .. Len(left'[d]) : left'[d][p] = Source[NSource - Len(left'[d]) + p]
               /\ ran'[d] > 0 => left'[d] = <<>>
               /\ d > begun' => left'[d] = <<>> /\ ran'[d] = 0
    <3>1. CASE d = c
      <4>1. \A p \in 1 .. NSource : NSource - NSource + p = p
        BY <1>6
      <4>2. ~(d > begun') /\ ~(ran'[d] > 0)
        BY <1>1, <1>2, <1>7, <3>1
      <4>3. left'[d] = Source
        BY <1>5, <3>1
      <4>4. Len(left'[d]) <= NSource
            /\ \A p \in 1 .. Len(left'[d]) : left'[d][p] = Source[NSource - Len(left'[d]) + p]
        BY <1>6, <4>1, <4>3
      <4> QED
        BY <4>2, <4>4
    <3>2. CASE d # c
      <4>1. d > begun' => d > begun
        BY <1>1, <1>2, SourceIs DEF c
      <4> QED
        BY <1>0, <1>1, <1>5, <3>2, <4>1 DEF LeftFits
    <3> QED
      BY <3>1, <3>2
  <2>2. ASSUME NEW p \in 1 .. Len(elements') PROVE elements'[p].call <= begun'
    <3>1. elements[p].call <= begun /\ elements[p].call \in Nat
      <4>1. elements[p] \in HeadElement
        BY <1>0, <1>1 DEF LazyTypes
      <4>2. elements[p].call \in Nat
        BY <4>1, SourceIs DEF HeadElement
      <4> QED
        BY <1>0, <1>1, <4>2 DEF LeftFits
    <3> QED
      BY <1>1, <1>2, <3>1 DEF c
  <2> QED
    BY <2>1, <2>2 DEF LeftFits, NSource
<1>10. TodoFits'
  BY <1>1, <1>2, <1>3, <1>4, <1>5, <1>6 DEF TodoFits
<1>11. TakenUp(begun)' = 1 /\ AtLoad' /\ Searched' = 0
  <2>1. TakenUp(begun)' = NSource - NSource + 1
    BY <1>1, <1>5, <1>6 DEF TakenUp, NSource
  <2>2. AtLoad'
    BY <1>3, <1>4 DEF AtLoad
  <2> QED
    BY <1>6, <2>1, <2>2 DEF Searched
<1>12. ASSUME Still' PROVE AtRest /\ ~overlapped /\ AllLoad /\ (begun > 0 => Still)
  BY <1>1, <1>12 DEF Still, AllLoad
<1>13. begun = 0 => elements = <<>>
  <2>1. ASSUME begun = 0, elements # <<>> PROVE FALSE
    <3>1. 1 \in 1 .. Len(elements) /\ elements[1] \in HeadElement
      BY <1>0, <2>1 DEF LazyTypes
    <3>2. elements[1].call \in Calls /\ elements[1].call <= 0
      BY <1>0, <2>1, <3>1 DEF LeftFits, HeadElement
    <3> QED
      BY <3>2, SourceIs
  <2> QED
    BY <2>1
<1>14. CountsFit'
  <2> SUFFICES ASSUME Still'
               PROVE  /\ \A d \in 1 .. begun' - 1 : ran'[d] = RanOf(d)'
                      /\ LastOnly' /\ CopiesFit' /\ RunsAddUp'
    BY DEF CountsFit
  <2>1. \A d \in 1 .. begun' - 1 : ran'[d] = RanOf(d)'
    <3> SUFFICES ASSUME NEW d \in 1 .. begun PROVE ran[d] = RanOf(d)
      BY <1>1, <1>2 DEF RanOf, NSource
    <3>1. begun > 0 /\ Still
      BY <1>2, <1>12
    <3>2. CASE d = begun
      BY <1>12, <3>1, <3>2, AtRestDone
    <3>3. CASE d # begun
      <4>1. d \in 1 .. begun - 1
        BY <1>2, <3>3
      <4> QED
        BY <3>1, <4>1 DEF LazyInv, CountsFit
    <3> QED
      BY <3>2, <3>3
  <2>2. LastOnly'
    <3>1. \A p \in 1 .. Len(elements) : ~Loading(elements[p])
      BY <1>0, <1>12 DEF AtRest, LazyTypes
    <3>2. \A p \in 1 .. Len(elements') : ~Loading(elements'[p])
      BY <1>1, <3>1
    <3> QED
      BY <1>1, <1>3, <1>4, <3>2 DEF LastOnly
  <2>3. \A n \in 1 .. NSource : Count(elements, Copies(Source[n])) = begun
    <3>1. CASE begun > 0
      BY <1>12, <3>1, AtRestDone
    <3>2. CASE ~(begun > 0)
      BY <1>2, <1>13, <3>2, CountNone
    <3> QED
      BY <3>1, <3>2
  <2>4. CopiesFit'
    <3>1. \A n \in 1 .. NSource : ~(n <= Searched')
      BY <1>11
    <3>2. \A n \in 1 .. NSource : Count(elements, Copies(Source[n]))' = Count(elements, Copies(Source[n]))
      BY <1>1 DEF Copies
    <3>3. \A p \in 1 .. Len(todo') : todo'[p].do # "append"
      BY <1>3, <1>4
    <3> QED
      BY <1>1, <1>2, <2>3, <3>1, <3>2, <3>3 DEF CopiesFit, NSource
  <2>5. RunsAddUp'
    <3>1. Count(todo, Tokens)' = 0
      <4>1. Count(<<item>>, Tokens) = 0
        BY <1>3, CountOne
      <4> QED
        BY <1>1, <4>1 DEF Tokens
    <3>2. Count(elements, OnTheirWay)' = 0
      <4>1. \A p \in 1 .. Len(elements) : elements[p] \notin OnTheirWay
        BY <1>0, <1>12 DEF AtRest, OnTheirWay, LazyTypes
      <4>2. Count(elements, OnTheirWay) = 0
        BY <1>0, <4>1, CountZero DEF LazyTypes
      <4> QED
        BY <1>1, <4>2 DEF OnTheirWay
    <3>3. Mistaken' \in Nat
      BY <1>1, <1>2 DEF Mistaken
    <3>4. 0 * (Mistaken' + 1) = 0
      BY <3>3, ZeroTimes
    <3>5. ran'[begun'] = 0
      BY <1>1, <1>7
    <3> QED
      BY <1>11, <3>1, <3>2, <3>4, <3>5 DEF RunsAddUp
  <2> QED
    BY <2>1, <2>2, <2>4, <2>5
<1>15. Plain' => OneByOne'
  <2> SUFFICES ASSUME Plain' PROVE OneByOne'
    OBVIOUS
  <2>1. Plain
    <3>1. begun' <= 1 => begun <= 1
      BY <1>1, <1>2 DEF c
    <3>2. ~overlapped' => ~overlapped
      BY <1>1
    <3> QED
      BY <1>1, <3>1, <3>2 DEF Plain, AllLoad
  <2>2. OneByOne
    BY <2>1 DEF LazyInv
  <2>3. Loaded' = Loaded
    BY <1>1 DEF Loaded
  <2>4. ASSUME NEW d \in 1 .. begun' PROVE Behind(d)'
    <3>1. CASE d = c
      <4>1. NSource - Len(left'[d]) = 0
        BY <1>5, <1>6, <3>1
      <4>2. \A n \in 1 .. NSource - Len(left'[d]) : FALSE
        BY <4>1
      <4> QED
        BY <4>2 DEF Behind, NSource
    <3>2. CASE d # c
      <4>1. d \in 1 .. begun /\ d \in Calls
        BY <1>0, <1>1, <1>2, <3>2, SourceIs DEF c, LazyTypes
      <4> QED
        BY <1>5, <2>2, <2>3, <3>2, <4>1 DEF OneByOne, Behind, NSource
    <3> QED
      BY <3>1, <3>2
  <2>5. ASSUME NEW p \in 1 .. Len(elements') PROVE elements'[p] = elements[p] /\ elements[p].call # c /\ elements[p].call \in Calls
    <3>1. elements[p] \in HeadElement /\ p \in 1 .. Len(elements)
      BY <1>0, <1>1 DEF LazyTypes
    <3>2. elements[p].call \in Calls /\ elements[p].call <= begun
      BY <1>0, <3>1 DEF HeadElement, LeftFits
    <3> QED
      BY <1>1, <1>2, <3>2, SourceIs DEF c
  <2>6. ASSUME NEW p \in 1 .. Len(elements'), Loading(elements'[p]), left'[elements'[p].call] # <<>>
        PROVE  elements'[p].src = Head(left'[elements'[p].call])
    BY <1>1, <1>5, <2>2, <2>5, <2>6 DEF OneByOne
  <2>7. \A e, e2 \in 1 .. Len(elements') :
            Loading(elements'[e]) /\ Loading(elements'[e2]) /\ elements'[e].call = elements'[e2].call => e = e2
    BY <1>1, <2>2 DEF OneByOne
  <2>8. \A p \in 1 .. Len(todo') : todo'[p].do = "load" /\ todo'[p].call = c
    BY <1>3, <1>4
  <2>9. \A p \in 1 .. Len(todo'), e \in 1 .. Len(elements') : todo'[p].call # elements'[e].call
    BY <2>5, <2>8
  <2>10. \A p, p2 \in 1 .. Len(todo') : p = p2
    BY <1>4
  <2> QED
    BY <2>4, <2>6, <2>7, <2>8, <2>9, <2>10 DEF OneByOne
<1>16. Still' /\ begun' > 1 => Scripts' \subseteq Loaded'
  <2> SUFFICES ASSUME Still', begun' > 1 PROVE Scripts' \subseteq Loaded'
    OBVIOUS
  <2>1. begun > 0
    BY <1>1, <1>2 DEF c
  <2>2. Scripts \subseteq Loaded
    BY <1>12, <2>1, AtRestDone
  <2> QED
    BY <1>1, <2>2 DEF Scripts, Loaded
<1>17. ~prefixed' \/ (~overlapped' /\ AllLoad') => early' = {}
  BY <1>1 DEF LazyInv, AllLoad
<1> QED
  BY <1>8, <1>9, <1>10, <1>14, <1>15, <1>16, <1>17 DEF LazyInv

\* The agenda after the work of a handler at its head.
LEMMA TodoIs ==
    ASSUME LazyTypes, todo # <<>>, NEW new \in Seq(Item), todo' = new \o Tail(todo)
    PROVE  /\ todo' \in Seq(Item) /\ Len(todo) \in Nat /\ Len(new) \in Nat /\ Len(todo') \in Nat
           /\ Head(todo) = todo[1] /\ todo[1] \in Item /\ 1 \in 1 .. Len(todo)
           /\ Len(new) <= Len(todo') /\ \A p \in 1 .. Len(new) : todo'[p] = new[p]
           /\ \A p \in 1 .. Len(todo') :
                  \/ p \in 1 .. Len(new) /\ todo'[p] = new[p]
                  \/ \E p2 \in 2 .. Len(todo) : p = p2 - 1 + Len(new) /\ todo'[p] = todo[p2]
           /\ \A p2 \in 2 .. Len(todo) :
                  p2 - 1 + Len(new) \in 1 .. Len(todo') /\ todo'[p2 - 1 + Len(new)] = todo[p2]
           /\ \A P : /\ Count(todo', P) = Count(new, P) + Count(todo, P) - (IF Head(todo) \in P THEN 1 ELSE 0)
                     /\ Count(new, P) \in Nat /\ Count(todo, P) \in Nat
<1>1. /\ todo \in Seq(Item) /\ Len(todo) \in Nat /\ Len(new) \in Nat
      /\ Head(todo) = todo[1] /\ todo[1] \in Item /\ 1 \in 1 .. Len(todo)
  BY DEF LazyTypes
<1>2. /\ Tail(todo) \in Seq(Item) /\ Len(Tail(todo)) = Len(todo) - 1
      /\ \A p \in 1 .. Len(Tail(todo)) : Tail(todo)[p] = todo[p + 1]
  BY <1>1, HeadTailProperties
<1>3. /\ todo' \in Seq(Item) /\ Len(todo') = Len(new) + Len(Tail(todo))
      /\ \A p \in 1 .. Len(new) + Len(Tail(todo)) :
             todo'[p] = IF p <= Len(new) THEN new[p] ELSE Tail(todo)[p - Len(new)]
  BY <1>2, ConcatProperties
<1>4. Len(new) <= Len(todo') /\ \A p \in 1 .. Len(new) : todo'[p] = new[p]
  BY <1>1, <1>2, <1>3
<1>5. ASSUME NEW p \in 1 .. Len(todo')
      PROVE  \/ p \in 1 .. Len(new) /\ todo'[p] = new[p]
             \/ \E p2 \in 2 .. Len(todo) : p = p2 - 1 + Len(new) /\ todo'[p] = todo[p2]
  <2>1. CASE p <= Len(new)
    BY <1>1, <1>4, <2>1
  <2>2. CASE ~(p <= Len(new))
    <3>1. p - Len(new) \in 1 .. Len(Tail(todo)) /\ (p - Len(new)) + 1 \in 2 .. Len(todo)
          /\ p = ((p - Len(new)) + 1) - 1 + Len(new)
      BY <1>1, <1>2, <1>3, <2>2
    <3>2. todo'[p] = todo[(p - Len(new)) + 1]
      BY <1>2, <1>3, <2>2, <3>1
    <3> QED
      BY <3>1, <3>2
  <2> QED
    BY <2>1, <2>2
<1>6. ASSUME NEW p2 \in 2 .. Len(todo)
      PROVE  p2 - 1 + Len(new) \in 1 .. Len(todo') /\ todo'[p2 - 1 + Len(new)] = todo[p2]
  <2>1. /\ p2 - 1 + Len(new) \in 1 .. Len(new) + Len(Tail(todo)) /\ ~(p2 - 1 + Len(new) <= Len(new))
        /\ (p2 - 1 + Len(new)) - Len(new) = p2 - 1
        /\ p2 - 1 \in 1 .. Len(Tail(todo)) /\ (p2 - 1) + 1 = p2
    BY <1>1, <1>2
  <2>2. todo'[p2 - 1 + Len(new)] = Tail(todo)[p2 - 1]
    BY <1>3, <2>1
  <2> QED
    BY <1>2, <1>3, <2>1, <2>2
<1>7. ASSUME NEW P
      PROVE  /\ Count(todo', P) = Count(new, P) + Count(todo, P) - (IF Head(todo) \in P THEN 1 ELSE 0)
             /\ Count(new, P) \in Nat /\ Count(todo, P) \in Nat
  <2>1. Count(todo', P) = Count(new, P) + Count(Tail(todo), P)
    BY <1>2, CountConcat
  <2>2. Count(todo, P) = (IF Head(todo) \in P THEN 1 ELSE 0) + Count(Tail(todo), P)
    BY <1>1, CountHead
  <2>3. Count(new, P) \in Nat /\ Count(todo, P) \in Nat /\ Count(Tail(todo), P) \in Nat
    BY <1>1, <1>2, CountIsNat
  <2> QED
    BY <2>1, <2>2, <2>3
<1> QED
  BY <1>1, <1>3, <1>4, <1>5, <1>6, <1>7

\* How many elements are the source's.
LEMMA SameIs ==
    ASSUME LazyTypes, NEW name \in ToSet(Source)
    PROVE  Same(name) = IF prefixed THEN Count(elements, Copies(name)) ELSE 0
<1>1. {p \in DOMAIN elements : elements[p].src = name} = Places(elements, Copies(name))
  BY DEF LazyTypes, Places, Copies
<1> QED
  BY <1>1 DEF Same, Count

\* The call and the source at hand, and what _load puts on the agenda.
TheCall == Head(todo).call
TheName == Head(left[TheCall])
Nexts   == Same(TheName) + (IF IsScript(TheName) THEN 0 ELSE 1)
Append1 == [do |-> "append", call |-> TheCall, src |-> TheName]
AfterLoad == [el \in 1 .. Nexts |-> GotoNext(TheCall)] \o <<Append1>>

\* The handler at the head of the agenda works for a call that has been made.
LEMMA TheCallIs ==
    ASSUME LazyTypes, TodoFits, todo # <<>>
    PROVE  /\ Head(todo) = todo[1] /\ todo[1] \in Item /\ 1 \in 1 .. Len(todo) /\ Len(todo) \in Nat
           /\ TheCall = todo[1].call /\ TheCall \in Calls /\ TheCall <= begun /\ TheCall \in 1 .. begun
           /\ \A p \in 1 .. Len(todo) : todo[p] \in Item /\ todo[p].call = TheCall
           /\ \A p \in 2 .. Len(todo) : p \in 1 .. Len(todo) /\ todo[p].do # "load"
<1>1. Head(todo) = todo[1] /\ 1 \in 1 .. Len(todo) /\ Len(todo) \in Nat
      /\ \A p \in 1 .. Len(todo) : todo[p] \in Item
  BY DEF LazyTypes
<1>2. \A item \in Item : item.call \in Calls
  BY DEF Item
<1>3. TheCall = todo[1].call
  BY <1>1 DEF TheCall
<1>4. TheCall \in Calls /\ TheCall <= begun
  BY <1>1, <1>2, <1>3 DEF TodoFits
<1>5. TheCall \in 1 .. begun
  BY <1>4, SourceIs DEF LazyTypes
<1>6. \A p \in 2 .. Len(todo) : p \in 1 .. Len(todo) /\ p # 1
  BY <1>1
<1> QED
  BY <1>1, <1>3, <1>4, <1>5, <1>6 DEF TodoFits

\* What _load puts on the agenda.
LEMMA LoadIs ==
    ASSUME LazyTypes, LeftFits, TodoFits, Load
    PROVE  /\ todo # <<>> /\ Head(todo).do = "load" /\ left[TheCall] # <<>>
           /\ TheName = Source[TakenUp(TheCall)] /\ TakenUp(TheCall) \in 1 .. NSource
           /\ TheName \in ToSet(Source) /\ Same(TheName) \in Nat /\ Nexts \in Nat
           /\ AfterLoad \in Seq(Item) /\ Len(AfterLoad) = Nexts + 1 /\ AfterLoad[Nexts + 1] = Append1
           /\ \A p \in 1 .. Nexts : AfterLoad[p] = GotoNext(TheCall)
           /\ GotoNext(TheCall) \in Item /\ Append1 \in Item
           /\ Count(AfterLoad, Tokens) = Same(TheName) + 1
           /\ todo' = AfterLoad \o Tail(todo)
           /\ prefixed' = prefixed /\ begun' = begun /\ left' = left /\ elements' = elements
           /\ ran' = ran /\ early' = early /\ overlapped' = overlapped
<1> DEFINE nexts == [p \in 1 .. Nexts |-> GotoNext(TheCall)]
<1>1. todo # <<>> /\ Head(todo).do = "load"
  BY DEF Load, ToDo
<1>2. /\ todo' = AfterLoad \o Tail(todo)
      /\ prefixed' = prefixed /\ begun' = begun /\ left' = left /\ elements' = elements
      /\ ran' = ran /\ early' = early /\ overlapped' = overlapped
  <2>1. todo' = [el \in 1 .. Nexts |-> GotoNext(TheCall)] \o <<Append1>> \o Tail(todo)
    BY Zenon DEF Load, Nexts, TheName, TheCall, Append1
  <2> QED
    BY <2>1 DEF Load, AfterLoad
<1>3. TheCall \in Calls /\ left[TheCall] # <<>>
  BY <1>1, TheCallIs DEF TodoFits
<1>4. TheName = Source[TakenUp(TheCall)] /\ TakenUp(TheCall) \in 1 .. NSource
  BY <1>3, RestIs DEF TheName
<1>5. TheName \in ToSet(Source)
  BY <1>4, SourceIs
<1>6. Same(TheName) \in Nat
  <2>1. Count(elements, Copies(TheName)) \in Nat
    BY CountIsNat DEF LazyTypes
  <2> QED
    BY <1>5, <2>1, SameIs
<1>7. Nexts \in Nat
  BY <1>6 DEF Nexts
<1>8. GotoNext(TheCall) \in Item /\ GotoNext(TheCall) \in Tokens
  BY <1>3 DEF GotoNext, Item, Tokens
<1>9. Append1 \in Item /\ (Append1 \in Tokens <=> IsScript(TheName))
  BY <1>3, <1>5 DEF Item, Tokens, Append1
<1>10. nexts \in Seq(Item) /\ Len(nexts) = Nexts /\ \A p \in 1 .. Nexts : nexts[p] = GotoNext(TheCall)
  BY <1>7, <1>8
<1>11. Count(nexts, Tokens) = Nexts
  BY <1>7, <1>8, CountAll
<1>12. <<Append1>> \in Seq(Item) /\ Len(<<Append1>>) = 1 /\ <<Append1>>[1] = Append1
  BY <1>9
<1>13. AfterLoad = nexts \o <<Append1>>
  BY DEF AfterLoad
<1> HIDE DEF nexts
<1>14. /\ AfterLoad \in Seq(Item) /\ Len(AfterLoad) = Nexts + 1 /\ AfterLoad[Nexts + 1] = Append1
       /\ \A p \in 1 .. Nexts : AfterLoad[p] = GotoNext(TheCall)
  <2>1. /\ AfterLoad \in Seq(Item) /\ Len(AfterLoad) = Len(nexts) + Len(<<Append1>>)
        /\ \A p \in 1 .. Len(nexts) + Len(<<Append1>>) :
               AfterLoad[p] = IF p <= Len(nexts) THEN nexts[p] ELSE <<Append1>>[p - Len(nexts)]
    BY <1>10, <1>12, <1>13, ConcatProperties
  <2>2. AfterLoad[Nexts + 1] = Append1
    <3>1. Nexts + 1 \in 1 .. Nexts + 1 /\ ~(Nexts + 1 <= Nexts) /\ (Nexts + 1) - Nexts = 1
      BY <1>7
    <3> QED
      BY <1>10, <1>12, <2>1, <3>1
  <2>3. \A p \in 1 .. Nexts : AfterLoad[p] = GotoNext(TheCall)
    <3>1. \A p \in 1 .. Nexts : p \in 1 .. Nexts + 1 /\ p <= Nexts
      BY <1>7
    <3> QED
      BY <1>10, <1>12, <2>1, <3>1
  <2> QED
    BY <1>10, <1>12, <2>1, <2>2, <2>3
<1>15. Count(AfterLoad, Tokens) = Same(TheName) + 1
  <2>1. Count(AfterLoad, Tokens) = Count(nexts, Tokens) + Count(<<Append1>>, Tokens)
    BY <1>10, <1>12, <1>13, CountConcat
  <2>2. Count(<<Append1>>, Tokens) = IF IsScript(TheName) THEN 1 ELSE 0
    BY <1>9, CountOne
  <2> QED
    BY <1>6, <1>11, <2>1, <2>2 DEF Nexts
<1> QED
  BY <1>1, <1>2, <1>3, <1>4, <1>5, <1>6, <1>7, <1>8, <1>9, <1>14, <1>15

\* The agenda after _load.
LEMMA LoadItems ==
    ASSUME LazyTypes, LeftFits, TodoFits, Load
    PROVE  /\ todo' \in Seq(Item) /\ Len(todo') \in Nat /\ todo' # <<>> /\ Head(todo') = todo'[1]
           /\ \A p \in 1 .. Len(todo') :
                  \/ p \in 1 .. Nexts /\ todo'[p] = GotoNext(TheCall)
                  \/ p = Nexts + 1 /\ todo'[p] = Append1
                  \/ \E p2 \in 2 .. Len(todo) : p = p2 + Nexts /\ todo'[p] = todo[p2]
           /\ \A p2 \in 2 .. Len(todo) : p2 + Nexts \in 1 .. Len(todo') /\ todo'[p2 + Nexts] = todo[p2]
           /\ Nexts + 1 \in 1 .. Len(todo') /\ todo'[Nexts + 1] = Append1
           /\ Count(todo', Tokens) = Same(TheName) + 1 + Count(todo, Tokens)
           /\ \A p \in 1 .. Len(todo') : todo'[p].call = TheCall /\ todo'[p].do # "load"
<1>1. /\ todo # <<>> /\ Nexts \in Nat /\ AfterLoad \in Seq(Item) /\ Len(AfterLoad) = Nexts + 1
      /\ todo' = AfterLoad \o Tail(todo) /\ AfterLoad[Nexts + 1] = Append1
      /\ \A p \in 1 .. Nexts : AfterLoad[p] = GotoNext(TheCall)
      /\ Same(TheName) \in Nat /\ Count(AfterLoad, Tokens) = Same(TheName) + 1
      /\ Head(todo).do = "load"
  BY LoadIs
<1>2. /\ todo' \in Seq(Item) /\ Len(todo) \in Nat /\ Len(todo') \in Nat
      /\ Len(AfterLoad) <= Len(todo') /\ \A p \in 1 .. Len(AfterLoad) : todo'[p] = AfterLoad[p]
      /\ \A p \in 1 .. Len(todo') :
             \/ p \in 1 .. Len(AfterLoad) /\ todo'[p] = AfterLoad[p]
             \/ \E p2 \in 2 .. Len(todo) : p = p2 - 1 + Len(AfterLoad) /\ todo'[p] = todo[p2]
      /\ \A p2 \in 2 .. Len(todo) :
             p2 - 1 + Len(AfterLoad) \in 1 .. Len(todo') /\ todo'[p2 - 1 + Len(AfterLoad)] = todo[p2]
      /\ Count(todo', Tokens) = Count(AfterLoad, Tokens) + Count(todo, Tokens) - (IF Head(todo) \in Tokens THEN 1 ELSE 0)
      /\ Count(todo, Tokens) \in Nat
  BY <1>1, TodoIs
<1>3. \A p2 \in 2 .. Len(todo) : p2 - 1 + (Nexts + 1) = p2 + Nexts
  BY <1>1, <1>2
<1>4. ASSUME NEW p \in 1 .. Len(todo')
      PROVE  \/ p \in 1 .. Nexts /\ todo'[p] = GotoNext(TheCall)
             \/ p = Nexts + 1 /\ todo'[p] = Append1
             \/ \E p2 \in 2 .. Len(todo) : p = p2 + Nexts /\ todo'[p] = todo[p2]
  <2>1. CASE p \in 1 .. Len(AfterLoad) /\ todo'[p] = AfterLoad[p]
    <3>1. p \in 1 .. Nexts \/ p = Nexts + 1
      BY <1>1, <2>1
    <3> QED
      BY <1>1, <2>1, <3>1
  <2>2. CASE \E p2 \in 2 .. Len(todo) : p = p2 - 1 + Len(AfterLoad) /\ todo'[p] = todo[p2]
    BY <1>1, <1>3, <2>2
  <2> QED
    BY <1>2, <2>1, <2>2
<1>5. \A p2 \in 2 .. Len(todo) : p2 + Nexts \in 1 .. Len(todo') /\ todo'[p2 + Nexts] = todo[p2]
  BY <1>1, <1>2, <1>3
<1>6. Nexts + 1 \in 1 .. Len(todo') /\ Nexts + 1 \in 1 .. Len(AfterLoad)
  BY <1>1, <1>2
<1>7. todo'[Nexts + 1] = Append1
  BY <1>1, <1>2, <1>6
<1>8. Head(todo) \notin Tokens
  BY <1>1 DEF Tokens
<1>9. Count(todo', Tokens) = Same(TheName) + 1 + Count(todo, Tokens)
  BY <1>1, <1>2, <1>8
<1>10. ASSUME NEW p \in 1 .. Len(todo') PROVE todo'[p].call = TheCall /\ todo'[p].do # "load"
  <2>1. CASE p \in 1 .. Nexts /\ todo'[p] = GotoNext(TheCall)
    BY <2>1 DEF GotoNext
  <2>2. CASE p = Nexts + 1 /\ todo'[p] = Append1
    BY <2>2 DEF Append1
  <2>3. CASE \E p2 \in 2 .. Len(todo) : p = p2 + Nexts /\ todo'[p] = todo[p2]
    BY <1>1, <2>3, TheCallIs
  <2> QED
    BY <1>4, <2>1, <2>2, <2>3
<1>11. todo' # <<>> /\ Head(todo') = todo'[1]
  BY <1>2, <1>6
<1> QED
  BY <1>2, <1>4, <1>5, <1>6, <1>7, <1>9, <1>10, <1>11

LEMMA SumStep ==
    ASSUME NEW r \in Nat, NEW t \in Nat, NEW a \in Nat, NEW m \in Nat, NEW b \in Nat
    PROVE  r + t - 1 + (m + 1 + a) + b = (r + t - 1 + a + b) + (m + 1)
OBVIOUS

\* A source is taken up: it is new to the page but for the elements of earlier calls.
LEMMA LoadKeeps == ASSUME LazyInv, Load PROVE LazyInv'
<1>0. LazyTypes /\ LeftFits /\ TodoFits
  BY DEF LazyInv
<1> DEFINE T == TakenUp(TheCall)
<1>1. /\ todo # <<>> /\ Head(todo).do = "load" /\ left[TheCall] # <<>>
      /\ TheName = Source[T] /\ T \in 1 .. NSource /\ TheName \in ToSet(Source) /\ Same(TheName) \in Nat
      /\ Nexts \in Nat
      /\ prefixed' = prefixed /\ begun' = begun /\ left' = left /\ elements' = elements
      /\ ran' = ran /\ early' = early /\ overlapped' = overlapped
  BY <1>0, LoadIs
<1>2. /\ todo' \in Seq(Item) /\ Len(todo') \in Nat /\ todo' # <<>> /\ Head(todo') = todo'[1]
      /\ \A p \in 1 .. Len(todo') :
             \/ p \in 1 .. Nexts /\ todo'[p] = GotoNext(TheCall)
             \/ p = Nexts + 1 /\ todo'[p] = Append1
             \/ \E p2 \in 2 .. Len(todo) : p = p2 + Nexts /\ todo'[p] = todo[p2]
      /\ \A p2 \in 2 .. Len(todo) : p2 + Nexts \in 1 .. Len(todo') /\ todo'[p2 + Nexts] = todo[p2]
      /\ Nexts + 1 \in 1 .. Len(todo') /\ todo'[Nexts + 1] = Append1
      /\ Count(todo', Tokens) = Same(TheName) + 1 + Count(todo, Tokens)
      /\ \A p \in 1 .. Len(todo') : todo'[p].call = TheCall /\ todo'[p].do # "load"
  BY <1>0, LoadItems
<1>3. /\ Head(todo) = todo[1] /\ 1 \in 1 .. Len(todo) /\ Len(todo) \in Nat
      /\ TheCall = todo[1].call /\ TheCall \in Calls /\ TheCall <= begun /\ TheCall \in 1 .. begun
      /\ \A p \in 1 .. Len(todo) : todo[p] \in Item /\ todo[p].call = TheCall
      /\ \A p \in 2 .. Len(todo) : p \in 1 .. Len(todo) /\ todo[p].do # "load"
  BY <1>0, <1>1, TheCallIs
<1>4. LazyTypes'
  BY <1>0, <1>1, <1>2 DEF LazyTypes
<1>5. LeftFits'
  BY <1>0, <1>1 DEF LeftFits, NSource
<1>6. TodoFits'
  BY <1>1, <1>2, <1>3 DEF TodoFits
<1>7. ~AtLoad' /\ AtLoad
  <2>1. 1 \in 1 .. Len(todo')
    BY <1>2
  <2> QED
    BY <1>1, <1>2, <2>1 DEF AtLoad
<1>8. Still' <=> Still
  BY <1>1 DEF Still, AllLoad
<1>10. ASSUME Still
       PROVE  /\ TheCall = begun /\ Searched = T - 1 /\ TakenUp(begun)' = T /\ Searched' = T
              /\ Same(TheName) = Mistaken /\ Count(elements, Copies(TheName)) = begun - 1
  <2>1. TheCall = begun
    BY <1>3, <1>10 DEF LazyInv, CountsFit, LastOnly
  <2>2. TakenUp(begun)' = TakenUp(begun)
    BY <1>1 DEF TakenUp, NSource
  <2>3. Searched = T - 1 /\ Searched' = T
    BY <1>1, <1>7, <2>1, <2>2 DEF Searched
  <2>4. ~(T <= Searched)
    BY <1>1, <2>3, SourceIs
  <2>5. Count(elements, Copies(TheName)) = begun - 1
    BY <1>1, <1>10, <2>4 DEF LazyInv, CountsFit, CopiesFit
  <2>6. Same(TheName) = Mistaken
    BY <1>0, <1>1, <2>5, SameIs DEF Mistaken
  <2> QED
    BY <2>1, <2>2, <2>3, <2>5, <2>6
<1> HIDE DEF T
<1>11. CountsFit'
  <2> SUFFICES ASSUME Still PROVE (/\ \A d \in 1 .. begun - 1 : ran[d] = RanOf(d)
                                   /\ LastOnly /\ CopiesFit /\ RunsAddUp)'
    BY <1>8 DEF CountsFit
  <2>0. /\ TheCall = begun /\ Searched = T - 1 /\ TakenUp(begun)' = T /\ Searched' = T
        /\ Same(TheName) = Mistaken /\ Count(elements, Copies(TheName)) = begun - 1
        /\ (\A d \in 1 .. begun - 1 : ran[d] = RanOf(d)) /\ LastOnly /\ CopiesFit /\ RunsAddUp
    BY <1>10 DEF LazyInv, CountsFit
  <2>1. (\A d \in 1 .. begun - 1 : ran[d] = RanOf(d))'
    BY <1>1, <2>0 DEF RanOf, NSource
  <2>2. LastOnly'
    BY <1>1, <1>2, <2>0 DEF LastOnly
  <2>3. RunsAddUp'
    <3>1. TakenUp(begun) = T
      BY <2>0 DEF T
    <3>2. ran[begun] + T - 1 + Count(todo, Tokens) + Count(elements, OnTheirWay) = (T - 1) * (Mistaken + 1)
      BY <2>0, <3>1 DEF RunsAddUp
    <3>3. Count(elements, OnTheirWay)' = Count(elements, OnTheirWay) /\ Mistaken' = Mistaken
          /\ Count(todo, Tokens)' = Mistaken + 1 + Count(todo, Tokens)
      BY <1>1, <1>2, <2>0 DEF OnTheirWay, Mistaken, Tokens
    <3>4. Count(todo, Tokens) \in Nat /\ Count(elements, OnTheirWay) \in Nat /\ ran[begun] \in Nat
          /\ Mistaken \in Nat
      BY <1>0, <1>1, <1>3, <2>0, CountIsNat DEF LazyTypes
    <3>5. T * (Mistaken + 1) = (T - 1) * (Mistaken + 1) + (Mistaken + 1)
          /\ (T - 1) * (Mistaken + 1) \in Int
      <4>1. T - 1 \in Nat /\ (T - 1) + 1 = T
        BY <1>1, SourceIs
      <4>2. ((T - 1) + 1) * (Mistaken + 1) = (T - 1) * (Mistaken + 1) + (Mistaken + 1)
        BY <3>4, <4>1, ProductSteps
      <4>3. (T - 1) * (Mistaken + 1) \in Nat
        BY <3>4, <4>1, ProductSteps
      <4> QED
        BY <4>1, <4>2, <4>3
    <3>6. T \in Nat
      BY <1>1, SourceIs
    <3> DEFINE P == (T - 1) * (Mistaken + 1)
               Q == T * (Mistaken + 1)
    <3>7. Q = P + (Mistaken + 1) /\ P \in Int
      BY <3>5
    <3>8. ran[begun] + T - 1 + Count(todo, Tokens) + Count(elements, OnTheirWay) = P
      BY <3>2
    <3> HIDE DEF P, Q
    <3>9. ran[begun] + T - 1 + (Mistaken + 1 + Count(todo, Tokens)) + Count(elements, OnTheirWay) = Q
      <4>1. ran[begun] + T - 1 + (Mistaken + 1 + Count(todo, Tokens)) + Count(elements, OnTheirWay)
                = (ran[begun] + T - 1 + Count(todo, Tokens) + Count(elements, OnTheirWay)) + (Mistaken + 1)
        BY <3>4, <3>6, SumStep
      <4> QED
        BY <3>7, <3>8, <4>1
    <3> QED
      BY <1>1, <2>0, <3>3, <3>9 DEF RunsAddUp, Q
  <2>4. ASSUME NEW p \in 1 .. Len(todo'), todo'[p].do = "append", p # Nexts + 1
        PROVE  \E p2 \in 2 .. Len(todo) : p = p2 + Nexts /\ todo'[p] = todo[p2] /\ todo[p2].do = "append"
                                          /\ p2 \in 1 .. Len(todo)
    <3>1. GotoNext(TheCall).do # "append"
      BY DEF GotoNext
    <3> QED
      BY <1>2, <1>3, <2>4, <3>1
  <2>5. \A p2 \in 1 .. Len(todo) : todo[p2].do = "append" => p2 \in 2 .. Len(todo)
    BY <1>1, <1>3
  <2>6. Append1.do = "append" /\ Append1.src = Source[T]
    BY <1>1 DEF Append1
  <2>7. \A n \in 1 .. NSource : Count(elements, Copies(Source[n]))' = Count(elements, Copies(Source[n]))
    BY <1>1 DEF Copies
  <2>8. ASSUME NEW n \in 1 .. NSource
        PROVE  Count(elements, Copies(Source[n]))' =
                   begun' - (IF n <= Searched' /\ \A p \in 1 .. Len(todo') : ~IsAppendOf(todo'[p], Source[n])
                             THEN 0 ELSE 1)
    <3>1. CASE n = T
      <4>1. IsAppendOf(todo'[Nexts + 1], Source[n])
        BY <1>2, <2>6, <3>1 DEF IsAppendOf
      <4> QED
        BY <1>1, <1>2, <2>0, <2>7, <3>1, <4>1
    <3>2. CASE n # T
      <4>1. Source[n] # Source[T]
        BY <1>1, <3>2, SourceIs
      <4>2. (\A p \in 1 .. Len(todo') : ~IsAppendOf(todo'[p], Source[n]))
            <=> \A p \in 1 .. Len(todo) : ~IsAppendOf(todo[p], Source[n])
        <5>1. ASSUME NEW p \in 1 .. Len(todo'), IsAppendOf(todo'[p], Source[n])
              PROVE  \E p2 \in 1 .. Len(todo) : IsAppendOf(todo[p2], Source[n])
          <6>1. p # Nexts + 1
            BY <1>2, <2>6, <4>1, <5>1 DEF IsAppendOf
          <6> QED
            BY <2>4, <5>1, <6>1 DEF IsAppendOf
        <5>2. ASSUME NEW p2 \in 1 .. Len(todo), IsAppendOf(todo[p2], Source[n])
              PROVE  \E p \in 1 .. Len(todo') : IsAppendOf(todo'[p], Source[n])
          BY <1>2, <2>5, <5>2 DEF IsAppendOf
        <5> QED
          BY <5>1, <5>2
      <4>3. n <= T <=> n <= T - 1
        BY <1>1, <3>2, SourceIs
      <4> QED
        BY <1>1, <2>0, <2>7, <4>2, <4>3 DEF CopiesFit
    <3> QED
      BY <3>1, <3>2
  <2>9. ASSUME NEW p \in 1 .. Len(todo'), todo'[p].do = "append"
        PROVE  \E n \in 1 .. T : todo'[p].src = Source[n] /\ (p # Nexts + 1 => n \in 1 .. T - 1)
    <3>1. CASE p = Nexts + 1
      <4>1. T \in 1 .. T
        BY <1>1, SourceIs
      <4> QED
        BY <1>2, <2>6, <3>1, <4>1
    <3>2. CASE p # Nexts + 1
      <4>1. PICK p2 \in 1 .. Len(todo) : todo'[p] = todo[p2] /\ todo[p2].do = "append"
        BY <2>4, <2>9, <3>2
      <4>2. PICK n \in 1 .. T - 1 : todo[p2].src = Source[n]
        BY <2>0, <4>1 DEF CopiesFit
      <4>3. n \in 1 .. T
        BY <1>1, <4>2, SourceIs
      <4> QED
        BY <4>1, <4>2, <4>3
    <3> QED
      BY <3>1, <3>2
  <2>10. ASSUME NEW p \in 1 .. Len(todo'), NEW q \in 1 .. Len(todo'),
                todo'[p].do = "append", IsAppendOf(todo'[q], todo'[p].src)
         PROVE  q = p
    <3>0. todo'[q].do = "append" /\ todo'[q].src = todo'[p].src
      BY <2>10 DEF IsAppendOf
    <3>1. CASE p = Nexts + 1 \/ q = Nexts + 1
      <4>1. ASSUME NEW r \in 1 .. Len(todo'), todo'[r].do = "append", todo'[r].src = Source[T]
            PROVE  r = Nexts + 1
        <5>1. PICK n \in 1 .. T : todo'[r].src = Source[n] /\ (r # Nexts + 1 => n \in 1 .. T - 1)
          BY <2>9, <4>1
        <5>2. n = T
          <6>1. n \in 1 .. NSource
            BY <1>1, <5>1, SourceIs
          <6> QED
            BY <1>1, <4>1, <5>1, <6>1, SourceIs
        <5>3. ~(T \in 1 .. T - 1)
          BY <1>1, SourceIs
        <5> QED
          BY <5>1, <5>2, <5>3
      <4>2. todo'[p].src = Source[T] /\ todo'[q].src = Source[T]
        BY <1>2, <2>6, <3>0, <3>1
      <4> QED
        BY <2>10, <3>0, <4>1, <4>2
    <3>2. CASE p # Nexts + 1 /\ q # Nexts + 1
      <4>1. PICK p2 \in 1 .. Len(todo) : p = p2 + Nexts /\ todo'[p] = todo[p2] /\ todo[p2].do = "append"
        BY <2>4, <2>10, <3>2
      <4>2. PICK q2 \in 1 .. Len(todo) : q = q2 + Nexts /\ todo'[q] = todo[q2] /\ todo[q2].do = "append"
        BY <2>4, <3>0, <3>2
      <4>3. IsAppendOf(todo[q2], todo[p2].src)
        BY <3>0, <4>1, <4>2 DEF IsAppendOf
      <4>4. q2 = p2
        BY <2>0, <4>1, <4>3 DEF CopiesFit
      <4> QED
        BY <4>1, <4>2, <4>4
    <3> QED
      BY <3>1, <3>2
  <2>11. CopiesFit'
    BY <2>0, <2>8, <2>9, <2>10 DEF CopiesFit, NSource
  <2> QED
    BY <2>1, <2>2, <2>3, <2>11
<1>12. Plain' => OneByOne'
  <2> SUFFICES ASSUME Plain PROVE OneByOne'
    BY <1>1 DEF Plain, AllLoad
  <2>1. OneByOne
    BY DEF LazyInv
  <2>2. Same(TheName) = 0
    <3>1. CASE ~prefixed
      BY <3>1 DEF Same
    <3>2. CASE prefixed
      <4>1. Still /\ begun = 1
        BY <1>0, <1>3, <3>2, SourceIs DEF Plain, Still, LazyTypes
      <4> QED
        BY <1>10, <4>1 DEF Mistaken
    <3> QED
      BY <3>1, <3>2
  <2>3. (IsScript(TheName) => Nexts = 0) /\ (~IsScript(TheName) => Nexts = 1)
    BY <2>2 DEF Nexts
  <2>4. \A p \in 2 .. Len(todo) : ~IsLive(todo[p])
    <3>1. IsLive(todo[1])
      BY <1>1, <1>3 DEF IsLive
    <3> QED
      BY <1>3, <2>1, <3>1 DEF OneByOne
  <2>5. \A e \in 1 .. Len(elements) : Loading(elements[e]) => elements[e].call # TheCall
    <3>1. IsLive(todo[1])
      BY <1>1, <1>3 DEF IsLive
    <3> QED
      BY <1>3, <2>1, <3>1 DEF OneByOne
  <2>6. ASSUME NEW p \in 1 .. Len(todo'), IsLive(todo'[p]) PROVE p = 1
    <3>1. CASE p \in 1 .. Nexts
      BY <2>3, <3>1
    <3>2. CASE p = Nexts + 1 /\ todo'[p] = Append1
      <4>1. IsScript(TheName)
        BY <2>6, <3>2 DEF IsLive, Tokens, Append1
      <4> QED
        BY <2>3, <3>2, <4>1
    <3>3. CASE \E p2 \in 2 .. Len(todo) : p = p2 + Nexts /\ todo'[p] = todo[p2]
      BY <2>4, <2>6, <3>3 DEF IsLive, Tokens
    <3> QED
      BY <1>2, <3>1, <3>2, <3>3
  <2>7. ASSUME NEW p \in 1 .. Len(todo'), left'[todo'[p].call] # <<>>
        PROVE  LET rest == left'[todo'[p].call]
               IN  /\ todo'[p].do = "next" /\ IsScript(Head(rest)) => Head(rest) \in Loaded'
                   /\ todo'[p].do = "append" /\ IsScript(todo'[p].src) => todo'[p].src = Head(rest)
    <3>0. left'[todo'[p].call] = left[TheCall] /\ Head(left[TheCall]) = TheName
      BY <1>1, <1>2 DEF TheName
    <3>1. CASE p \in 1 .. Nexts /\ todo'[p] = GotoNext(TheCall)
      <4>1. ~IsScript(TheName) /\ todo'[p].do # "append"
        BY <2>3, <3>1 DEF GotoNext
      <4> QED
        BY <3>0, <4>1
    <3>2. CASE p = Nexts + 1 /\ todo'[p] = Append1
      BY <3>0, <3>2 DEF Append1
    <3>3. CASE \E p2 \in 2 .. Len(todo) : p = p2 + Nexts /\ todo'[p] = todo[p2]
      <4>1. PICK p2 \in 2 .. Len(todo) : todo'[p] = todo[p2]
        BY <3>3
      <4>2. todo[p2] \in Item /\ ~IsLive(todo[p2])
        BY <1>3, <2>4, <4>1
      <4>3. todo[p2].do # "next" /\ ~(todo[p2].do = "append" /\ IsScript(todo[p2].src))
        BY <4>2 DEF IsLive, Tokens
      <4> QED
        BY <4>1, <4>3
    <3> QED
      BY <1>2, <3>1, <3>2, <3>3
  <2>8. \A d \in 1 .. begun' : Behind(d)'
    BY <1>1, <2>1 DEF OneByOne, Behind, NSource, Loaded
  <2>9. \A p \in 1 .. Len(elements') :
            LET rest == left'[elements'[p].call]
            IN  Loading(elements'[p]) /\ rest # <<>> => elements'[p].src = Head(rest)
    BY <1>1, <2>1 DEF OneByOne
  <2>10. \A e, e2 \in 1 .. Len(elements') :
             Loading(elements'[e]) /\ Loading(elements'[e2]) /\ elements'[e].call = elements'[e2].call => e = e2
    BY <1>1, <2>1 DEF OneByOne
  <2>11. \A p \in 1 .. Len(todo'), e \in 1 .. Len(elements') :
             IsLive(todo'[p]) /\ Loading(elements'[e]) => todo'[p].call # elements'[e].call
    BY <1>1, <1>2, <2>5
  <2> QED
    BY <2>6, <2>7, <2>8, <2>9, <2>10, <2>11 DEF OneByOne
<1>13. Still' /\ begun' > 1 => Scripts' \subseteq Loaded'
  BY <1>1, <1>8 DEF LazyInv, Scripts, Loaded
<1>14. ~prefixed' \/ (~overlapped' /\ AllLoad') => early' = {}
  BY <1>1 DEF LazyInv, AllLoad
<1> QED
  BY <1>4, <1>5, <1>6, <1>11, <1>12, <1>13, <1>14 DEF LazyInv

\* What _gotoNext leaves of the source at hand, and what it puts on the agenda.
Rest      == IF left[TheCall] = <<>> THEN <<>> ELSE Tail(left[TheCall])
LoadNext  == [do |-> "load", call |-> TheCall]
AfterNext == IF Rest = <<>> THEN <<>> ELSE <<LoadNext>>

LEMMA NextIs ==
    ASSUME LazyTypes, LeftFits, TodoFits, Next1
    PROVE  /\ todo # <<>> /\ Head(todo).do = "next"
           /\ left' = [left EXCEPT ![TheCall] = Rest] /\ todo' = AfterNext \o Tail(todo)
           /\ Rest # <<>> => ran' = ran /\ early' = early
           /\ Rest = <<>> => /\ ran' = [ran EXCEPT ![TheCall] = @ + 1]
                             /\ early' = IF Scripts \subseteq Loaded THEN early ELSE early \cup {TheCall}
           /\ prefixed' = prefixed /\ begun' = begun /\ elements' = elements /\ overlapped' = overlapped
           /\ Rest \in Seq(ToSet(Source)) /\ Len(Rest) \in 0 .. NSource
           /\ \A p \in 1 .. Len(Rest) : Rest[p] = Source[NSource - Len(Rest) + p]
           /\ Rest # <<>> => left[TheCall] # <<>>
           /\ left[TheCall] # <<>> =>
                  /\ Len(Rest) = Len(left[TheCall]) - 1 /\ TakenUp(TheCall) = NSource - Len(Rest)
                  /\ Head(left[TheCall]) = Source[NSource - Len(Rest)]
                  /\ NSource - Len(left[TheCall]) + 1 = NSource - Len(Rest)
<1>1. /\ todo # <<>> /\ Head(todo).do = "next"
      /\ left' = [left EXCEPT ![TheCall] = Rest]
      /\ Rest # <<>> => ran' = ran /\ early' = early
      /\ Rest = <<>> => /\ ran' = [ran EXCEPT ![TheCall] = @ + 1]
                        /\ early' = IF Scripts \subseteq Loaded THEN early ELSE early \cup {TheCall}
      /\ prefixed' = prefixed /\ begun' = begun /\ elements' = elements /\ overlapped' = overlapped
  BY Zenon DEF Next1, ToDo, Rest, TheCall
<1>2. /\ Rest # <<>> => todo' = <<LoadNext>> \o Tail(todo)
      /\ Rest = <<>> => todo' = Tail(todo)
  BY Zenon DEF Next1, ToDo, Rest, TheCall, LoadNext
<1>3. todo' = AfterNext \o Tail(todo)
  <2>1. Tail(todo) \in Seq(Item)
    BY <1>1 DEF LazyTypes
  <2>2. Tail(todo) = <<>> \o Tail(todo)
    BY <2>1
  <2> QED
    BY <1>2, <2>2 DEF AfterNext
<1>4. TheCall \in Calls
  BY <1>1, TheCallIs
<1> DEFINE m == Len(left[TheCall])
<1>5. CASE left[TheCall] = <<>>
  <2>1. Rest = <<>> /\ Len(Rest) = 0
    BY <1>5 DEF Rest
  <2> QED
    BY <1>1, <1>3, <1>5, <2>1, SourceIs
<1>6. CASE left[TheCall] # <<>>
  <2>1. Rest = Tail(left[TheCall])
    BY <1>6 DEF Rest
  <2>2. /\ m \in 0 .. NSource /\ TakenUp(TheCall) = NSource - m + 1
        /\ Head(left[TheCall]) = Source[TakenUp(TheCall)] /\ left[TheCall] \in Seq(ToSet(Source))
        /\ Len(Rest) = m - 1 /\ Rest \in Seq(ToSet(Source))
        /\ \A p \in 1 .. Len(Rest) : Rest[p] = Source[NSource - Len(Rest) + p]
    BY <1>4, <1>6, <2>1, RestIs
  <2>3. m # 0
    BY <1>6, <2>2
  <2>3a. \A p \in 1 .. Len(Rest) : Rest[p] = Source[NSource - Len(Rest) + p]
    BY <2>2
  <2> DEFINE t == Len(Rest)
  <2>4. t = m - 1 /\ m \in 1 .. NSource /\ NSource \in Nat
    BY <2>2, <2>3, SourceIs
  <2> HIDE DEF m, t
  <2>5. t \in 0 .. NSource /\ NSource - m + 1 = NSource - t
    BY <2>4
  <2>6. Len(Rest) \in 0 .. NSource /\ NSource - Len(left[TheCall]) + 1 = NSource - Len(Rest)
    BY <2>5 DEF m, t
  <2>7. Len(Rest) = Len(left[TheCall]) - 1 /\ TakenUp(TheCall) = NSource - Len(Rest)
    BY <2>2, <2>6 DEF m
  <2>8. Head(left[TheCall]) = Source[NSource - Len(Rest)]
    BY <2>2, <2>7
  <2> QED
    BY <1>1, <1>3, <1>6, <2>2, <2>3a, <2>6, <2>7, <2>8
<1> QED
  BY <1>5, <1>6

\* The agenda after _gotoNext.
LEMMA NextItems ==
    ASSUME LazyTypes, LeftFits, TodoFits, Next1
    PROVE  /\ todo' \in Seq(Item) /\ Len(todo') \in Nat /\ (todo' # <<>> => Head(todo') = todo'[1])
           /\ \A p \in 1 .. Len(todo') :
                  \/ p = 1 /\ Rest # <<>> /\ todo'[p] = LoadNext
                  \/ \E p2 \in 2 .. Len(todo) : p = p2 - 1 + Len(AfterNext) /\ todo'[p] = todo[p2]
           /\ \A p2 \in 2 .. Len(todo) :
                  p2 - 1 + Len(AfterNext) \in 1 .. Len(todo') /\ todo'[p2 - 1 + Len(AfterNext)] = todo[p2]
           /\ Count(todo', Tokens) = Count(todo, Tokens) - 1 /\ Count(todo, Tokens) \in Nat
           /\ Len(AfterNext) \in {0, 1}
           /\ Rest # <<>> => todo' # <<>> /\ todo'[1] = LoadNext
           /\ AtLoad' <=> Rest # <<>>
<1>1. todo # <<>> /\ Head(todo).do = "next" /\ todo' = AfterNext \o Tail(todo)
  BY NextIs
<1>2. /\ TheCall \in Calls /\ Head(todo) = todo[1] /\ todo[1] \in Item /\ Len(todo) \in Nat
      /\ \A p \in 2 .. Len(todo) : p \in 1 .. Len(todo) /\ todo[p].do # "load"
  BY <1>1, TheCallIs
<1>3. LoadNext \in Item /\ LoadNext \notin Tokens /\ LoadNext.do = "load"
  BY <1>2 DEF LoadNext, Item, Tokens
<1>4. /\ AfterNext \in Seq(Item) /\ Len(AfterNext) \in {0, 1} /\ Count(AfterNext, Tokens) = 0
      /\ (Rest # <<>> => Len(AfterNext) = 1 /\ AfterNext[1] = LoadNext)
      /\ (Rest = <<>> => Len(AfterNext) = 0)
  <2>1. CASE Rest = <<>>
    <3>1. AfterNext = <<>>
      BY <2>1 DEF AfterNext
    <3> QED
      BY <2>1, <3>1, CountNone
  <2>2. CASE Rest # <<>>
    <3>1. AfterNext = <<LoadNext>>
      BY <2>2 DEF AfterNext
    <3>2. Count(<<LoadNext>>, Tokens) = 0
      BY <1>3, CountOne
    <3> QED
      BY <1>3, <2>2, <3>1, <3>2
  <2> QED
    BY <2>1, <2>2
<1>5. /\ todo' \in Seq(Item) /\ Len(todo') \in Nat
      /\ Len(AfterNext) <= Len(todo') /\ \A p \in 1 .. Len(AfterNext) : todo'[p] = AfterNext[p]
      /\ \A p \in 1 .. Len(todo') :
             \/ p \in 1 .. Len(AfterNext) /\ todo'[p] = AfterNext[p]
             \/ \E p2 \in 2 .. Len(todo) : p = p2 - 1 + Len(AfterNext) /\ todo'[p] = todo[p2]
      /\ \A p2 \in 2 .. Len(todo) :
             p2 - 1 + Len(AfterNext) \in 1 .. Len(todo') /\ todo'[p2 - 1 + Len(AfterNext)] = todo[p2]
      /\ Count(todo', Tokens) = Count(AfterNext, Tokens) + Count(todo, Tokens) - (IF Head(todo) \in Tokens THEN 1 ELSE 0)
      /\ Count(todo, Tokens) \in Nat
  <2>1. AfterNext \in Seq(Item)
    BY <1>4
  <2> QED
    BY <1>1, <2>1, TodoIs
<1>6. Head(todo) \in Tokens
  BY <1>1, <1>2 DEF Tokens
<1>7. Count(todo', Tokens) = Count(todo, Tokens) - 1
  BY <1>4, <1>5, <1>6
<1>8. ASSUME NEW p \in 1 .. Len(AfterNext) PROVE p = 1 /\ Rest # <<>> /\ AfterNext[p] = LoadNext
  <2>1. p \in 1 .. Len(AfterNext)
    OBVIOUS
  <2>2. CASE Rest = <<>>
    <3>1. Len(AfterNext) = 0
      BY <1>4, <2>2
    <3> QED
      BY <2>1, <3>1
  <2>3. CASE Rest # <<>>
    <3>1. Len(AfterNext) = 1 /\ AfterNext[1] = LoadNext
      BY <1>4, <2>3
    <3>2. p = 1
      BY <2>1, <3>1
    <3> QED
      BY <2>3, <3>1, <3>2
  <2> QED
    BY <2>2, <2>3
<1>9. ASSUME Rest # <<>> PROVE todo' # <<>> /\ todo'[1] = LoadNext
  <2>1. Len(AfterNext) = 1 /\ AfterNext[1] = LoadNext
    BY <1>4, <1>9
  <2>2. 1 \in 1 .. Len(AfterNext)
    BY <2>1
  <2>3. todo'[1] = AfterNext[1] /\ Len(AfterNext) <= Len(todo')
    BY <1>5, <2>2
  <2>4. todo' # <<>>
    BY <1>5, <2>1, <2>3
  <2> QED
    BY <2>1, <2>3, <2>4
<1>10. todo' # <<>> => Head(todo') = todo'[1] /\ 1 \in 1 .. Len(todo')
  BY <1>5
<1>11. ASSUME Rest = <<>>, todo' # <<>> PROVE todo'[1].do # "load"
  <2>1. ~(1 \in 1 .. Len(AfterNext))
    BY <1>4, <1>11
  <2>2. \E p2 \in 2 .. Len(todo) : todo'[1] = todo[p2]
    BY <1>5, <1>10, <1>11, <2>1
  <2> QED
    BY <1>2, <2>2
<1>12. AtLoad' <=> Rest # <<>>
  BY <1>3, <1>9, <1>10, <1>11 DEF AtLoad
<1> QED
  BY <1>4, <1>5, <1>7, <1>8, <1>9, <1>10, <1>12

\* The next source is shifted, or the callback runs.
LEMMA NextKeeps == ASSUME LazyInv, Next1 PROVE LazyInv'
<1>0. LazyTypes /\ LeftFits /\ TodoFits
  BY DEF LazyInv
<1> DEFINE k == Len(AfterNext)
<1>1. /\ todo # <<>> /\ Head(todo).do = "next"
      /\ left' = [left EXCEPT ![TheCall] = Rest]
      /\ Rest # <<>> => ran' = ran /\ early' = early
      /\ Rest = <<>> => /\ ran' = [ran EXCEPT ![TheCall] = @ + 1]
                        /\ early' = IF Scripts \subseteq Loaded THEN early ELSE early \cup {TheCall}
      /\ prefixed' = prefixed /\ begun' = begun /\ elements' = elements /\ overlapped' = overlapped
      /\ Rest \in Seq(ToSet(Source)) /\ Len(Rest) \in 0 .. NSource
      /\ \A p \in 1 .. Len(Rest) : Rest[p] = Source[NSource - Len(Rest) + p]
      /\ Rest # <<>> => left[TheCall] # <<>>
      /\ left[TheCall] # <<>> =>
             /\ Len(Rest) = Len(left[TheCall]) - 1 /\ TakenUp(TheCall) = NSource - Len(Rest)
             /\ Head(left[TheCall]) = Source[NSource - Len(Rest)]
             /\ NSource - Len(left[TheCall]) + 1 = NSource - Len(Rest)
  BY <1>0, NextIs
<1>2. /\ todo' \in Seq(Item) /\ Len(todo') \in Nat /\ (todo' # <<>> => Head(todo') = todo'[1])
      /\ \A p \in 1 .. Len(todo') :
             \/ p = 1 /\ Rest # <<>> /\ todo'[p] = LoadNext
             \/ \E p2 \in 2 .. Len(todo) : p = p2 - 1 + k /\ todo'[p] = todo[p2]
      /\ \A p2 \in 2 .. Len(todo) : p2 - 1 + k \in 1 .. Len(todo') /\ todo'[p2 - 1 + k] = todo[p2]
      /\ Count(todo', Tokens) = Count(todo, Tokens) - 1 /\ Count(todo, Tokens) \in Nat
      /\ k \in {0, 1}
      /\ Rest # <<>> => todo' # <<>> /\ todo'[1] = LoadNext
      /\ AtLoad' <=> Rest # <<>>
  BY <1>0, NextItems
<1> HIDE DEF k
<1>3. /\ Head(todo) = todo[1] /\ 1 \in 1 .. Len(todo) /\ Len(todo) \in Nat
      /\ TheCall = todo[1].call /\ TheCall \in Calls /\ TheCall <= begun /\ TheCall \in 1 .. begun
      /\ \A p \in 1 .. Len(todo) : todo[p] \in Item /\ todo[p].call = TheCall
      /\ \A p \in 2 .. Len(todo) : p \in 1 .. Len(todo) /\ todo[p].do # "load"
  BY <1>0, <1>1, TheCallIs
<1>4. LoadNext.do = "load" /\ LoadNext.call = TheCall
  BY DEF LoadNext
<1>5. /\ left' \in [Calls -> Seq(ToSet(Source))] /\ left'[TheCall] = Rest
      /\ \A d \in Calls : d # TheCall => left'[d] = left[d]
  BY <1>0, <1>1, <1>3 DEF LazyTypes
<1>6. /\ ran' \in [Calls -> Nat] /\ ran'[TheCall] = ran[TheCall] + (IF Rest = <<>> THEN 1 ELSE 0)
      /\ \A d \in Calls : d # TheCall => ran'[d] = ran[d]
  <2>1. ran \in [Calls -> Nat] /\ ran[TheCall] \in Nat
    BY <1>0, <1>3 DEF LazyTypes
  <2>2. CASE Rest = <<>>
    BY <1>1, <1>3, <2>1, <2>2
  <2>3. CASE Rest # <<>>
    BY <1>1, <2>1, <2>3
  <2> QED
    BY <2>2, <2>3
<1>7. LazyTypes'
  <2>1. early' \subseteq Calls
    <3>1. early \subseteq Calls
      BY <1>0 DEF LazyTypes
    <3> QED
      BY <1>1, <1>3, <3>1
  <2> QED
    BY <1>0, <1>1, <1>2, <1>5, <1>6, <2>1 DEF LazyTypes
<1>8. LeftFits'
  <2>1. ASSUME NEW d \in Calls
        PROVE  /\ Len(left'[d]) <= NSource
               /\ \A p \in 1 .. Len(left'[d]) : left'[d][p] = Source[NSource - Len(left'[d]) + p]
               /\ ran'[d] > 0 => left'[d] = <<>>
               /\ d > begun' => left'[d] = <<>> /\ ran'[d] = 0
    <3>1. CASE d = TheCall
      <4>1. ~(d > begun')
        BY <1>0, <1>1, <1>3, <3>1, SourceIs DEF LazyTypes
      <4>2. ran'[d] > 0 => Rest = <<>>
        <5>1. CASE Rest # <<>>
          <6>1. left[TheCall] # <<>> /\ ran'[TheCall] = ran[TheCall]
            BY <1>1, <5>1
          <6> QED
            BY <1>0, <1>3, <3>1, <6>1 DEF LeftFits
        <5> QED
          BY <5>1
      <4>3. Len(left'[d]) <= NSource
            /\ \A p \in 1 .. Len(left'[d]) : left'[d][p] = Source[NSource - Len(left'[d]) + p]
        <5>1. Len(Rest) <= NSource
          BY <1>1, SourceIs
        <5> QED
          BY <1>1, <1>5, <3>1, <5>1
      <4> QED
        BY <1>5, <3>1, <4>1, <4>2, <4>3
    <3>2. CASE d # TheCall
      BY <1>0, <1>1, <1>5, <1>6, <3>2 DEF LeftFits
    <3> QED
      BY <3>1, <3>2
  <2> QED
    BY <1>0, <1>1, <2>1 DEF LeftFits, NSource
<1>9. ASSUME NEW p \in 1 .. Len(todo') PROVE todo'[p].call = TheCall /\ (todo'[p].do = "load" => p = 1 /\ Rest # <<>>)
  <2>1. CASE p = 1 /\ Rest # <<>> /\ todo'[p] = LoadNext
    BY <1>4, <2>1
  <2>2. CASE \E p2 \in 2 .. Len(todo) : todo'[p] = todo[p2]
    BY <1>3, <2>2
  <2> QED
    BY <1>2, <2>1, <2>2
<1>10. TodoFits'
  BY <1>1, <1>3, <1>5, <1>9 DEF TodoFits
<1>11. Still' <=> Still
  BY <1>1 DEF Still, AllLoad
<1>12. \A p2 \in 2 .. Len(todo) : p2 \in 1 .. Len(todo) /\ p2 - 1 + k \in 1 .. Len(todo')
                                  /\ todo'[p2 - 1 + k] = todo[p2]
  BY <1>2, <1>3
<1>13. ASSUME NEW p \in 1 .. Len(todo'), todo'[p].do = "append"
       PROVE  \E p2 \in 1 .. Len(todo) : p = p2 - 1 + k /\ todo'[p] = todo[p2]
  BY <1>2, <1>4, <1>12, <1>13
<1>14. ASSUME NEW p2 \in 1 .. Len(todo), todo[p2].do = "append"
       PROVE  p2 - 1 + k \in 1 .. Len(todo') /\ todo'[p2 - 1 + k] = todo[p2]
  <2>1. p2 \in 2 .. Len(todo)
    BY <1>1, <1>3, <1>14
  <2> QED
    BY <1>12, <2>1
<1>15. CountsFit'
  <2> SUFFICES ASSUME Still PROVE (/\ \A d \in 1 .. begun - 1 : ran[d] = RanOf(d)
                                   /\ LastOnly /\ CopiesFit /\ RunsAddUp)'
    BY <1>11 DEF CountsFit
  <2>1. (\A d \in 1 .. begun - 1 : ran[d] = RanOf(d)) /\ LastOnly /\ CopiesFit /\ RunsAddUp
    BY DEF LazyInv, CountsFit
  <2>2. TheCall = begun
    BY <1>3, <2>1 DEF LastOnly
  <2>3. begun \in Nat /\ begun > 0 /\ begun \in Calls /\ NSource \in Nat
    BY <1>0, <1>3, <2>2, SourceIs DEF LazyTypes
  <2>4. (\A d \in 1 .. begun - 1 : ran[d] = RanOf(d))'
    <3>1. ASSUME NEW d \in 1 .. begun - 1 PROVE ran'[d] = RanOf(d)'
      <4>1. d \in Calls /\ d # TheCall
        BY <1>0, <2>2, <2>3, SourceIs DEF LazyTypes
      <4> QED
        BY <1>1, <1>6, <2>1, <4>1 DEF RanOf, NSource
    <3> QED
      BY <1>1, <3>1
  <2>5. LastOnly'
    BY <1>1, <1>9, <2>1, <2>2 DEF LastOnly
  <2>6. TakenUp(begun)' + ran'[begun] = TakenUp(begun) + ran[begun] + 1 /\ Searched' = Searched
        /\ TakenUp(begun) \in Nat /\ TakenUp(begun)' \in Nat /\ ran[begun] \in Nat /\ ran'[begun] \in Nat
    <3>1. TakenUp(begun)' = IF Rest = <<>> THEN NSource ELSE NSource - Len(Rest) + 1
      BY <1>1, <1>5, <2>2 DEF TakenUp, NSource
    <3>2. ~AtLoad /\ Searched = TakenUp(begun)
      <4>1. ~AtLoad
        BY <1>1 DEF AtLoad
      <4>2. TakenUp(begun) \in 1 .. NSource
        BY <1>0, <2>3, RestIs
      <4> QED
        BY <2>3, <4>1, <4>2 DEF Searched
    <3>3. TakenUp(begun) \in Nat /\ ran[begun] \in Nat /\ ran'[begun] \in Nat
      <4>1. TakenUp(begun) \in 1 .. NSource
        BY <1>0, <2>3, RestIs
      <4> QED
        BY <1>0, <1>6, <2>3, <4>1 DEF LazyTypes
    <3>4. CASE Rest # <<>>
      <4>1. TakenUp(begun) = NSource - Len(Rest) /\ ran'[begun] = ran[begun]
        BY <1>1, <2>2, <3>4
      <4>2. TakenUp(begun)' = TakenUp(begun) + 1
        BY <3>1, <3>4, <4>1
      <4>3. Searched' = TakenUp(begun)' - 1
        BY <1>2, <3>4 DEF Searched
      <4> QED
        BY <3>2, <3>3, <4>1, <4>2, <4>3
    <3>5. CASE Rest = <<>>
      <4>1. TakenUp(begun) = NSource
        <5>1. CASE left[TheCall] = <<>>
          BY <2>2, <5>1 DEF TakenUp
        <5>2. CASE left[TheCall] # <<>>
          <6>1. Len(Rest) = 0
            BY <3>5
          <6> QED
            BY <1>1, <2>2, <2>3, <5>2, <6>1
        <5> QED
          BY <5>1, <5>2
      <4>2. TakenUp(begun)' = NSource /\ ran'[begun] = ran[begun] + 1
        BY <1>6, <2>2, <3>1, <3>5
      <4>3. Searched' = TakenUp(begun)' - 0
        BY <1>2, <3>5 DEF Searched
      <4> QED
        BY <2>3, <3>2, <3>3, <4>1, <4>2, <4>3
    <3> QED
      BY <3>4, <3>5
  <2>7. RunsAddUp'
    <3>1. Count(elements, OnTheirWay)' = Count(elements, OnTheirWay) /\ Mistaken' = Mistaken
          /\ Count(todo, Tokens)' = Count(todo, Tokens) - 1
      BY <1>1, <1>2 DEF OnTheirWay, Mistaken, Tokens
    <3>2. Count(todo, Tokens) \in Nat /\ Count(elements, OnTheirWay) \in Nat
      BY <1>0, CountIsNat DEF LazyTypes
    <3>3. ran[begun] + TakenUp(begun) - 1 + Count(todo, Tokens) + Count(elements, OnTheirWay)
              = Searched * (Mistaken + 1)
      BY <2>1 DEF RunsAddUp
    <3>4. ran'[begun] + TakenUp(begun)' - 1 + (Count(todo, Tokens) - 1) + Count(elements, OnTheirWay)
              = ran[begun] + TakenUp(begun) - 1 + Count(todo, Tokens) + Count(elements, OnTheirWay)
      BY <2>6, <3>2
    <3>5. ran'[begun'] = ran'[begun] /\ TakenUp(begun)' = TakenUp(begun)'
      BY <1>1
    <3> QED
      BY <2>6, <3>1, <3>3, <3>4, <3>5 DEF RunsAddUp
  <2>8. CopiesFit'
    <3>1. \A n \in 1 .. NSource : Count(elements, Copies(Source[n]))' = Count(elements, Copies(Source[n]))
      BY <1>1 DEF Copies
    <3>2. ASSUME NEW n \in 1 .. NSource
          PROVE  (\A p \in 1 .. Len(todo') : ~IsAppendOf(todo'[p], Source[n]))
                 <=> \A p \in 1 .. Len(todo) : ~IsAppendOf(todo[p], Source[n])
      BY <1>13, <1>14 DEF IsAppendOf
    <3>3. ASSUME NEW p \in 1 .. Len(todo'), todo'[p].do = "append"
          PROVE  (\E n \in 1 .. Searched' : todo'[p].src = Source[n])
                 /\ \A p2 \in 1 .. Len(todo') : IsAppendOf(todo'[p2], todo'[p].src) => p2 = p
      <4>1. PICK q \in 1 .. Len(todo) : p = q - 1 + k /\ todo'[p] = todo[q]
        BY <1>13, <3>3
      <4>2. ASSUME NEW p2 \in 1 .. Len(todo'), IsAppendOf(todo'[p2], todo'[p].src) PROVE p2 = p
        <5>1. PICK q2 \in 1 .. Len(todo) : p2 = q2 - 1 + k /\ todo'[p2] = todo[q2]
          BY <1>13, <4>2 DEF IsAppendOf
        <5>2. q2 = q
          BY <2>1, <3>3, <4>1, <4>2, <5>1 DEF CopiesFit
        <5> QED
          BY <4>1, <5>1, <5>2
      <4>3. \E n \in 1 .. Searched : todo[q].src = Source[n]
        BY <2>1, <3>3, <4>1 DEF CopiesFit
      <4>4. Searched' = Searched
        BY <2>6
      <4>5. \E n \in 1 .. Searched' : todo'[p].src = Source[n]
        BY <4>1, <4>3, <4>4
      <4> QED
        BY <4>2, <4>5
    <3> QED
      BY <1>1, <2>1, <2>6, <3>1, <3>2, <3>3 DEF CopiesFit, NSource
  <2> QED
    BY <2>4, <2>5, <2>7, <2>8
<1>16. Plain' => OneByOne' /\ Plain
  <2> SUFFICES ASSUME Plain PROVE OneByOne'
    BY <1>1 DEF Plain, AllLoad
  <2>1. OneByOne
    BY DEF LazyInv
  <2>2. IsLive(todo[1])
    BY <1>1, <1>3 DEF IsLive, Tokens
  <2>3. \A p \in 2 .. Len(todo) : ~IsLive(todo[p]) /\ p \in 1 .. Len(todo)
    BY <1>3, <2>1, <2>2 DEF OneByOne
  <2>4. \A e \in 1 .. Len(elements) : Loading(elements[e]) => elements[e].call # TheCall
    BY <1>3, <2>1, <2>2 DEF OneByOne
  <2>5. \A p \in 1 .. Len(todo') : IsLive(todo'[p]) => p = 1 /\ Rest # <<>>
    BY <1>2, <2>3
  <2>6. ASSUME NEW p \in 1 .. Len(todo')
        PROVE  todo'[p].do # "next" /\ ~(todo'[p].do = "append" /\ IsScript(todo'[p].src))
    <3>1. CASE todo'[p] = LoadNext
      BY <1>4, <3>1
    <3>2. CASE \E p2 \in 2 .. Len(todo) : p = p2 - 1 + k /\ todo'[p] = todo[p2]
      <4>1. PICK p2 \in 2 .. Len(todo) : todo'[p] = todo[p2]
        BY <3>2
      <4>2. todo[p2] \in Item /\ ~IsLive(todo[p2])
        BY <1>3, <2>3, <4>1
      <4> QED
        BY <4>1, <4>2 DEF IsLive, Tokens
    <3> QED
      BY <1>2, <3>1, <3>2
  <2>7. ASSUME NEW d \in 1 .. begun PROVE Behind(d)'
    <3>1. d \in Calls
      BY <1>0, SourceIs DEF LazyTypes
    <3>2. CASE d # TheCall \/ left[TheCall] = <<>>
      <4>1. left'[d] = left[d]
        <5>1. left[TheCall] = <<>> => Rest = <<>>
          BY <1>1
        <5> QED
          BY <1>5, <3>1, <3>2, <5>1
      <4> QED
        BY <1>1, <2>1, <4>1 DEF OneByOne, Behind, NSource, Loaded
    <3>3. CASE d = TheCall /\ left[TheCall] # <<>>
      <4> DEFINE m == Len(left[TheCall])
                 t == Len(Rest)
      <4>1. NSource - m + 1 = NSource - t /\ Head(left[TheCall]) = Source[NSource - t]
        BY <1>1, <3>3
      <4>2. IsScript(Source[NSource - t]) => Source[NSource - t] \in Loaded
        BY <1>1, <1>3, <2>1, <3>3, <4>1 DEF OneByOne
      <4>3. \A n \in 1 .. NSource - m : IsScript(Source[n]) => Source[n] \in Loaded
        BY <2>1, <3>3 DEF OneByOne, Behind
      <4>4. NSource \in Nat /\ t \in Nat /\ m \in Nat
        BY <1>0, <1>1, <1>3, RestIs, SourceIs
      <4>5. \A n \in 1 .. NSource - t : n \in 1 .. NSource - m \/ n = NSource - t
        <5> HIDE DEF m, t
        <5> QED
          BY <4>1, <4>4
      <4>6. \A n \in 1 .. NSource - t : IsScript(Source[n]) => Source[n] \in Loaded
        BY <4>2, <4>3, <4>5
      <4>7. Len(left'[d]) = t
        BY <1>5, <3>3
      <4> QED
        BY <1>1, <4>6, <4>7 DEF Behind, NSource, Loaded
    <3> QED
      BY <3>2, <3>3
  <2>8. ASSUME NEW p \in 1 .. Len(elements'), Loading(elements'[p]), left'[elements'[p].call] # <<>>
        PROVE  elements'[p].src = Head(left'[elements'[p].call])
    <3>1. elements[p] \in HeadElement /\ p \in 1 .. Len(elements) /\ elements'[p] = elements[p]
      BY <1>0, <1>1 DEF LazyTypes
    <3>2. elements[p].call \in Calls /\ elements[p].call # TheCall
      BY <2>4, <2>8, <3>1 DEF HeadElement
    <3>3. left'[elements[p].call] = left[elements[p].call]
      BY <1>5, <3>2
    <3> QED
      BY <2>1, <2>8, <3>1, <3>3 DEF OneByOne
  <2>9. \A e, e2 \in 1 .. Len(elements') :
            Loading(elements'[e]) /\ Loading(elements'[e2]) /\ elements'[e].call = elements'[e2].call => e = e2
    BY <1>1, <2>1 DEF OneByOne
  <2>10. \A p \in 1 .. Len(todo'), e \in 1 .. Len(elements') :
             Loading(elements'[e]) => todo'[p].call # elements'[e].call
    BY <1>1, <1>9, <2>4
  <2> QED
    BY <1>1, <2>5, <2>6, <2>7, <2>8, <2>9, <2>10 DEF OneByOne
<1>17. Still' /\ begun' > 1 => Scripts' \subseteq Loaded'
  BY <1>1, <1>11 DEF LazyInv, Scripts, Loaded
<1>18. ASSUME ~prefixed' \/ (~overlapped' /\ AllLoad') PROVE early' = {}
  <2>1. early = {} /\ (~prefixed \/ (~overlapped /\ AllLoad))
    BY <1>1, <1>18 DEF LazyInv, AllLoad
  <2>2. CASE Rest # <<>>
    BY <1>1, <2>1, <2>2
  <2>3. CASE Rest = <<>>
    <3>1. Scripts \subseteq Loaded
      <4>1. CASE Plain
        <5>1. ASSUME NEW d \in 1 .. begun, d = TheCall PROVE Scripts \subseteq Loaded
          <6>1. Plain'
            BY <1>1, <4>1 DEF Plain, AllLoad
          <6>2. Behind(d)'
            BY <1>1, <1>16, <6>1 DEF OneByOne
          <6>3. Len(left'[d]) = 0 /\ NSource - 0 = NSource
            BY <1>5, <2>3, <5>1, SourceIs
          <6>4. \A n \in 1 .. NSource : IsScript(Source[n]) => Source[n] \in Loaded
            BY <1>1, <6>2, <6>3 DEF Behind, NSource, Loaded
          <6> QED
            BY <6>4, SourceIs DEF Scripts
        <5> QED
          BY <1>3, <5>1
      <4>2. CASE ~Plain
        <5>1. Still /\ begun > 1
          BY <1>0, <1>3, <2>1, <4>2, SourceIs DEF Plain, Still, LazyTypes
        <5> QED
          BY <5>1 DEF LazyInv
      <4> QED
        BY <4>1, <4>2
    <3> QED
      BY <1>1, <2>1, <2>3, <3>1
  <2> QED
    BY <2>2, <2>3
<1> QED
  BY <1>7, <1>8, <1>10, <1>15, <1>16, <1>17, <1>18 DEF LazyInv

\* The element put into the page.
NewElement == [call |-> TheCall, src |-> Head(todo).src,
               state |-> IF IsScript(Head(todo).src) THEN "loading" ELSE "loaded"]

LEMMA AppendIs ==
    ASSUME LazyTypes, LeftFits, TodoFits, AppendElement
    PROVE  /\ todo # <<>> /\ Head(todo).do = "append" /\ Head(todo).src \in ToSet(Source)
           /\ NewElement \in HeadElement
           /\ (NewElement \in OnTheirWay <=> IsScript(Head(todo).src)) /\ NewElement.state # "failed"
           /\ elements' \in Seq(HeadElement) /\ Len(elements) \in Nat /\ Len(elements') = Len(elements) + 1
           /\ \A e \in 1 .. Len(elements) : e \in 1 .. Len(elements') /\ elements'[e] = elements[e]
           /\ \A e \in 1 .. Len(elements') : e \in 1 .. Len(elements) \/ e = Len(elements) + 1
           /\ elements'[Len(elements) + 1] = NewElement
           /\ \A P : /\ Count(elements', P) = Count(elements, P) + (IF NewElement \in P THEN 1 ELSE 0)
                     /\ Count(elements, P) \in Nat
           /\ Loaded \subseteq Loaded' /\ (AllLoad' => AllLoad)
           /\ prefixed' = prefixed /\ begun' = begun /\ left' = left /\ ran' = ran
           /\ early' = early /\ overlapped' = overlapped
<1>1. /\ todo # <<>> /\ Head(todo).do = "append" /\ elements' = Append(elements, NewElement)
      /\ prefixed' = prefixed /\ begun' = begun /\ left' = left /\ ran' = ran
      /\ early' = early /\ overlapped' = overlapped
  BY Zenon DEF AppendElement, ToDo, NewElement, TheCall
<1>2. todo[1] \in Item /\ Head(todo) = todo[1] /\ TheCall \in Calls
  BY <1>1, TheCallIs
<1>3. Head(todo).src \in ToSet(Source)
  BY <1>1, <1>2 DEF Item
<1>4. NewElement \in HeadElement /\ (NewElement \in OnTheirWay <=> IsScript(Head(todo).src))
      /\ NewElement.state # "failed"
  BY <1>2, <1>3 DEF NewElement, HeadElement, OnTheirWay, Loading
<1>5. /\ elements \in Seq(HeadElement) /\ elements' \in Seq(HeadElement) /\ Len(elements) \in Nat
      /\ Len(elements') = Len(elements) + 1 /\ elements'[Len(elements) + 1] = NewElement
      /\ \A e \in 1 .. Len(elements) : elements'[e] = elements[e]
  BY <1>1, <1>4 DEF LazyTypes
<1>6. /\ \A e \in 1 .. Len(elements) : e \in 1 .. Len(elements')
      /\ \A e \in 1 .. Len(elements') : e \in 1 .. Len(elements) \/ e = Len(elements) + 1
  BY <1>5
<1>7. ASSUME NEW P
      PROVE  /\ Count(elements', P) = Count(elements, P) + (IF NewElement \in P THEN 1 ELSE 0)
             /\ Count(elements, P) \in Nat
  <2>1. elements' = elements \o <<NewElement>> /\ <<NewElement>> \in Seq(HeadElement)
    <3>1. Append(elements, NewElement) = elements \o <<NewElement>>
      BY <1>4, <1>5, AppendIsConcat
    <3> QED
      BY <1>1, <1>4, <3>1
  <2>2. Count(elements', P) = Count(elements, P) + Count(<<NewElement>>, P)
    <3>1. elements \in Seq(HeadElement) /\ <<NewElement>> \in Seq(HeadElement)
      BY <1>5, <2>1
    <3>2. Count(elements \o <<NewElement>>, P) = Count(elements, P) + Count(<<NewElement>>, P)
      BY <3>1, CountConcat
    <3> QED
      BY <2>1, <3>2
  <2> QED
    BY <1>5, <2>2, CountOne, CountIsNat
<1>8. DOMAIN elements = 1 .. Len(elements) /\ DOMAIN elements' = 1 .. Len(elements')
  BY <1>5
<1>9. Loaded \subseteq Loaded' /\ (AllLoad' => AllLoad)
  BY <1>5, <1>6, <1>8 DEF Loaded, AllLoad
<1> QED
  BY <1>1, <1>3, <1>4, <1>5, <1>6, <1>7, <1>9

\* The element is put into the page.
LEMMA AppendKeeps == ASSUME LazyInv, AppendElement PROVE LazyInv'
<1>0. LazyTypes /\ LeftFits /\ TodoFits
  BY DEF LazyInv
<1> DEFINE name == Head(todo).src
           z == Len(elements) + 1
<1>1. /\ todo # <<>> /\ Head(todo).do = "append" /\ name \in ToSet(Source)
      /\ NewElement \in HeadElement
      /\ (NewElement \in OnTheirWay <=> IsScript(name)) /\ NewElement.state # "failed"
      /\ elements' \in Seq(HeadElement) /\ Len(elements) \in Nat /\ Len(elements') = z
      /\ \A e \in 1 .. Len(elements) : e \in 1 .. Len(elements') /\ elements'[e] = elements[e]
      /\ \A e \in 1 .. Len(elements') : e \in 1 .. Len(elements) \/ e = z
      /\ elements'[z] = NewElement
      /\ \A P : /\ Count(elements', P) = Count(elements, P) + (IF NewElement \in P THEN 1 ELSE 0)
                /\ Count(elements, P) \in Nat
      /\ Loaded \subseteq Loaded' /\ (AllLoad' => AllLoad)
      /\ prefixed' = prefixed /\ begun' = begun /\ left' = left /\ ran' = ran
      /\ early' = early /\ overlapped' = overlapped
  BY <1>0, AppendIs
<1>2. /\ todo' \in Seq(Item) /\ Len(todo') \in Nat
      /\ \A p \in 1 .. Len(todo') : \E p2 \in 2 .. Len(todo) : p = p2 - 1 /\ todo'[p] = todo[p2]
      /\ \A p2 \in 2 .. Len(todo) : p2 - 1 \in 1 .. Len(todo') /\ todo'[p2 - 1] = todo[p2]
      /\ \A P : /\ Count(todo', P) = Count(todo, P) - (IF Head(todo) \in P THEN 1 ELSE 0)
                /\ Count(todo, P) \in Nat
  <2>1. todo' = Tail(todo) /\ todo \in Seq(Item)
    BY <1>0 DEF AppendElement, LazyTypes
  <2>2. /\ Tail(todo) \in Seq(Item) /\ Len(Tail(todo)) = Len(todo) - 1 /\ Len(todo) \in Nat
        /\ \A p \in 1 .. Len(Tail(todo)) : Tail(todo)[p] = todo[p + 1]
    BY <1>1, <2>1, HeadTailProperties
  <2>3. ASSUME NEW p \in 1 .. Len(todo') PROVE \E p2 \in 2 .. Len(todo) : p = p2 - 1 /\ todo'[p] = todo[p2]
    <3>1. p + 1 \in 2 .. Len(todo) /\ p = (p + 1) - 1
      BY <2>1, <2>2
    <3> QED
      BY <2>1, <2>2, <3>1
  <2>4. ASSUME NEW p2 \in 2 .. Len(todo) PROVE p2 - 1 \in 1 .. Len(todo') /\ todo'[p2 - 1] = todo[p2]
    <3>1. p2 - 1 \in 1 .. Len(Tail(todo)) /\ (p2 - 1) + 1 = p2
      BY <2>2
    <3> QED
      BY <2>1, <2>2, <3>1
  <2>5. ASSUME NEW P
        PROVE  /\ Count(todo', P) = Count(todo, P) - (IF Head(todo) \in P THEN 1 ELSE 0)
               /\ Count(todo, P) \in Nat
    <3>1. Count(todo, P) = (IF Head(todo) \in P THEN 1 ELSE 0) + Count(Tail(todo), P)
      BY <1>1, <2>1, CountHead
    <3>2. Count(Tail(todo), P) \in Nat
      BY <2>2, CountIsNat
    <3> QED
      BY <2>1, <3>1, <3>2
  <2>6. todo' \in Seq(Item) /\ Len(todo') \in Nat
    BY <2>1, <2>2
  <2> QED
    BY <2>3, <2>4, <2>5, <2>6
<1> HIDE DEF z
<1>3. /\ Head(todo) = todo[1] /\ 1 \in 1 .. Len(todo) /\ Len(todo) \in Nat
      /\ TheCall = todo[1].call /\ TheCall \in Calls /\ TheCall <= begun /\ TheCall \in 1 .. begun
      /\ \A p \in 1 .. Len(todo) : todo[p] \in Item /\ todo[p].call = TheCall
      /\ \A p \in 2 .. Len(todo) : p \in 1 .. Len(todo) /\ todo[p].do # "load"
  BY <1>0, <1>1, TheCallIs
<1>4. NewElement.call = TheCall /\ NewElement.src = name /\ todo[1].src = name /\ todo[1].do = "append"
      /\ (Loading(NewElement) <=> IsScript(name))
  BY <1>1, <1>3 DEF NewElement, Loading
<1>5. ASSUME NEW p \in 1 .. Len(todo') PROVE \E p2 \in 1 .. Len(todo) : p2 # 1 /\ p = p2 - 1 /\ todo'[p] = todo[p2]
  <2>1. PICK p2 \in 2 .. Len(todo) : p = p2 - 1 /\ todo'[p] = todo[p2]
    BY <1>2
  <2>2. p2 \in 1 .. Len(todo) /\ p2 # 1
    BY <1>3
  <2> QED
    BY <2>1, <2>2
<1>6. ASSUME NEW p2 \in 1 .. Len(todo), p2 # 1 PROVE p2 - 1 \in 1 .. Len(todo') /\ todo'[p2 - 1] = todo[p2]
  <2>1. p2 \in 2 .. Len(todo)
    BY <1>3, <1>6
  <2> QED
    BY <1>2, <2>1
<1>7. LazyTypes'
  BY <1>0, <1>1, <1>2 DEF LazyTypes
<1>8. LeftFits'
  <2>1. ASSUME NEW e \in 1 .. Len(elements') PROVE elements'[e].call <= begun'
    <3>1. CASE e \in 1 .. Len(elements)
      BY <1>0, <1>1, <3>1 DEF LeftFits
    <3>2. CASE e = z
      BY <1>1, <1>3, <1>4, <3>2
    <3> QED
      BY <1>1, <3>1, <3>2
  <2>2. left' = left /\ ran' = ran /\ begun' = begun
    BY <1>1
  <2> QED
    BY <1>0, <2>1, <2>2 DEF LeftFits, NSource
<1>9. \A p \in 1 .. Len(todo') : todo'[p].call = TheCall /\ todo'[p].do # "load"
  <2>1. ASSUME NEW p \in 1 .. Len(todo') PROVE todo'[p].call = TheCall /\ todo'[p].do # "load"
    <3>1. PICK p2 \in 2 .. Len(todo) : todo'[p] = todo[p2]
      BY <1>2
    <3> QED
      BY <1>3, <3>1
  <2> QED
    BY <2>1
<1>10. TodoFits'
  BY <1>1, <1>3, <1>9 DEF TodoFits
<1>11. ~AtLoad /\ ~AtLoad'
  <2>1. ~AtLoad
    BY <1>1 DEF AtLoad
  <2>2. todo' # <<>> => Head(todo') = todo'[1] /\ 1 \in 1 .. Len(todo')
    BY <1>2
  <2> QED
    BY <1>9, <2>1, <2>2 DEF AtLoad
<1>12. TakenUp(begun)' = TakenUp(begun) /\ Searched' = Searched
  <2>1. TakenUp(begun)' = TakenUp(begun)
    BY <1>1 DEF TakenUp, NSource
  <2> QED
    BY <1>11, <2>1 DEF Searched
<1>13. CountsFit'
  <2> SUFFICES ASSUME Still' PROVE (/\ \A d \in 1 .. begun - 1 : ran[d] = RanOf(d)
                                    /\ LastOnly /\ CopiesFit /\ RunsAddUp)'
    BY DEF CountsFit
  <2>1. (\A d \in 1 .. begun - 1 : ran[d] = RanOf(d)) /\ LastOnly /\ CopiesFit /\ RunsAddUp
    <3>1. Still
      BY <1>1 DEF Still
    <3> QED
      BY <3>1 DEF LazyInv, CountsFit
  <2>2. TheCall = begun
    BY <1>3, <2>1 DEF LastOnly
  <2>3. (\A d \in 1 .. begun - 1 : ran[d] = RanOf(d))'
    BY <1>1, <2>1 DEF RanOf, NSource
  <2>4. LastOnly'
    BY <1>1, <1>4, <1>9, <2>1, <2>2 DEF LastOnly
  <2>5. RunsAddUp'
    <3>1. Head(todo) \in Tokens <=> IsScript(name)
      BY <1>1, <1>3 DEF Tokens
    <3>2. /\ Count(elements, OnTheirWay)' = Count(elements, OnTheirWay) + (IF IsScript(name) THEN 1 ELSE 0)
          /\ Count(todo, Tokens)' = Count(todo, Tokens) - (IF IsScript(name) THEN 1 ELSE 0)
          /\ Count(elements, OnTheirWay) \in Nat /\ Count(todo, Tokens) \in Nat
      <4>1. OnTheirWay' = OnTheirWay /\ Tokens' = Tokens
        BY DEF OnTheirWay, Tokens, Loading
      <4> QED
        BY <1>1, <1>2, <3>1, <4>1
    <3>3. Count(elements, OnTheirWay)' + Count(todo, Tokens)' = Count(elements, OnTheirWay) + Count(todo, Tokens)
      BY <3>2
    <3>4. /\ ran'[begun'] = ran[begun] /\ TakenUp(begun)' = TakenUp(begun)
          /\ Searched' = Searched /\ Mistaken' = Mistaken
      BY <1>1, <1>12 DEF Mistaken
    <3>5. ran[begun] \in Nat /\ TakenUp(begun) \in 1 .. NSource /\ NSource \in Nat
      <4>1. begun \in Calls
        BY <1>3, <2>2
      <4>2. TakenUp(begun) \in 1 .. NSource
        BY <1>0, <4>1, RestIs
      <4> QED
        BY <1>0, <4>1, <4>2, SourceIs DEF LazyTypes
    <3>6. ran[begun] + TakenUp(begun) - 1 + Count(todo, Tokens)' + Count(elements, OnTheirWay)'
              = ran[begun] + TakenUp(begun) - 1 + Count(todo, Tokens) + Count(elements, OnTheirWay)
      BY <3>2, <3>5
    <3> QED
      BY <2>1, <3>4, <3>6 DEF RunsAddUp
  <2>6. PICK m \in 1 .. Searched : name = Source[m]
    BY <1>3, <1>4, <2>1 DEF CopiesFit
  <2>7. m \in 1 .. NSource /\ Searched \in Nat
    <3>1. TakenUp(begun) \in 1 .. NSource
      BY <1>0, <1>3, <2>2, RestIs
    <3>2. Searched \in 1 .. NSource
      BY <1>11, <3>1, SourceIs DEF Searched
    <3> QED
      BY <3>2, SourceIs
  <2>8. \A p2 \in 1 .. Len(todo) : IsAppendOf(todo[p2], name) => p2 = 1
    BY <1>3, <1>4, <2>1 DEF CopiesFit
  <2>9. ASSUME NEW n \in 1 .. NSource
        PROVE  Count(elements, Copies(Source[n]))' =
                   begun' - (IF n <= Searched' /\ \A p \in 1 .. Len(todo') : ~IsAppendOf(todo'[p], Source[n])
                             THEN 0 ELSE 1)
    <3>0. Count(elements, Copies(Source[n]))' = Count(elements, Copies(Source[n])) + (IF NewElement.src = Source[n] THEN 1 ELSE 0)
      <4>1. Copies(Source[n])' = Copies(Source[n])
        BY DEF Copies
      <4>2. NewElement \in Copies(Source[n]) <=> NewElement.src = Source[n]
        BY <1>1 DEF Copies
      <4> QED
        BY <1>1, <4>1, <4>2
    <3>1. CASE n = m
      <4>1. Count(elements, Copies(Source[n])) = begun - 1
        BY <1>3, <1>4, <2>1, <2>6, <3>1 DEF CopiesFit, IsAppendOf
      <4>2. \A p \in 1 .. Len(todo') : ~IsAppendOf(todo'[p], Source[n])
        BY <1>5, <2>6, <2>8, <3>1
      <4>3. n <= Searched'
        BY <1>12, <2>7, <3>1
      <4>4. begun \in Nat
        BY <1>0, SourceIs DEF LazyTypes
      <4> QED
        BY <1>1, <1>4, <2>6, <3>0, <3>1, <4>1, <4>2, <4>3, <4>4
    <3>2. CASE n # m
      <4>1. Source[n] # name
        BY <2>6, <2>7, <3>2, SourceIs
      <4>2. (\A p \in 1 .. Len(todo') : ~IsAppendOf(todo'[p], Source[n]))
            <=> \A p \in 1 .. Len(todo) : ~IsAppendOf(todo[p], Source[n])
        <5>1. ASSUME NEW p2 \in 1 .. Len(todo), IsAppendOf(todo[p2], Source[n]) PROVE p2 # 1
          BY <1>4, <4>1, <5>1 DEF IsAppendOf
        <5> QED
          BY <1>5, <1>6, <5>1
      <4>3. Count(elements, Copies(Source[n])) \in Nat
        BY <1>1
      <4> QED
        BY <1>1, <1>4, <1>12, <2>1, <3>0, <4>1, <4>2, <4>3 DEF CopiesFit
    <3> QED
      BY <3>1, <3>2
  <2>10. ASSUME NEW p \in 1 .. Len(todo'), todo'[p].do = "append"
         PROVE  (\E n \in 1 .. Searched' : todo'[p].src = Source[n])
                /\ \A p2 \in 1 .. Len(todo') : IsAppendOf(todo'[p2], todo'[p].src) => p2 = p
    <3>1. PICK q \in 1 .. Len(todo) : p = q - 1 /\ todo'[p] = todo[q]
      BY <1>5
    <3>2. ASSUME NEW p2 \in 1 .. Len(todo'), IsAppendOf(todo'[p2], todo'[p].src) PROVE p2 = p
      <4>1. PICK q2 \in 1 .. Len(todo) : p2 = q2 - 1 /\ todo'[p2] = todo[q2]
        BY <1>5
      <4>2. q2 = q
        BY <2>1, <2>10, <3>1, <3>2, <4>1 DEF CopiesFit
      <4> QED
        BY <3>1, <4>1, <4>2
    <3>3. \E n \in 1 .. Searched : todo[q].src = Source[n]
      BY <2>1, <2>10, <3>1 DEF CopiesFit
    <3>4. \E n \in 1 .. Searched' : todo'[p].src = Source[n]
      BY <1>12, <3>1, <3>3
    <3> QED
      BY <3>2, <3>4
  <2>11. CopiesFit'
    BY <1>1, <2>9, <2>10 DEF CopiesFit, NSource
  <2> QED
    BY <2>3, <2>4, <2>5, <2>11
<1>14. Plain' => OneByOne'
  <2> SUFFICES ASSUME Plain PROVE OneByOne'
    BY <1>1 DEF Plain
  <2>1. OneByOne
    BY DEF LazyInv
  <2>2. IsLive(todo[1]) <=> IsScript(name)
    BY <1>3, <1>4 DEF IsLive, Tokens
  <2>3. \A d \in 1 .. begun' : Behind(d)'
    BY <1>1, <2>1 DEF OneByOne, Behind, NSource
  <2>4. ASSUME NEW p \in 1 .. Len(todo')
        PROVE  LET rest == left'[todo'[p].call]
               IN  /\ todo'[p].do = "next" /\ rest # <<>> /\ IsScript(Head(rest)) => Head(rest) \in Loaded'
                   /\ todo'[p].do = "append" /\ IsScript(todo'[p].src) /\ rest # <<>> => todo'[p].src = Head(rest)
    <3>1. PICK q \in 1 .. Len(todo) : todo'[p] = todo[q]
      BY <1>5
    <3> QED
      <4>1. todo[q].do = "next" /\ left[todo[q].call] # <<>> /\ IsScript(Head(left[todo[q].call]))
            => Head(left[todo[q].call]) \in Loaded
        BY <2>1 DEF OneByOne
      <4>2. todo[q].do = "append" /\ IsScript(todo[q].src) /\ left[todo[q].call] # <<>>
            => todo[q].src = Head(left[todo[q].call])
        BY <2>1 DEF OneByOne
      <4>3. left' = left /\ Loaded \subseteq Loaded'
        BY <1>1
      <4> QED
        BY <3>1, <4>1, <4>2, <4>3
  <2>5. ASSUME NEW e \in 1 .. Len(elements'), Loading(elements'[e]), left'[elements'[e].call] # <<>>
        PROVE  elements'[e].src = Head(left'[elements'[e].call])
    <3>1. CASE e \in 1 .. Len(elements)
      BY <1>1, <2>1, <2>5, <3>1 DEF OneByOne
    <3>2. CASE e = z
      <4>1. elements'[e] = NewElement /\ IsScript(name) /\ left[TheCall] # <<>>
        BY <1>1, <1>4, <2>5, <3>2
      <4>2. name = Head(left[TheCall])
        BY <1>3, <1>4, <2>1, <4>1 DEF OneByOne
      <4> QED
        BY <1>1, <1>4, <4>1, <4>2
    <3> QED
      BY <1>1, <3>1, <3>2
  <2>6. ASSUME NEW p \in 1 .. Len(todo'), NEW p2 \in 1 .. Len(todo'), IsLive(todo'[p]), IsLive(todo'[p2])
        PROVE  p = p2
    <3>1. PICK q \in 1 .. Len(todo) : p = q - 1 /\ todo'[p] = todo[q]
      BY <1>5
    <3>2. PICK q2 \in 1 .. Len(todo) : p2 = q2 - 1 /\ todo'[p2] = todo[q2]
      BY <1>5
    <3>3. IsLive(todo[q]) /\ IsLive(todo[q2])
      BY <2>6, <3>1, <3>2
    <3>4. q = q2
      BY <2>1, <3>3 DEF OneByOne
    <3> QED
      BY <3>1, <3>2, <3>4
  <2>7. ASSUME IsScript(name)
        PROVE  /\ \A p \in 1 .. Len(todo') : ~IsLive(todo'[p])
               /\ \A e \in 1 .. Len(elements) : Loading(elements[e]) => elements[e].call # TheCall
    <3>1. \A p \in 1 .. Len(todo') : ~IsLive(todo'[p])
      BY <1>3, <1>5, <2>1, <2>2, <2>7 DEF OneByOne
    <3>2. \A e \in 1 .. Len(elements) : Loading(elements[e]) => elements[e].call # TheCall
      BY <1>3, <2>1, <2>2, <2>7 DEF OneByOne
    <3> QED
      BY <3>1, <3>2
  <2>8. ASSUME NEW p \in 1 .. Len(todo'), NEW e \in 1 .. Len(elements'), IsLive(todo'[p]), Loading(elements'[e])
        PROVE  todo'[p].call # elements'[e].call
    <3>1. ~IsScript(name)
      BY <2>7, <2>8
    <3>2. e \in 1 .. Len(elements) /\ elements'[e] = elements[e]
      BY <1>1, <1>4, <2>8, <3>1
    <3>3. PICK q \in 1 .. Len(todo) : todo'[p] = todo[q]
      BY <1>5
    <3> QED
      BY <2>1, <2>8, <3>2, <3>3 DEF OneByOne
  <2>9. ASSUME NEW e \in 1 .. Len(elements'), NEW e2 \in 1 .. Len(elements'),
               Loading(elements'[e]), Loading(elements'[e2]), elements'[e].call = elements'[e2].call
        PROVE  e = e2
    <3>1. CASE e \in 1 .. Len(elements) /\ e2 \in 1 .. Len(elements)
      BY <1>1, <2>1, <2>9, <3>1 DEF OneByOne
    <3>2. CASE e = z /\ e2 \in 1 .. Len(elements)
      BY <1>1, <1>4, <2>7, <2>9, <3>2
    <3>3. CASE e2 = z /\ e \in 1 .. Len(elements)
      BY <1>1, <1>4, <2>7, <2>9, <3>3
    <3> QED
      BY <1>1, <3>1, <3>2, <3>3
  <2> QED
    BY <2>3, <2>4, <2>5, <2>6, <2>8, <2>9 DEF OneByOne
<1>15. Still' /\ begun' > 1 => Scripts' \subseteq Loaded'
  <2>1. Still' /\ begun' > 1 => Scripts \subseteq Loaded
    BY <1>1 DEF LazyInv, Still
  <2> QED
    BY <1>1, <2>1 DEF Scripts
<1>16. ~prefixed' \/ (~overlapped' /\ AllLoad') => early' = {}
  BY <1>1 DEF LazyInv
<1> QED
  BY <1>7, <1>8, <1>10, <1>13, <1>14, <1>15, <1>16 DEF LazyInv

\* A script that was on its way has loaded, or has failed.
LEMMA ElementSettles ==
    ASSUME LazyTypes, NEW el \in 1 .. Len(elements), Loading(elements[el]), NEW new \in {"loaded", "failed"},
           elements' = [elements EXCEPT ![el].state = new]
    PROVE  /\ elements' \in Seq(HeadElement) /\ Len(elements') = Len(elements) /\ Len(elements) \in Nat
           /\ \A e \in 1 .. Len(elements) :
                  /\ elements[e] \in HeadElement
                  /\ elements'[e].call = elements[e].call /\ elements'[e].src = elements[e].src
                  /\ elements'[e].state = IF e = el THEN new ELSE elements[e].state
           /\ \A name : Count(elements', Copies(name)) = Count(elements, Copies(name))
           /\ Count(elements', OnTheirWay) = Count(elements, OnTheirWay) - 1
           /\ Count(elements, OnTheirWay) \in Nat
           /\ \A e \in 1 .. Len(elements) : Loading(elements'[e]) => Loading(elements[e]) /\ e # el
           /\ Loaded \subseteq Loaded' /\ (new = "loaded" => elements[el].src \in Loaded')
<1>1. /\ elements \in Seq(HeadElement) /\ Len(elements) \in Nat /\ elements[el] \in HeadElement
      /\ \A e \in 1 .. Len(elements) : elements[e] \in HeadElement
  BY DEF LazyTypes
<1>2. [elements[el] EXCEPT !.state = new] \in HeadElement
  BY <1>1 DEF HeadElement
<1>3. /\ elements' \in Seq(HeadElement) /\ Len(elements') = Len(elements)
      /\ elements'[el] = [elements[el] EXCEPT !.state = new]
      /\ \A e \in 1 .. Len(elements) : e # el => elements'[e] = elements[e]
  BY <1>1, <1>2
<1>4. elements'[el].call = elements[el].call /\ elements'[el].src = elements[el].src /\ elements'[el].state = new
  BY <1>1, <1>3 DEF HeadElement
<1>5. \A e \in 1 .. Len(elements) :
          /\ elements'[e].call = elements[e].call /\ elements'[e].src = elements[e].src
          /\ elements'[e].state = IF e = el THEN new ELSE elements[e].state
  BY <1>3, <1>4
<1>6. \A e \in 1 .. Len(elements) : elements'[e] \in HeadElement
  BY <1>1, <1>2, <1>3
<1>7. ASSUME NEW name PROVE Count(elements', Copies(name)) = Count(elements, Copies(name))
  <2>1. Places(elements', Copies(name)) = Places(elements, Copies(name))
    BY <1>1, <1>3, <1>5, <1>6 DEF Places, Copies
  <2> QED
    BY <2>1 DEF Count
<1>8. ~Loading(elements'[el]) /\ elements[el] \in OnTheirWay
  BY <1>1, <1>4 DEF Loading, OnTheirWay
<1>9. Count(elements', OnTheirWay) = Count(elements, OnTheirWay) - 1 /\ Count(elements, OnTheirWay) \in Nat
  <2>1. Places(elements', OnTheirWay) = Places(elements, OnTheirWay) \ {el}
    BY <1>3, <1>8 DEF Places, OnTheirWay
  <2>2. el \in Places(elements, OnTheirWay) /\ IsFiniteSet(Places(elements, OnTheirWay))
    BY <1>1, <1>8, CountIsNat DEF Places
  <2>3. Cardinality(Places(elements, OnTheirWay) \ {el}) = Cardinality(Places(elements, OnTheirWay)) - 1
    BY <2>2, FS_RemoveElement
  <2> QED
    BY <1>1, <2>1, <2>3, CountIsNat DEF Count
<1>10. \A e \in 1 .. Len(elements) : Loading(elements'[e]) => Loading(elements[e]) /\ e # el
  BY <1>3, <1>8
<1>11. DOMAIN elements = 1 .. Len(elements) /\ DOMAIN elements' = 1 .. Len(elements)
  BY <1>1, <1>3
<1>12. Loaded \subseteq Loaded'
  <2>1. \A e \in 1 .. Len(elements) : elements[e].state = "loaded" => elements'[e].state = "loaded"
    BY <1>5 DEF Loading
  <2> QED
    BY <1>5, <1>11, <2>1 DEF Loaded
<1>13. new = "loaded" => elements[el].src \in Loaded'
  BY <1>4, <1>11 DEF Loaded
<1> QED
  BY <1>1, <1>3, <1>5, <1>7, <1>9, <1>10, <1>12, <1>13

LEMMA SumMoves ==
    ASSUME NEW r \in Nat, NEW t \in Nat, NEW b \in Nat
    PROVE  r + t - 1 + 1 + (b - 1) = r + t - 1 + 0 + b
OBVIOUS

\* A script has loaded.
LEMMA OnLoadKeeps == ASSUME LazyInv, NEW el \in DOMAIN elements, OnLoad(el) PROVE LazyInv'
<1>0. LazyTypes /\ LeftFits /\ TodoFits
  BY DEF LazyInv
<1> DEFINE item == GotoNext(elements[el].call)
           c == elements[el].call
<1>1. /\ todo = <<>> /\ Loading(elements[el]) /\ elements' = [elements EXCEPT ![el].state = "loaded"]
      /\ todo' = <<item>> /\ prefixed' = prefixed /\ begun' = begun /\ left' = left /\ ran' = ran
      /\ early' = early /\ overlapped' = overlapped
  BY DEF OnLoad
<1>2. el \in 1 .. Len(elements)
  BY <1>0 DEF LazyTypes
<1>3. /\ elements' \in Seq(HeadElement) /\ Len(elements') = Len(elements) /\ Len(elements) \in Nat
      /\ \A e \in 1 .. Len(elements) :
             /\ elements[e] \in HeadElement
             /\ elements'[e].call = elements[e].call /\ elements'[e].src = elements[e].src
             /\ elements'[e].state = IF e = el THEN "loaded" ELSE elements[e].state
      /\ \A name : Count(elements', Copies(name)) = Count(elements, Copies(name))
      /\ Count(elements', OnTheirWay) = Count(elements, OnTheirWay) - 1
      /\ Count(elements, OnTheirWay) \in Nat
      /\ \A e \in 1 .. Len(elements) : Loading(elements'[e]) => Loading(elements[e]) /\ e # el
      /\ Loaded \subseteq Loaded' /\ elements[el].src \in Loaded'
  BY <1>0, <1>1, <1>2, ElementSettles
<1>4. c \in Calls /\ c <= begun /\ c \in 1 .. begun
  <2>1. c \in Calls /\ c <= begun
    BY <1>0, <1>2, <1>3 DEF HeadElement, LeftFits
  <2> QED
    BY <1>0, <2>1, SourceIs DEF LazyTypes
<1>5. item \in Item /\ item.do = "next" /\ item.call = c /\ item \in Tokens
  BY <1>4 DEF GotoNext, Item, Tokens
<1> HIDE DEF item, c
<1>6. /\ todo' \in Seq(Item) /\ Len(todo') = 1 /\ todo'[1] = item /\ todo' # <<>> /\ Head(todo') = item
      /\ \A p \in 1 .. Len(todo') : p = 1
  BY <1>1, <1>5
<1>7. LazyTypes'
  BY <1>0, <1>1, <1>3, <1>6 DEF LazyTypes
<1>8. LeftFits'
  BY <1>0, <1>1, <1>3 DEF LeftFits, NSource
<1>9. TodoFits'
  BY <1>1, <1>4, <1>5, <1>6 DEF TodoFits
<1>10. AllLoad' => AllLoad
  <2>1. DOMAIN elements = 1 .. Len(elements) /\ DOMAIN elements' = 1 .. Len(elements)
    BY <1>0, <1>3 DEF LazyTypes
  <2> QED
    BY <1>1, <1>3, <2>1 DEF AllLoad, Loading
<1>11. ~AtLoad /\ ~AtLoad'
  BY <1>1, <1>5, <1>6 DEF AtLoad
<1>12. TakenUp(begun)' = TakenUp(begun) /\ Searched' = Searched
  <2>1. TakenUp(begun)' = TakenUp(begun)
    BY <1>1 DEF TakenUp, NSource
  <2> QED
    BY <1>11, <2>1 DEF Searched
<1>13. CountsFit'
  <2> SUFFICES ASSUME Still' PROVE (/\ \A d \in 1 .. begun - 1 : ran[d] = RanOf(d)
                                    /\ LastOnly /\ CopiesFit /\ RunsAddUp)'
    BY DEF CountsFit
  <2>1. (\A d \in 1 .. begun - 1 : ran[d] = RanOf(d)) /\ LastOnly /\ CopiesFit /\ RunsAddUp
    <3>1. Still
      BY <1>1, <1>10 DEF Still
    <3> QED
      BY <3>1 DEF LazyInv, CountsFit
  <2>2. c = begun
    BY <1>1, <1>2, <2>1 DEF LastOnly, c
  <2>3. (\A d \in 1 .. begun - 1 : ran[d] = RanOf(d))'
    BY <1>1, <2>1 DEF RanOf, NSource
  <2>4. LastOnly'
    BY <1>1, <1>3, <1>5, <1>6, <2>1, <2>2 DEF LastOnly
  <2>5. RunsAddUp'
    <3>1. Count(todo, Tokens) = 0 /\ Count(todo, Tokens)' = 1
      <4>1. Count(<<item>>, Tokens) = 1
        BY <1>5, CountOne
      <4> QED
        BY <1>1, <4>1, CountNone DEF Tokens
    <3>2. Count(elements, OnTheirWay)' = Count(elements, OnTheirWay) - 1
      BY <1>3 DEF OnTheirWay, Loading
    <3>3. Mistaken' = Mistaken /\ ran'[begun'] = ran[begun]
      BY <1>1 DEF Mistaken
    <3>4. ran[begun] \in Nat /\ TakenUp(begun) \in 1 .. NSource /\ NSource \in Nat
      BY <1>0, <1>4, <2>2, RestIs, SourceIs DEF LazyTypes
    <3>5. ran[begun] + TakenUp(begun) - 1 + 1 + (Count(elements, OnTheirWay) - 1)
              = ran[begun] + TakenUp(begun) - 1 + 0 + Count(elements, OnTheirWay)
      <4>1. TakenUp(begun) \in Nat /\ ran[begun] \in Nat /\ Count(elements, OnTheirWay) \in Nat
        BY <1>3, <3>4
      <4> QED
        BY <4>1, SumMoves
    <3>6. ran[begun] + TakenUp(begun) - 1 + 0 + Count(elements, OnTheirWay) = Searched * (Mistaken + 1)
      BY <2>1, <3>1 DEF RunsAddUp
    <3> QED
      BY <1>12, <3>1, <3>2, <3>3, <3>5, <3>6 DEF RunsAddUp
  <2>6. CopiesFit'
    <3>1. \A n \in 1 .. NSource : Count(elements, Copies(Source[n]))' = Count(elements, Copies(Source[n]))
      BY <1>3 DEF Copies
    <3>2. \A n \in 1 .. NSource : \A p \in 1 .. Len(todo') : ~IsAppendOf(todo'[p], Source[n])
      BY <1>5, <1>6 DEF IsAppendOf
    <3>3. \A n \in 1 .. NSource : \A p \in 1 .. Len(todo) : ~IsAppendOf(todo[p], Source[n])
      BY <1>1
    <3>4. \A p \in 1 .. Len(todo') : todo'[p].do # "append"
      BY <1>5, <1>6
    <3> QED
      BY <1>1, <1>12, <2>1, <3>1, <3>2, <3>3, <3>4 DEF CopiesFit, NSource
  <2> QED
    BY <2>3, <2>4, <2>5, <2>6
<1>14. Plain' => OneByOne'
  <2> SUFFICES ASSUME Plain PROVE OneByOne'
    BY <1>1, <1>10 DEF Plain
  <2>1. OneByOne
    BY DEF LazyInv
  <2>2. \A d \in 1 .. begun' : Behind(d)'
    BY <1>1, <1>3, <2>1 DEF OneByOne, Behind, NSource
  <2>3. ASSUME NEW p \in 1 .. Len(todo')
        PROVE  LET rest == left'[todo'[p].call]
               IN  /\ todo'[p].do = "next" /\ rest # <<>> /\ IsScript(Head(rest)) => Head(rest) \in Loaded'
                   /\ todo'[p].do = "append" /\ IsScript(todo'[p].src) /\ rest # <<>> => todo'[p].src = Head(rest)
    <3>1. todo'[p].do = "next" /\ todo'[p].call = c
      BY <1>5, <1>6
    <3>2. left[c] # <<>> => Head(left[c]) \in Loaded'
      BY <1>1, <1>2, <1>3, <2>1 DEF OneByOne, c
    <3> QED
      BY <1>1, <3>1, <3>2
  <2>4. ASSUME NEW e \in 1 .. Len(elements'), Loading(elements'[e]), left'[elements'[e].call] # <<>>
        PROVE  elements'[e].src = Head(left'[elements'[e].call])
    BY <1>1, <1>3, <2>1, <2>4 DEF OneByOne
  <2>5. ASSUME NEW e \in 1 .. Len(elements'), Loading(elements'[e]) PROVE elements'[e].call # c
    BY <1>1, <1>2, <1>3, <2>1, <2>5 DEF OneByOne, c
  <2>6. \A p \in 1 .. Len(todo') : todo'[p].call = c
    BY <1>5, <1>6
  <2>7. ASSUME NEW e \in 1 .. Len(elements'), NEW e2 \in 1 .. Len(elements'),
               Loading(elements'[e]), Loading(elements'[e2]), elements'[e].call = elements'[e2].call
        PROVE  e = e2
    BY <1>3, <2>1, <2>7 DEF OneByOne
  <2>8. \A p, p2 \in 1 .. Len(todo') : p = p2
    BY <1>6
  <2> QED
    BY <2>2, <2>3, <2>4, <2>5, <2>6, <2>7, <2>8 DEF OneByOne
<1>15. Still' /\ begun' > 1 => Scripts' \subseteq Loaded'
  <2>1. Still' /\ begun' > 1 => Scripts \subseteq Loaded
    BY <1>1, <1>10 DEF LazyInv, Still
  <2> QED
    BY <1>3, <2>1 DEF Scripts
<1>16. ~prefixed' \/ (~overlapped' /\ AllLoad') => early' = {}
  BY <1>1, <1>10 DEF LazyInv
<1> QED
  BY <1>7, <1>8, <1>9, <1>13, <1>14, <1>15, <1>16 DEF LazyInv

\* A script has failed: what comes to rest after that is not counted any more.
LEMMA LoadFailsKeeps == ASSUME LazyInv, NEW el \in DOMAIN elements, LoadFails(el) PROVE LazyInv'
<1>0. LazyTypes /\ LeftFits /\ TodoFits
  BY DEF LazyInv
<1>1. /\ todo = <<>> /\ Loading(elements[el]) /\ elements' = [elements EXCEPT ![el].state = "failed"]
      /\ todo' = todo /\ prefixed' = prefixed /\ begun' = begun /\ left' = left /\ ran' = ran
      /\ early' = early /\ overlapped' = overlapped
  BY DEF LoadFails
<1>2. el \in 1 .. Len(elements)
  BY <1>0 DEF LazyTypes
<1>3. /\ elements' \in Seq(HeadElement) /\ Len(elements') = Len(elements) /\ Len(elements) \in Nat
      /\ \A e \in 1 .. Len(elements) :
             /\ elements[e] \in HeadElement
             /\ elements'[e].call = elements[e].call /\ elements'[e].src = elements[e].src
             /\ elements'[e].state = IF e = el THEN "failed" ELSE elements[e].state
      /\ \A e \in 1 .. Len(elements) : Loading(elements'[e]) => Loading(elements[e]) /\ e # el
      /\ Loaded \subseteq Loaded'
  BY <1>0, <1>1, <1>2, ElementSettles
<1>4. LazyTypes'
  BY <1>0, <1>1, <1>3 DEF LazyTypes
<1>5. LeftFits'
  BY <1>0, <1>1, <1>3 DEF LeftFits, NSource
<1>6. TodoFits'
  BY <1>0, <1>1 DEF TodoFits
<1>7. ~AllLoad'
  <2>1. el \in DOMAIN elements'
    BY <1>2, <1>3
  <2> QED
    BY <1>2, <1>3, <2>1 DEF AllLoad
<1>8. ~Still'
  BY <1>7 DEF Still
<1>9. CountsFit'
  BY <1>8 DEF CountsFit
<1>10. Plain' => OneByOne'
  <2> SUFFICES ASSUME Plain PROVE OneByOne'
    BY <1>1, <1>7 DEF Plain
  <2>1. OneByOne
    BY DEF LazyInv
  <2>2. \A d \in 1 .. begun' : Behind(d)'
    BY <1>1, <1>3, <2>1 DEF OneByOne, Behind, NSource
  <2>3. ASSUME NEW e \in 1 .. Len(elements'), Loading(elements'[e]), left'[elements'[e].call] # <<>>
        PROVE  elements'[e].src = Head(left'[elements'[e].call])
    BY <1>1, <1>3, <2>1, <2>3 DEF OneByOne
  <2>4. ASSUME NEW e \in 1 .. Len(elements'), NEW e2 \in 1 .. Len(elements'),
               Loading(elements'[e]), Loading(elements'[e2]), elements'[e].call = elements'[e2].call
        PROVE  e = e2
    BY <1>3, <2>1, <2>4 DEF OneByOne
  <2>5. \A p \in 1 .. Len(todo') : FALSE
    BY <1>1
  <2> QED
    BY <2>2, <2>3, <2>4, <2>5 DEF OneByOne
<1>11. ~prefixed' \/ (~overlapped' /\ AllLoad') => early' = {}
  BY <1>1, <1>7 DEF LazyInv
<1> QED
  BY <1>4, <1>5, <1>6, <1>8, <1>9, <1>10, <1>11 DEF LazyInv

LEMMA LazyInvStays == LazyInv /\ UNCHANGED lazyVars => LazyInv'
<1> SUFFICES ASSUME LazyInv, UNCHANGED lazyVars PROVE LazyInv'
  OBVIOUS
<1>1. /\ prefixed' = prefixed /\ begun' = begun /\ left' = left /\ elements' = elements /\ todo' = todo
      /\ ran' = ran /\ early' = early /\ overlapped' = overlapped
  BY DEF lazyVars
<1>2. LazyTypes' /\ LeftFits' /\ TodoFits'
  BY <1>1 DEF LazyInv, LazyTypes, LeftFits, TodoFits, NSource
<1>3. Loaded' = Loaded /\ (AllLoad' <=> AllLoad) /\ (Still' <=> Still) /\ (Plain' <=> Plain) /\ Scripts' = Scripts
  BY <1>1 DEF Loaded, AllLoad, Still, Plain, Scripts
<1>4. CountsFit'
  <2> SUFFICES ASSUME Still PROVE (/\ \A d \in 1 .. begun - 1 : ran[d] = RanOf(d)
                                   /\ LastOnly /\ CopiesFit /\ RunsAddUp)'
    BY <1>3 DEF CountsFit
  <2>1. (\A d \in 1 .. begun - 1 : ran[d] = RanOf(d)) /\ LastOnly /\ CopiesFit /\ RunsAddUp
    BY DEF LazyInv, CountsFit
  <2>2. (\A d \in 1 .. begun - 1 : ran[d] = RanOf(d))' /\ LastOnly'
    BY <1>1, <2>1 DEF RanOf, NSource, LastOnly
  <2>3. Searched' = Searched /\ TakenUp(begun)' = TakenUp(begun) /\ Mistaken' = Mistaken
    BY <1>1 DEF Searched, TakenUp, NSource, AtLoad, Mistaken
  <2>4. CopiesFit'
    BY <1>1, <2>1, <2>3 DEF CopiesFit, NSource, Copies, Count, Places
  <2>5. RunsAddUp'
    <3>1. Count(todo, Tokens)' = Count(todo, Tokens) /\ Count(elements, OnTheirWay)' = Count(elements, OnTheirWay)
      BY <1>1 DEF Tokens, OnTheirWay
    <3> QED
      BY <1>1, <2>1, <2>3, <3>1 DEF RunsAddUp
  <2> QED
    BY <2>2, <2>4, <2>5
<1>5. Plain' => OneByOne'
  <2> SUFFICES ASSUME OneByOne PROVE OneByOne'
    BY <1>3 DEF LazyInv
  <2> QED
    BY <1>1, <1>3 DEF OneByOne, Behind, NSource
<1> QED
  BY <1>1, <1>2, <1>3, <1>4, <1>5 DEF LazyInv

LEMMA LazyInvStep == LazyInv /\ [LazyNext]_lazyVars => LazyInv'
BY LazyLoadKeeps, LoadKeeps, NextKeeps, AppendKeeps, OnLoadKeeps, LoadFailsKeeps, LazyInvStays DEF LazyNext

LEMMA LazyInvHolds == LazySpec => []LazyInv
BY LazyInvAtFirst, LazyInvStep, PTL DEF LazySpec

\* The callback runs when every script has loaded, and as often as it should, for any
\* sources and any number of calls (main.js 541-587).
THEOREM ScriptsReadyWhenCalled == LazySpec => []ReadyWhenCalled
BY InvIsEnough, LazyInvHolds, PTL

--------------------
(* LazyLoad: a call puts a source into the page once, so there are never   *)
(* more elements than calls have sources.                                  *)

\* How many of its sources each call has looked for, but for the one at hand.
Sought == [c \in Calls |-> NSource - Len(left[c]) + (IF AtLoad /\ TheCall = c THEN 0 ELSE 1)]

IsAmong(n, name) == \E k \in 1 .. NSource : k <= n /\ name = Source[k]
OneLoad(a, b)    == a.call = b.call /\ a.src = b.src
Appends          == {p \in 1 .. Len(todo) : todo[p].do = "append"}

\* What is in the page, and what is about to be, was looked for by its call, and is there once.
OncePerCall ==
    /\ \A e \in 1 .. Len(elements) : IsAmong(Sought[elements[e].call], elements[e].src)
    /\ \A p \in Appends : IsAmong(Sought[todo[p].call], todo[p].src)
    /\ \A e, e2 \in 1 .. Len(elements) : OneLoad(elements[e], elements[e2]) => e = e2
    /\ \A e \in 1 .. Len(elements), p \in Appends : ~OneLoad(elements[e], todo[p])
    /\ \A p, p2 \in Appends : OneLoad(todo[p], todo[p2]) => p = p2

LEMMA SoughtIs ==
    ASSUME LazyTypes, LeftFits
    PROVE  \A c \in Calls : /\ Sought[c] \in Nat
                            /\ Sought[c] = NSource - Len(left[c]) + (IF AtLoad /\ TheCall = c THEN 0 ELSE 1)
<1>1. \A c \in Calls : Len(left[c]) \in 0 .. NSource
  BY RestIs
<1>2. \A c \in Calls : Sought[c] = NSource - Len(left[c]) + (IF AtLoad /\ TheCall = c THEN 0 ELSE 1)
  BY DEF Sought
<1>3. ASSUME NEW c \in Calls PROVE Sought[c] \in Nat
  <2> DEFINE m == Len(left[c])
  <2>1. m \in 0 .. NSource /\ NSource \in Nat
    BY <1>1, SourceIs
  <2> HIDE DEF m
  <2>2. NSource - m + 0 \in Nat /\ NSource - m + 1 \in Nat
    BY <2>1
  <2> QED
    BY <1>2, <2>2 DEF m
<1> QED
  BY <1>2, <1>3

\* And after a step.
LEMMA SoughtNext ==
    ASSUME LazyTypes', LeftFits'
    PROVE  \A c \in Calls : /\ Sought'[c] \in Nat
                            /\ Sought'[c] = NSource - Len(left'[c]) + (IF AtLoad' /\ TheCall' = c THEN 0 ELSE 1)
<1>1. \A c \in Calls : left'[c] \in Seq(ToSet(Source)) /\ Len(left'[c]) <= NSource
  BY DEF LazyTypes, LeftFits, NSource
<1>2. \A c \in Calls : Sought'[c] = NSource - Len(left'[c]) + (IF AtLoad' /\ TheCall' = c THEN 0 ELSE 1)
  BY DEF Sought, NSource
<1>3. ASSUME NEW c \in Calls PROVE Sought'[c] \in Nat
  <2> DEFINE m == Len(left'[c])
  <2>1. m \in Nat /\ m <= NSource /\ NSource \in Nat
    BY <1>1, SourceIs
  <2> HIDE DEF m
  <2>2. NSource - m + 0 \in Nat /\ NSource - m + 1 \in Nat
    BY <2>1
  <2> QED
    BY <1>2, <2>2 DEF m
<1> QED
  BY <1>2, <1>3

\* What was looked for has been looked for.
LEMMA AmongMore ==
    ASSUME NEW n \in Nat, NEW m \in Nat, n <= m, NEW name, IsAmong(n, name)
    PROVE  IsAmong(m, name)
  BY SourceIs DEF IsAmong

\* An element and an item have a call and a source.
LEMMA CallOf ==
    ASSUME LazyTypes
    PROVE  /\ \A e \in 1 .. Len(elements) : elements[e] \in HeadElement /\ elements[e].call \in Calls
           /\ \A p \in 1 .. Len(todo) : todo[p] \in Item /\ todo[p].call \in Calls
<1>1. \A e \in 1 .. Len(elements) : elements[e] \in HeadElement
  BY DEF LazyTypes
<1>2. \A p \in 1 .. Len(todo) : todo[p] \in Item
  BY DEF LazyTypes
<1>3. (\A e \in HeadElement : e.call \in Calls) /\ (\A item \in Item : item.call \in Calls)
  BY DEF HeadElement, Item
<1> QED
  BY <1>1, <1>2, <1>3

LEMMA OnceAtFirst == LazyInit => OncePerCall
<1> SUFFICES ASSUME LazyInit PROVE OncePerCall
  OBVIOUS
<1>1. 1 .. Len(elements) = {} /\ Appends = {}
  BY DEF LazyInit, Appends
<1> QED
  BY <1>1 DEF OncePerCall

\* A step that looks for nothing and puts nothing on the agenda to be put into the page.
LEMMA OnceStays ==
    ASSUME LazyInv, OncePerCall, LazyInv',
           \A c \in Calls : c <= begun => Sought[c] <= Sought'[c],
           Len(elements') = Len(elements),
           \A e \in 1 .. Len(elements) : OneLoad(elements'[e], elements[e]),
           NEW k \in Int,
           \A p \in Appends' : p - k \in Appends /\ OneLoad(todo'[p], todo[p - k])
    PROVE  OncePerCall'
<1>1. LazyTypes /\ LeftFits /\ TodoFits /\ LazyTypes' /\ LeftFits'
  BY DEF LazyInv
<1>2. \A c \in Calls : c <= begun => Sought[c] \in Nat /\ Sought'[c] \in Nat /\ Sought[c] <= Sought'[c]
  <2>1. \A c \in Calls : Sought[c] \in Nat
    BY <1>1, SoughtIs
  <2>2. \A c \in Calls : Sought'[c] \in Nat
    BY <1>1, SoughtNext
  <2> QED
    BY <2>1, <2>2
<1>3. ASSUME NEW e \in 1 .. Len(elements)
      PROVE  IsAmong(Sought'[elements'[e].call], elements'[e].src)
  <2>1. elements[e].call \in Calls /\ elements[e].call <= begun
    BY <1>1, CallOf DEF LeftFits
  <2>2. IsAmong(Sought[elements[e].call], elements[e].src)
    BY DEF OncePerCall
  <2>3. IsAmong(Sought'[elements[e].call], elements[e].src)
    BY <1>2, <2>1, <2>2, AmongMore
  <2> QED
    BY <2>3 DEF OneLoad
<1>4. ASSUME NEW p \in Appends' PROVE IsAmong(Sought'[todo'[p].call], todo'[p].src)
  <2> DEFINE q == p - k
  <2>1. q \in Appends /\ q \in 1 .. Len(todo) /\ OneLoad(todo'[p], todo[q])
    BY DEF Appends
  <2> HIDE DEF q
  <2>2. todo[q].call \in Calls /\ todo[q].call <= begun
    BY <1>1, <2>1, CallOf DEF TodoFits
  <2>3. IsAmong(Sought[todo[q].call], todo[q].src)
    BY <2>1 DEF OncePerCall
  <2>4. IsAmong(Sought'[todo[q].call], todo[q].src)
    BY <1>2, <2>2, <2>3, AmongMore
  <2> QED
    BY <2>1, <2>4 DEF OneLoad
<1>5. ASSUME NEW e \in 1 .. Len(elements), NEW e2 \in 1 .. Len(elements), OneLoad(elements'[e], elements'[e2])
      PROVE  e = e2
  BY <1>5 DEF OncePerCall, OneLoad
<1>6. ASSUME NEW e \in 1 .. Len(elements), NEW p \in Appends' PROVE ~OneLoad(elements'[e], todo'[p])
  BY DEF OncePerCall, OneLoad
<1>7. ASSUME NEW p \in Appends', NEW p2 \in Appends', OneLoad(todo'[p], todo'[p2]) PROVE p = p2
  <2>1. p \in Int /\ p2 \in Int
    BY DEF Appends
  <2>2. p - k = p2 - k
    BY <1>7 DEF OncePerCall, OneLoad
  <2> QED
    BY <2>1, <2>2
<1> QED
  BY <1>3, <1>4, <1>5, <1>6, <1>7 DEF OncePerCall

\* A call that begins has put nothing into the page.
LEMMA LazyLoadOnce == ASSUME LazyInv, OncePerCall, LazyLoad PROVE OncePerCall'
<1>0. LazyTypes /\ LeftFits /\ TodoFits /\ LazyInv'
  BY LazyLoadKeeps DEF LazyInv
<1>1. LazyTypes' /\ LeftFits'
  BY <1>0 DEF LazyInv
<1> DEFINE d == begun + 1
<1>2. /\ todo = <<>> /\ left' = [left EXCEPT ![d] = Source] /\ elements' = elements
      /\ todo' = <<[do |-> "load", call |-> d]>>
  BY DEF LazyLoad
<1>3. begun \in Nat
  BY <1>0 DEF LazyTypes
<1>4. Appends' = {}
  <2>1. \A p \in 1 .. Len(todo') : todo'[p].do = "load"
    BY <1>2
  <2> QED
    BY <2>1 DEF Appends
<1>5. ~AtLoad /\ TheCall' = d
  BY <1>2 DEF AtLoad, TheCall
<1>6. ASSUME NEW c \in Calls, c <= begun PROVE Sought'[c] = Sought[c]
  <2>1. c # d
    BY <1>3, <1>6
  <2>2. left'[c] = left[c]
    BY <1>0, <1>2, <2>1 DEF LazyTypes
  <2> QED
    BY <1>0, <1>1, <1>5, <2>1, <2>2, SoughtIs, SoughtNext
<1>7. \A c \in Calls : c <= begun => Sought[c] <= Sought'[c]
  BY <1>0, <1>6, SoughtIs
<1>8. \A e \in 1 .. Len(elements) : OneLoad(elements'[e], elements[e])
  BY <1>2 DEF OneLoad
<1> HIDE DEF d
<1> QED
  BY <1>0, <1>2, <1>4, <1>7, <1>8, OnceStays

\* The source at hand is looked for, and it is another than those before.
LEMMA LoadOnce == ASSUME LazyInv, OncePerCall, Load PROVE OncePerCall'
<1>0. LazyTypes /\ LeftFits /\ TodoFits /\ LazyInv'
  BY LoadKeeps DEF LazyInv
<1>1. LazyTypes' /\ LeftFits'
  BY <1>0 DEF LazyInv
<1> DEFINE k == Nexts
           z == Nexts + 1
           n0 == TakenUp(TheCall)
           d == TheCall
<1>2. /\ todo # <<>> /\ Head(todo).do = "load" /\ left[d] # <<>> /\ Nexts \in Nat
      /\ TheName = Source[n0] /\ n0 \in 1 .. NSource /\ left' = left /\ elements' = elements
  BY <1>0, LoadIs
<1>3. /\ todo' # <<>> /\ Head(todo') = todo'[1] /\ Len(todo') \in Nat
      /\ \A p \in 1 .. Len(todo') :
             \/ p \in 1 .. k /\ todo'[p] = GotoNext(d)
             \/ p = z /\ todo'[p] = Append1
             \/ \E p2 \in 2 .. Len(todo) : p = p2 + k /\ todo'[p] = todo[p2]
      /\ \A p \in 1 .. Len(todo') : todo'[p].call = d /\ todo'[p].do # "load"
  BY <1>0, LoadItems
<1>4. d \in Calls /\ Append1.call = d /\ Append1.src = TheName /\ GotoNext(d).do = "next"
  BY <1>0, <1>2, TheCallIs DEF Append1, GotoNext
<1>5. AtLoad /\ ~AtLoad'
  <2>1. 1 \in 1 .. Len(todo')
    BY <1>3
  <2> QED
    BY <1>2, <1>3, <2>1 DEF AtLoad
<1>6. Sought'[d] = n0 /\ n0 = Sought[d] + 1 /\ \A c \in Calls : Sought[c] \in Nat /\ Sought'[c] \in Nat /\ Sought[c] <= Sought'[c]
  <2>1. n0 = NSource - Len(left[d]) + 1 /\ Len(left[d]) \in 0 .. NSource /\ NSource \in Nat
    BY <1>0, <1>2, <1>4, RestIs, SourceIs
  <2>2. Sought[d] = NSource - Len(left[d]) + 0 /\ Sought'[d] = NSource - Len(left[d]) + 1
    BY <1>0, <1>1, <1>2, <1>4, <1>5, SoughtIs, SoughtNext
  <2>3. Sought'[d] = n0 /\ n0 = Sought[d] + 1
    BY <2>1, <2>2
  <2>4. ASSUME NEW c \in Calls, c # d PROVE Sought'[c] = Sought[c]
    BY <1>0, <1>1, <1>2, <1>5, <2>4, SoughtIs, SoughtNext
  <2>5. \A c \in Calls : Sought[c] \in Nat /\ Sought'[c] \in Nat
    BY <1>0, <1>1, SoughtIs, SoughtNext
  <2> QED
    BY <1>4, <2>3, <2>4, <2>5
<1>7. ~IsAmong(Sought[d], TheName) /\ IsAmong(Sought'[d], TheName)
  <2>1. ASSUME NEW m \in 1 .. NSource, m <= Sought[d], TheName = Source[m] PROVE FALSE
    <3>1. m = n0
      BY <1>2, <2>1, SourceIs
    <3> QED
      BY <1>4, <1>6, <2>1, <3>1
  <2>2. n0 <= Sought'[d]
    BY <1>2, <1>6
  <2> QED
    BY <1>2, <2>1, <2>2 DEF IsAmong
<1>8. ASSUME NEW p \in Appends'
      PROVE  \/ p = z /\ todo'[p] = Append1
             \/ p - k \in Appends /\ todo'[p] = todo[p - k]
  <2>1. p \in 1 .. Len(todo') /\ todo'[p].do = "append"
    BY DEF Appends
  <2>2. CASE \E p2 \in 2 .. Len(todo) : p = p2 + k /\ todo'[p] = todo[p2]
    <3>1. PICK p2 \in 2 .. Len(todo) : p = p2 + k /\ todo'[p] = todo[p2]
      BY <2>2
    <3>2. p2 = p - k /\ p2 \in 1 .. Len(todo)
      BY <1>2, <3>1
    <3> QED
      BY <2>1, <3>1, <3>2 DEF Appends
  <2> QED
    BY <1>3, <1>4, <2>1, <2>2
<1> HIDE DEF k, z, n0, d
<1>9. /\ \A e \in 1 .. Len(elements) : ~OneLoad(elements[e], Append1)
      /\ \A q \in Appends : ~OneLoad(todo[q], Append1)
  BY <1>4, <1>7 DEF OncePerCall, OneLoad
<1>10. ASSUME NEW e \in 1 .. Len(elements) PROVE IsAmong(Sought'[elements[e].call], elements[e].src)
  BY <1>0, <1>6, CallOf, AmongMore DEF OncePerCall
<1>11. ASSUME NEW q \in Appends PROVE IsAmong(Sought'[todo[q].call], todo[q].src)
  <2>1. todo[q].call \in Calls
    BY <1>0, CallOf DEF Appends
  <2> QED
    BY <1>6, <2>1, AmongMore DEF OncePerCall
<1>12. ASSUME NEW p \in Appends' PROVE IsAmong(Sought'[todo'[p].call], todo'[p].src)
  BY <1>4, <1>7, <1>8, <1>11
<1>13. ASSUME NEW e \in 1 .. Len(elements), NEW p \in Appends' PROVE ~OneLoad(elements[e], todo'[p])
  BY <1>8, <1>9 DEF OncePerCall
<1>14. ASSUME NEW p \in Appends', NEW p2 \in Appends', OneLoad(todo'[p], todo'[p2]) PROVE p = p2
  <2>1. CASE p = z /\ p2 = z
    BY <2>1
  <2>2. ASSUME NEW q \in Appends', NEW q2 \in Appends', q - k \in Appends, todo'[q] = todo[q - k], todo'[q2] = Append1
        PROVE  ~OneLoad(todo'[q], todo'[q2]) /\ ~OneLoad(todo'[q2], todo'[q])
    BY <1>9, <2>2 DEF OneLoad
  <2>3. CASE p - k \in Appends /\ todo'[p] = todo[p - k] /\ p2 - k \in Appends /\ todo'[p2] = todo[p2 - k]
    <3>1. p - k = p2 - k
      BY <1>14, <2>3 DEF OncePerCall
    <3>2. p \in Int /\ p2 \in Int /\ k \in Int
      BY <1>2 DEF Appends, k
    <3> QED
      BY <3>1, <3>2
  <2> QED
    BY <1>8, <1>14, <2>1, <2>2, <2>3
<1>15. \A e, e2 \in 1 .. Len(elements') : OneLoad(elements'[e], elements'[e2]) => e = e2
  BY <1>2 DEF OncePerCall
<1> QED
  BY <1>2, <1>10, <1>12, <1>13, <1>14, <1>15 DEF OncePerCall

\* A source more is at hand, and is looked for only then.
LEMMA NextOnce == ASSUME LazyInv, OncePerCall, Next1 PROVE OncePerCall'
<1>0. LazyTypes /\ LeftFits /\ TodoFits /\ LazyInv'
  BY NextKeeps DEF LazyInv
<1>1. LazyTypes' /\ LeftFits'
  BY <1>0 DEF LazyInv
<1> DEFINE d == TheCall
           k == Len(AfterNext) - 1
<1>2. /\ todo # <<>> /\ Head(todo).do = "next" /\ left' = [left EXCEPT ![d] = Rest] /\ elements' = elements
      /\ Len(Rest) \in 0 .. NSource /\ (left[d] # <<>> => Len(Rest) = Len(left[d]) - 1)
      /\ Rest # <<>> => left[d] # <<>>
  BY <1>0, NextIs
<1>3. /\ todo' # <<>> => Head(todo') = todo'[1]
      /\ \A p \in 1 .. Len(todo') :
             \/ p = 1 /\ Rest # <<>> /\ todo'[p] = LoadNext
             \/ \E p2 \in 2 .. Len(todo) : p = p2 - 1 + Len(AfterNext) /\ todo'[p] = todo[p2]
      /\ Len(AfterNext) \in {0, 1} /\ (Rest # <<>> => todo' # <<>> /\ todo'[1] = LoadNext)
      /\ AtLoad' <=> Rest # <<>>
  BY <1>0, NextItems
<1>4. d \in Calls /\ LoadNext.call = d /\ LoadNext.do = "load" /\ ~AtLoad
  BY <1>0, <1>2, TheCallIs DEF LoadNext, AtLoad
<1>5. left'[d] = Rest /\ \A c \in Calls : c # d => left'[c] = left[c]
  BY <1>0, <1>2, <1>4 DEF LazyTypes
<1>6. ASSUME NEW c \in Calls PROVE Sought[c] <= Sought'[c]
  <2>1. Sought[c] = NSource - Len(left[c]) + 1 /\ Len(left[c]) \in 0 .. NSource /\ NSource \in Nat
    BY <1>0, <1>4, SoughtIs, RestIs, SourceIs
  <2>2. CASE c # d
    <3>1. ~(AtLoad' /\ TheCall' = c)
      BY <1>3, <1>4, <2>2 DEF TheCall
    <3>2. Sought'[c] = Sought[c]
      BY <1>1, <1>5, <2>1, <2>2, <3>1, SoughtNext
    <3> QED
      BY <2>1, <3>2
  <2>3. CASE c = d /\ Rest # <<>>
    <3>1. Sought'[c] = NSource - Len(Rest) + 0
      BY <1>1, <1>3, <1>4, <1>5, <2>3, SoughtNext DEF TheCall
    <3>2. Len(Rest) = Len(left[c]) - 1
      BY <1>2, <2>3
    <3> QED
      BY <1>2, <2>1, <3>1, <3>2
  <2>4. CASE c = d /\ Rest = <<>>
    <3>1. Sought'[c] = NSource - 0 + 1
      BY <1>1, <1>3, <1>4, <1>5, <2>4, SoughtNext
    <3> DEFINE m == Len(left[c])
    <3>2. m \in Nat /\ Sought[c] = NSource - m + 1 /\ NSource \in Nat
      BY <2>1
    <3> HIDE DEF m
    <3>3. NSource - m + 1 <= NSource - 0 + 1
      BY <3>2
    <3> QED
      BY <3>1, <3>2, <3>3
  <2> QED
    BY <2>2, <2>3, <2>4
<1>7. ASSUME NEW p \in Appends' PROVE p - k \in Appends /\ OneLoad(todo'[p], todo[p - k])
  <2>1. p \in 1 .. Len(todo') /\ todo'[p].do = "append"
    BY DEF Appends
  <2>2. PICK p2 \in 2 .. Len(todo) : p = p2 - 1 + Len(AfterNext) /\ todo'[p] = todo[p2]
    BY <1>3, <1>4, <2>1
  <2>3. p2 = p - k /\ p2 \in 1 .. Len(todo)
    BY <1>3, <2>2
  <2> QED
    BY <2>1, <2>2, <2>3 DEF Appends, OneLoad
<1>8. \A e \in 1 .. Len(elements) : OneLoad(elements'[e], elements[e])
  BY <1>2 DEF OneLoad
<1>9. k \in Int
  BY <1>3
<1> HIDE DEF d, k
<1> QED
  BY <1>0, <1>2, <1>6, <1>7, <1>8, <1>9, OnceStays

\* What was about to be put into the page is in it.
LEMMA AppendOnce == ASSUME LazyInv, OncePerCall, AppendElement PROVE OncePerCall'
<1>0. LazyTypes /\ LeftFits /\ TodoFits /\ LazyInv'
  BY AppendKeeps DEF LazyInv
<1>1. LazyTypes' /\ LeftFits'
  BY <1>0 DEF LazyInv
<1> DEFINE z == Len(elements) + 1
<1>2. /\ todo # <<>> /\ Head(todo).do = "append" /\ left' = left
      /\ Len(elements) \in Nat /\ Len(elements') = z /\ elements'[z] = NewElement
      /\ \A e \in 1 .. Len(elements) : elements'[e] = elements[e]
      /\ \A e \in 1 .. Len(elements') : e \in 1 .. Len(elements) \/ e = z
  BY <1>0, AppendIs
<1>3. /\ Head(todo) = todo[1] /\ 1 \in 1 .. Len(todo) /\ Len(todo) \in Nat /\ TheCall = todo[1].call
      /\ \A p \in 2 .. Len(todo) : p \in 1 .. Len(todo) /\ todo[p].do # "load"
  BY <1>0, <1>2, TheCallIs
<1>4. /\ Len(todo') = Len(todo) - 1 /\ todo' \in Seq(Item)
      /\ \A p \in 1 .. Len(todo') : p + 1 \in 2 .. Len(todo) /\ todo'[p] = todo[p + 1]
  <2>1. todo' = Tail(todo) /\ todo \in Seq(Item)
    BY <1>0 DEF AppendElement, LazyTypes
  <2>2. /\ Tail(todo) \in Seq(Item) /\ Len(Tail(todo)) = Len(todo) - 1
        /\ \A p \in 1 .. Len(Tail(todo)) : Tail(todo)[p] = todo[p + 1]
    BY <1>2, <2>1, HeadTailProperties
  <2> QED
    BY <1>3, <2>1, <2>2
<1>5. 1 \in Appends /\ OneLoad(NewElement, todo[1])
  BY <1>2, <1>3 DEF Appends, OneLoad, NewElement
<1>6. ~AtLoad /\ ~AtLoad'
  <2>1. ASSUME todo' # <<>> PROVE Head(todo') = todo'[1] /\ 1 \in 1 .. Len(todo')
    BY <1>4, <2>1
  <2> QED
    BY <1>2, <1>3, <1>4, <2>1 DEF AtLoad
<1>7. \A c \in Calls : Sought'[c] = Sought[c]
  BY <1>0, <1>1, <1>2, <1>6, SoughtIs, SoughtNext
<1>8. ASSUME NEW p \in Appends' PROVE p + 1 \in Appends /\ p + 1 # 1 /\ todo'[p] = todo[p + 1]
  <2>1. p \in 1 .. Len(todo') /\ todo'[p].do = "append"
    BY DEF Appends
  <2> QED
    BY <1>3, <1>4, <2>1 DEF Appends
<1>9. ASSUME NEW e \in 1 .. Len(elements')
      PROVE  \/ e \in 1 .. Len(elements) /\ elements'[e] = elements[e]
             \/ e = z /\ OneLoad(elements'[e], todo[1])
  BY <1>2, <1>5
<1> HIDE DEF z
<1>10. ASSUME NEW e \in 1 .. Len(elements') PROVE IsAmong(Sought'[elements'[e].call], elements'[e].src)
  <2>1. CASE e \in 1 .. Len(elements) /\ elements'[e] = elements[e]
    BY <1>0, <1>7, <2>1, CallOf DEF OncePerCall
  <2>2. CASE OneLoad(elements'[e], todo[1])
    BY <1>0, <1>3, <1>5, <1>7, <2>2, CallOf DEF OncePerCall, OneLoad
  <2> QED
    BY <1>9, <2>1, <2>2
<1>11. ASSUME NEW p \in Appends' PROVE IsAmong(Sought'[todo'[p].call], todo'[p].src)
  <2>1. todo[p + 1].call \in Calls
    BY <1>0, <1>8, CallOf DEF Appends
  <2> QED
    BY <1>7, <1>8, <2>1 DEF OncePerCall
<1>12. ASSUME NEW e \in 1 .. Len(elements'), NEW e2 \in 1 .. Len(elements'), OneLoad(elements'[e], elements'[e2])
       PROVE  e = e2
  <2>1. \A q \in 1 .. Len(elements) : ~OneLoad(elements[q], todo[1])
    BY <1>5 DEF OncePerCall
  <2> QED
    BY <1>9, <1>12, <2>1 DEF OncePerCall, OneLoad
<1>13. ASSUME NEW e \in 1 .. Len(elements'), NEW p \in Appends' PROVE ~OneLoad(elements'[e], todo'[p])
  <2>1. p + 1 \in Appends /\ p + 1 # 1 /\ todo'[p] = todo[p + 1]
    BY <1>8
  <2>2. ~OneLoad(todo[1], todo[p + 1])
    BY <1>5, <2>1 DEF OncePerCall
  <2> QED
    BY <1>9, <2>1, <2>2 DEF OncePerCall, OneLoad
<1>14. ASSUME NEW p \in Appends', NEW p2 \in Appends', OneLoad(todo'[p], todo'[p2]) PROVE p = p2
  <2>1. p + 1 = p2 + 1
    BY <1>8, <1>14 DEF OncePerCall
  <2>2. p \in Int /\ p2 \in Int
    BY DEF Appends
  <2> QED
    BY <2>1, <2>2
<1> QED
  BY <1>10, <1>11, <1>12, <1>13, <1>14 DEF OncePerCall

\* A script settles where it is.
LEMMA SettledOnce ==
    ASSUME LazyInv, LazyInv', OncePerCall, NEW el \in DOMAIN elements, OnLoad(el) \/ LoadFails(el)
    PROVE  OncePerCall'
<1>0. LazyTypes /\ LeftFits /\ LazyTypes' /\ LeftFits'
  BY DEF LazyInv
<1>1. /\ todo = <<>> /\ left' = left /\ Loading(elements[el]) /\ el \in 1 .. Len(elements)
      /\ \E new \in {"loaded", "failed"} : elements' = [elements EXCEPT ![el].state = new]
      /\ \A p \in 1 .. Len(todo') : todo'[p].do = "next"
      /\ todo' # <<>> => Head(todo') = todo'[1] /\ 1 \in 1 .. Len(todo')
  BY <1>0 DEF OnLoad, LoadFails, GotoNext, LazyTypes
<1>2. /\ Len(elements') = Len(elements)
      /\ \A e \in 1 .. Len(elements) : OneLoad(elements'[e], elements[e])
  BY <1>0, <1>1, ElementSettles DEF OneLoad
<1>3. ~AtLoad /\ ~AtLoad' /\ Appends' = {}
  BY <1>1 DEF AtLoad, Appends
<1>4. \A c \in Calls : Sought'[c] = Sought[c] /\ Sought[c] \in Nat
  BY <1>0, <1>1, <1>3, SoughtIs, SoughtNext
<1>5. \A c \in Calls : Sought[c] <= Sought'[c]
  BY <1>4
<1> QED
  BY <1>2, <1>3, <1>5, OnceStays

LEMMA OnceStep == LazyInv /\ OncePerCall /\ [LazyNext]_lazyVars => OncePerCall'
<1> SUFFICES ASSUME LazyInv, OncePerCall, [LazyNext]_lazyVars PROVE OncePerCall'
  OBVIOUS
<1>1. LazyInv'
  BY LazyInvStep
<1>2. ASSUME UNCHANGED lazyVars PROVE OncePerCall'
  <2>1. left' = left /\ elements' = elements /\ todo' = todo
    BY <1>2 DEF lazyVars
  <2>2. Sought' = Sought /\ Appends' = Appends
    BY <2>1 DEF Sought, AtLoad, TheCall, NSource, Appends
  <2> QED
    BY <2>1, <2>2 DEF OncePerCall
<1> QED
  BY <1>1, <1>2, LazyLoadOnce, LoadOnce, NextOnce, AppendOnce, SettledOnce DEF LazyNext

\* So the elements are as many as pairs of a call and a source, at most.
LEMMA LazyInvTypes == LazyInv /\ OncePerCall => LazyTypeOK
<1> SUFFICES ASSUME LazyInv, OncePerCall PROVE LazyTypeOK
  OBVIOUS
<1>1. LazyTypes /\ LeftFits
  BY DEF LazyInv
<1>2. Len(elements) <= Len(Source) * begun
  <2> DEFINE D == 1 .. Len(elements)
             Pairs == (1 .. NSource) \X (1 .. begun)
             place(name) == CHOOSE n \in 1 .. NSource : name = Source[n]
             f == [e \in D |-> <<place(elements[e].src), elements[e].call>>]
  <2>1. begun \in Nat /\ NSource \in Nat /\ Len(elements) \in Nat
    BY <1>1, SourceIs DEF LazyTypes
  <2>2. /\ IsFiniteSet(1 .. NSource) /\ Cardinality(1 .. NSource) = NSource
        /\ IsFiniteSet(1 .. begun) /\ Cardinality(1 .. begun) = begun
        /\ Cardinality(D) = Len(elements)
    <3>1. \A n \in Nat : IsFiniteSet(1 .. n) /\ Cardinality(1 .. n) = n
      BY FS_Interval
    <3> QED
      BY <2>1, <3>1
  <2>3. IsFiniteSet(Pairs) /\ Cardinality(Pairs) = NSource * begun
    <3>1. ASSUME NEW S, NEW T, IsFiniteSet(S), IsFiniteSet(T)
          PROVE  IsFiniteSet(S \X T) /\ Cardinality(S \X T) = Cardinality(S) * Cardinality(T)
      BY <3>1, FS_Product
    <3>2. /\ IsFiniteSet(Pairs)
          /\ Cardinality(Pairs) = Cardinality(1 .. NSource) * Cardinality(1 .. begun)
      BY <2>2, <3>1
    <3> QED
      BY <2>2, <3>2
  <2>4. ASSUME NEW e \in D
        PROVE  /\ place(elements[e].src) \in 1 .. NSource /\ elements[e].src = Source[place(elements[e].src)]
               /\ elements[e].call \in 1 .. begun
    <3>1. IsAmong(Sought[elements[e].call], elements[e].src)
      BY DEF OncePerCall
    <3>2. \E n \in 1 .. NSource : elements[e].src = Source[n]
      BY <3>1 DEF IsAmong
    <3>3. elements[e].call \in Calls /\ elements[e].call <= begun
      BY <1>1, CallOf DEF LeftFits
    <3> QED
      BY <2>1, <3>2, <3>3 DEF Calls
  <2> HIDE DEF place
  <2>5. f \in [D -> Pairs]
    BY <2>4
  <2>6. ASSUME NEW e \in D, NEW e2 \in D, f[e] = f[e2] PROVE e = e2
    <3>1. place(elements[e].src) = place(elements[e2].src) /\ elements[e].call = elements[e2].call
      BY <2>6
    <3>2. OneLoad(elements[e], elements[e2])
      BY <2>4, <3>1 DEF OneLoad
    <3> QED
      BY <3>2 DEF OncePerCall
  <2> HIDE DEF f, Pairs
  <2>7. f \in Injection(D, Pairs)
    BY <2>5, <2>6 DEF Injection, IsInjective
  <2>8. Cardinality(D) <= Cardinality(Pairs)
    BY <2>3, <2>7, FS_Injection
  <2> QED
    BY <2>2, <2>3, <2>8 DEF NSource
<1>3. ASSUME NEW c \in Calls PROVE IsSuffix(left[c], Source)
  <2> DEFINE r == left[c]
             m == Len(r)
             t == Source
  <2>1. /\ r \in Seq(ToSet(Source)) /\ m \in 0 .. NSource /\ t \in Seq(ToSet(Source)) /\ Len(t) = NSource
        /\ NSource \in Nat /\ \A p \in 1 .. m : r[p] = t[NSource - m + p]
    BY <1>1, RestIs, SourceIs DEF LeftFits, NSource
  <2> HIDE DEF r, m, t
  <2>2. Len(r) = m
    BY DEF m
  <2>3. /\ Reverse(r) \in Seq(ToSet(Source)) /\ Len(Reverse(r)) = m
        /\ \A p \in 1 .. m : Reverse(r)[p] = r[m - p + 1]
    <3>1. Reverse(r) = [p \in 1 .. m |-> r[m - p + 1]]
      BY <2>2 DEF Reverse
    <3>2. ASSUME NEW p \in 1 .. m PROVE r[m - p + 1] \in ToSet(Source)
      <4>1. m - p + 1 \in 1 .. m
        BY <2>1
      <4> QED
        BY <2>1, <2>2, <4>1
    <3>3. m \in Nat
      BY <2>1
    <3> QED
      BY <3>1, <3>2, <3>3
  <2>4. /\ Reverse(t) \in Seq(ToSet(Source)) /\ Len(Reverse(t)) = NSource
        /\ \A p \in 1 .. NSource : Reverse(t)[p] = t[NSource - p + 1]
    <3>1. Reverse(t) = [p \in 1 .. NSource |-> t[NSource - p + 1]]
      BY <2>1 DEF Reverse
    <3>2. \A p \in 1 .. NSource : t[NSource - p + 1] \in ToSet(Source)
      BY <2>1
    <3> QED
      BY <2>1, <3>1, <3>2
  <2>5. \A p \in 1 .. m : Reverse(r)[p] = Reverse(t)[p]
    <3>1. ASSUME NEW p \in 1 .. m PROVE Reverse(r)[p] = Reverse(t)[p]
      <4>1. m - p + 1 \in 1 .. m /\ p \in 1 .. NSource /\ NSource - m + (m - p + 1) = NSource - p + 1
        BY <2>1
      <4>2. r[m - p + 1] = t[NSource - m + (m - p + 1)]
        BY <2>1, <4>1
      <4> QED
        BY <2>3, <2>4, <4>1, <4>2
    <3> QED
      BY <3>1
  <2>6. SubSeq(Reverse(r), 1, m) = SubSeq(Reverse(t), 1, m)
    <3>1. /\ SubSeq(Reverse(r), 1, m) = [p \in 1 .. m |-> Reverse(r)[p]]
          /\ SubSeq(Reverse(t), 1, m) = [p \in 1 .. m |-> Reverse(t)[p]]
      BY <2>1, <2>3, <2>4
    <3> QED
      BY <2>5, <3>1
  <2>7. IsPrefix(Reverse(r), Reverse(t))
    BY <2>1, <2>3, <2>4, <2>6 DEF IsPrefix
  <2> QED
    BY <2>7 DEF IsSuffix, r, t
<1> QED
  BY <1>1, <1>2, <1>3 DEF LazyTypes, LazyTypeOK

\* No two elements of one call have one source.
NoneTwice == \A e, e2 \in 1 .. Len(elements) : OneLoad(elements[e], elements[e2]) => e = e2

\* No call puts a source into the page twice, however often a source it finds there sends it on; what
\* is left of a call is the end of its sources (main.js 541-587).
THEOREM SourcesAreLoadedOnce == LazySpec => [](LazyTypeOK /\ NoneTwice)
<1>1. LazyInit => LazyInv /\ OncePerCall
  BY LazyInvAtFirst, OnceAtFirst
<1>2. LazyInv /\ OncePerCall /\ [LazyNext]_lazyVars => LazyInv' /\ OncePerCall'
  BY LazyInvStep, OnceStep
<1>3. OncePerCall => NoneTwice
  BY DEF OncePerCall, NoneTwice
<1> QED
  BY <1>1, <1>2, <1>3, LazyInvTypes, PTL DEF LazySpec

--------------------
(* StringTools: the index stays in the text. *)

InText == s \in Text /\ i \in 0 .. Len(s) /\ imax \in 0 .. Len(s)

LEMMA InTextAtFirst == StringInit => InText
<1> SUFFICES ASSUME StringInit PROVE InText
  OBVIOUS
<1>1. s \in Text /\ s \in Seq(Letter) /\ i = 0 /\ imax = 0
  BY StringToolsAssumption DEF StringInit, Letter
<1>2. Len(s) \in Nat
  BY <1>1
<1> QED
  BY <1>1, <1>2 DEF InText

LEMMA InTextStep == StringInv /\ InText /\ [StringNext]_stringVars => InText'
<1> SUFFICES ASSUME StringInv, InText, [StringNext]_stringVars PROVE InText'
  OBVIOUS
<1>1. Len(s) \in Nat /\ i \in 0 .. Len(s) /\ imax \in 0 .. Len(s) /\ s \in Text
  BY DEF StringInv, InText
<1>2. CASE UNCHANGED <<s, i, imax>>
  BY <1>1, <1>2 DEF InText
<1>3. CASE DecodeStarts
  <2>1. s' = s /\ i' = i /\ (imax' = Len(s) \/ imax' = Len(s) - 4) /\ Len(s) > 0 /\ Len(s) % 4 = 0
    BY <1>3 DEF DecodeStarts, CountPads
  <2>2. imax' \in 0 .. Len(s)
    BY <1>1, <2>1
  <2> QED
    BY <1>1, <2>1, <2>2 DEF InText
<1>4. CASE DecodeBlock
  <2>1. CASE Readable(4)
    <3>1. decoding = "blocks" /\ i < imax /\ i' = i + 4 /\ s' = s /\ imax' = imax
      BY <1>4, <2>1 DEF DecodeBlock
    <3>2. i + 4 <= imax
      BY <3>1, BlockInside DEF StringInv
    <3> QED
      BY <1>1, <3>1, <3>2 DEF InText
  <2>2. CASE ~Readable(4)
    BY <1>1, <1>4, <2>2 DEF DecodeBlock, InText
  <2> QED
    BY <2>1, <2>2
<1> QED
  BY <1>2, <1>3, <1>4 DEF StringNext, DecodeNothing, DecodeOddLength, DecodeRest, stringVars

\* Decoding never looks behind the end of a text, and every byte is one (main.js 471-524).
THEOREM DecodingStaysInside == StringSpec => []StringTypeOK
<1>1. StringInv /\ InText => StringTypeOK
  BY DEF StringInv, InText, StringTypeOK
<1>2. StringInit => StringInv /\ InText
  BY StringInvAtFirst, InTextAtFirst
<1>3. StringInv /\ InText /\ [StringNext]_stringVars => StringInv' /\ InText'
  BY StringInvStep, InTextStep
<1> QED
  BY <1>1, <1>2, <1>3, PTL DEF StringSpec

--------------------
(* All of them. *)

\* The invariants of the parts; a text of no other part is decoded.
ClientInv ==
    /\ IInv /\ UploadsInv /\ GalleryInv /\ NicTypeOK /\ FocusIsSelected
    /\ LazyInv /\ OncePerCall
    /\ part = "string" => StringInv /\ InText

\* The parts of the pages' scripts keep their types, whichever of them the page uses: what is on an
\* agenda, loads, is focused or decoded is what the handlers put there, for any number of
\* requests, batches, calls, images, instances and texts (ClientTypeOK; main.js, editor.js).
THEOREM ClientTypeCorrect == ClientSpec => []ClientTypeOK
<1>1. ClientInit => ClientInv
  <2> SUFFICES ASSUME ClientInit PROVE ClientInv
    OBVIOUS
  <2>1. /\ AjaxInit /\ UploadsInit /\ LazyInit /\ GalleryInit /\ NicInit
        /\ part = "string" => StringInit
    BY DEF ClientInit, StringInit
  <2>2. IInv /\ UploadsInv /\ GalleryInv /\ LazyInv /\ OncePerCall
    BY <2>1, InvAtFirst, UploadsInvAtFirst, GalleryInvAtFirst, LazyInvAtFirst, OnceAtFirst
  <2>3. NicTypeOK /\ FocusIsSelected
    BY <2>1, NicTypeAtFirst DEF NicInit, FocusIsSelected
  <2>4. part = "string" => StringInv /\ InText
    BY <2>1, StringInvAtFirst, InTextAtFirst
  <2> QED
    BY <2>2, <2>3, <2>4 DEF ClientInv
<1>2. ClientInv /\ [ClientNext]_clientVars => ClientInv'
  <2> SUFFICES ASSUME ClientInv, [ClientNext]_clientVars PROVE ClientInv'
    OBVIOUS
  <2>1. /\ [AjaxNext]_ajaxVars /\ [UploadsNext]_uploadVars /\ [LazyNext]_lazyVars
        /\ [GalleryNext]_galleryVars /\ [NicNext]_nicVars /\ [StringNext]_stringVars /\ part' = part
    BY Zenon DEF ClientNext, Alone, clientVars
  <2>2. IInv' /\ UploadsInv' /\ GalleryInv'
    BY <2>1, InvStep, UploadsInvStep, GalleryInvStep DEF ClientInv
  <2>3. LazyInv' /\ OncePerCall'
    BY <2>1, LazyInvStep, OnceStep DEF ClientInv
  <2>4. NicTypeOK' /\ FocusIsSelected'
    BY <2>1, TypeAndFocusStep DEF ClientInv
  <2>5. part = "string" => StringInv' /\ InText'
    BY <2>1, StringInvStep, InTextStep DEF ClientInv
  <2> QED
    BY <2>1, <2>2, <2>3, <2>4, <2>5 DEF ClientInv
<1>3. ClientInv => ClientTypeOK
  <2>1. IInv => AjaxTypeOK
    BY DEF IInv, Types
  <2>2. UploadsInv => UploadsTypeOK
    BY DEF UploadsInv
  <2>3. GalleryInv => GalleryTypeOK
    BY DEF GalleryInv
  <2>4. StringInv /\ InText => StringTypeOK
    BY DEF StringInv, InText, StringTypeOK
  <2> QED
    BY <2>1, <2>2, <2>3, <2>4, LazyInvTypes DEF ClientInv, ClientTypeOK
<1> QED
  BY <1>1, <1>2, <1>3, PTL DEF ClientSpec
=============================================================================
