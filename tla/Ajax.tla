------------------------------- MODULE Ajax -------------------------------
(***************************************************************************)
(* The promises and requests of the pages' script (assets/main.js 8-209):  *)
(* Promise.then and done, join, chain, and ajax with its timer.            *)
(*                                                                         *)
(* A handler of the browser runs to its end before the next event; what it *)
(* calls, in the order it calls it, is the agenda: an event puts its calls *)
(* there, and until the agenda is empty only its head is worked on.        *)
(*                                                                         *)
(* A page asks in one of four ways (plan): each request with a             *)
(* continuation of its own, a join or a chain of all of them, or a         *)
(* continuation of request 1 that returns the promise of request 2.        *)
(***************************************************************************)
EXTENDS Naturals, Sequences

CONSTANT NRequest       \* how many requests the page sends

ASSUME NRequestAssumption == NRequest \in Nat \ {0, 1}

Request == 1 .. NRequest

\* The promise of a request, of join, of the n-th call of chain, of then.
Promise == ({"ajax"} \X Request) \cup {<<"join", 0>>}
           \cup ({"chain"} \X (1 .. NRequest + 1)) \cup {<<"then", 0>>}

Of(r)   == <<"ajax", r>>
Joined  == <<"join", 0>>
Link(n) == <<"chain", n>>
Relayed == <<"then", 0>>

\* What a continuation is told: err of ajax, or the array join fills.
Answer == {"ok", "failed", "ETIMEOUT", "ENOXHR", "results"}

VARIABLES
    plan,       \* how the page asks
    hasXhr,     \* whether new_xhr makes a request, or throws and ajax answers ENOXHR; where a
                \* browser has neither object, the page's own call throws (148) and asks nothing
    called,     \* the requests asked for by the page itself
    xhr,        \* a request: unsent, sent, partial (readyState 2 or 3), over (4), none
    timer,      \* the requests whose time-out is set
    callbacks,  \* _callbacks of a promise
    isdone,     \* _isdone of a promise
    result,     \* result of a promise
    results,    \* results of join: what each part has told its notifier
    numdone,    \* numdone of join
    given,      \* what each function of a chain was called with
    agenda,     \* the calls still to be made by the handler at work
    told        \* what each continuation of the page was told, in order

ajaxVars == <<plan, hasXhr, called, xhr, timer, callbacks, isdone, result, results, numdone,
              given, agenda, told>>

Plans == {"each", "join", "chain", "relay"}

\* The page's continuations: of a request, of the whole, and one added late.
Continuation == ({"each", "late"} \X Request) \cup {<<"whole", 0>>}

\* What then is given: a continuation of the page, notifier(i), the function chain
\* passes for its n-th call, p.done, or a function that returns a promise.
Tell(c)   == [do |-> "tell", of |-> c]
Notify(r) == [do |-> "notify", of |-> r]
Follow(n) == [do |-> "follow", of |-> n]
Pass(p)   == [do |-> "pass", of |-> p]
Relay     == [do |-> "relay", of |-> Relayed]

\* The calls on the agenda.
CallThen(p, cb)  == [call |-> "then", p |-> p, cb |-> cb]
CallDone(p, a)   == [call |-> "done", p |-> p, a |-> a]
CallBack(cb, a)  == [call |-> "apply", cb |-> cb, a |-> a]
CallChain(n, a)  == [call |-> "chain", n |-> n, a |-> a]
Empty(p)         == [call |-> "empty", p |-> p]

-----------------------------------------------------------------------------
AjaxInit ==
    /\ plan \in Plans
    /\ hasXhr \in BOOLEAN
    /\ called = {}
    /\ xhr = [r \in Request |-> "unsent"]
    /\ timer = {}
    /\ callbacks = [p \in Promise |-> <<>>]
    /\ isdone = [p \in Promise |-> FALSE]
    /\ result = [p \in Promise |-> "ok"]
    /\ results = [r \in {} |-> "ok"]
    /\ numdone = 0
    /\ given = [r \in {} |-> "ok"]
    /\ agenda = <<>>
    /\ told = [c \in Continuation |-> <<>>]

-----------------------------------------------------------------------------
(* ajax: the requests rs are sent, or answered at once where there is no   *)
(* XMLHttpRequest; nobody can be waiting for them yet.                     *)

SendAll(rs) ==
    /\ xhr' = [r \in Request |-> IF r \notin rs THEN xhr[r]
                                 ELSE IF hasXhr THEN "sent" ELSE "none"]
    /\ timer' = IF hasXhr THEN timer \cup rs ELSE timer
    /\ isdone' = [p \in Promise |-> isdone[p] \/ (~hasXhr /\ \E r \in rs : p = Of(r))]
    /\ result' = [p \in Promise |-> IF ~hasXhr /\ \E r \in rs : p = Of(r) THEN "ENOXHR"
                                    ELSE result[p]]

SendNothing == UNCHANGED <<xhr, timer, isdone, result>>

\* The page asks; what it calls next is in the agenda.
AskEach(r) ==
    /\ plan = "each" /\ agenda = <<>> /\ r \notin called
    /\ called' = called \cup {r}
    /\ SendAll({r})
    /\ agenda' = <<CallThen(Of(r), Tell(<<"each", r>>))>>
    /\ UNCHANGED <<plan, hasXhr, callbacks, results, numdone, given, told>>

\* A continuation added to a promise that is done already.
AskLate(r) ==
    /\ plan = "each" /\ agenda = <<>> /\ isdone[Of(r)]
    /\ told[<<"late", r>>] = <<>>
    /\ agenda' = <<CallThen(Of(r), Tell(<<"late", r>>))>>
    /\ UNCHANGED <<plan, hasXhr, called, callbacks, results, numdone, given, told>>
    /\ SendNothing

AskJoin ==
    /\ plan = "join" /\ called = {}
    /\ called' = Request
    /\ SendAll(Request)
    /\ agenda' = [r \in Request |-> CallThen(Of(r), Notify(r))]
                 \o <<CallThen(Joined, Tell(<<"whole", 0>>))>>
    /\ UNCHANGED <<plan, hasXhr, callbacks, results, numdone, given, told>>

AskChain ==
    /\ plan = "chain" /\ called = {}
    /\ called' = Request
    /\ agenda' = <<CallChain(1, "ok"), CallThen(Link(1), Tell(<<"whole", 0>>))>>
    /\ UNCHANGED <<plan, hasXhr, callbacks, results, numdone, given, told>>
    /\ SendNothing

AskRelay ==
    /\ plan = "relay" /\ called = {}
    /\ called' = {1, 2}
    /\ SendAll({1})
    /\ agenda' = <<CallThen(Of(1), Relay)>>
    /\ UNCHANGED <<plan, hasXhr, callbacks, results, numdone, given, told>>

-----------------------------------------------------------------------------
(* The handler at work: the head of the agenda.                            *)

Doing(call) == agenda # <<>> /\ Head(agenda).call = call

\* Mutant: nobody looks whether the promise is done.
ThenWaiting ==
    /\ Doing("then")
    /\ LET now == Head(agenda) IN
           /\ callbacks' = [callbacks EXCEPT ![now.p] = Append(@, now.cb)]
           /\ agenda' = (IF now.cb = Relay THEN <<CallThen(Relayed, Tell(<<"whole", 0>>))>>
                         ELSE <<>>) \o Tail(agenda)
    /\ UNCHANGED <<plan, hasXhr, called, results, numdone, given, told>>
    /\ SendNothing

\* Promise.then: apply at once if the promise is done, or wait.  What then returns is
\* its function's own answer or a new promise; only the relay's is used.
Then ==
    /\ Doing("then")
    /\ LET now == Head(agenda)
           p   == now.p
           cb  == now.cb
       IN  IF isdone[p]
           THEN /\ agenda' = <<CallBack(IF cb = Relay THEN [Relay EXCEPT !.of = Of(2)] ELSE cb,
                                        result[p])>> \o Tail(agenda)
                /\ UNCHANGED callbacks
           ELSE /\ callbacks' = [callbacks EXCEPT ![p] = Append(@, cb)]
                /\ agenda' = (IF cb = Relay THEN <<CallThen(Relayed, Tell(<<"whole", 0>>))>>
                              ELSE <<>>) \o Tail(agenda)
    /\ UNCHANGED <<plan, hasXhr, called, results, numdone, given, told>>
    /\ SendNothing

\* Promise.done: store the answer, apply every callback, then forget them.
Done ==
    /\ Doing("done")
    /\ LET p == Head(agenda).p
           a == Head(agenda).a
       IN  /\ result' = [result EXCEPT ![p] = a]
           /\ isdone' = [isdone EXCEPT ![p] = TRUE]
           /\ agenda' = [i \in 1 .. Len(callbacks[p]) |-> CallBack(callbacks[p][i], a)]
                        \o <<Empty(p)>> \o Tail(agenda)
    /\ UNCHANGED <<plan, hasXhr, called, xhr, timer, callbacks, results, numdone, given, told>>

\* Mutant: done does not forget the callbacks.
ForgetNothing ==
    /\ Doing("empty")
    /\ agenda' = Tail(agenda)
    /\ UNCHANGED <<plan, hasXhr, called, callbacks, results, numdone, given, told>>
    /\ SendNothing

Forget ==
    /\ Doing("empty")
    /\ callbacks' = [callbacks EXCEPT ![Head(agenda).p] = <<>>]
    /\ agenda' = Tail(agenda)
    /\ UNCHANGED <<plan, hasXhr, called, results, numdone, given, told>>
    /\ SendNothing

Applying(do) == Doing("apply") /\ Head(agenda).cb.do = do

\* A continuation of the page runs.
ApplyTell ==
    /\ Applying("tell")
    /\ told' = [told EXCEPT ![Head(agenda).cb.of] = Append(@, Head(agenda).a)]
    /\ agenda' = Tail(agenda)
    /\ UNCHANGED <<plan, hasXhr, called, callbacks, results, numdone, given>>
    /\ SendNothing

\* notifier(i) of join.
ApplyNotify ==
    /\ Applying("notify")
    /\ LET r == Head(agenda).cb.of IN
           results' = [q \in DOMAIN results \cup {r} |->
                           IF q = r THEN Head(agenda).a ELSE results[q]]
    /\ numdone' = numdone + 1
    /\ agenda' = (IF numdone' = NRequest THEN <<CallDone(Joined, "results")>> ELSE <<>>)
                 \o Tail(agenda)
    /\ UNCHANGED <<plan, hasXhr, called, callbacks, given, told>>
    /\ SendNothing

\* The function chain waits with: the rest of the chain, whose answer is passed on.
ApplyFollow ==
    /\ Applying("follow")
    /\ LET n == Head(agenda).cb.of IN
           agenda' = <<CallChain(n + 1, Head(agenda).a), CallThen(Link(n + 1), Pass(Link(n)))>>
                     \o Tail(agenda)
    /\ UNCHANGED <<plan, hasXhr, called, callbacks, results, numdone, given, told>>
    /\ SendNothing

\* function() { p.done.apply(p, arguments); }
ApplyPass ==
    /\ Applying("pass")
    /\ agenda' = <<CallDone(Head(agenda).cb.of, Head(agenda).a)>> \o Tail(agenda)
    /\ UNCHANGED <<plan, hasXhr, called, callbacks, results, numdone, given, told>>
    /\ SendNothing

\* The continuation that returns a promise: then passes the answer of that promise on
\* to the one it has given out, or has returned the promise itself.
ApplyRelay ==
    /\ Applying("relay")
    /\ SendAll({2})
    /\ agenda' = <<CallThen(Of(2), IF Head(agenda).cb.of = Relayed THEN Pass(Relayed)
                                   ELSE Tell(<<"whole", 0>>))>> \o Tail(agenda)
    /\ UNCHANGED <<plan, hasXhr, called, callbacks, results, numdone, given, told>>

\* chain: done if no function is left, else call the first one and wait for it.
Chain ==
    /\ Doing("chain")
    /\ LET n == Head(agenda).n
           a == Head(agenda).a
       IN  \/ /\ n = NRequest + 1
              /\ agenda' = <<CallDone(Link(n), a)>> \o Tail(agenda)
              /\ SendNothing
              /\ UNCHANGED given
           \/ /\ n # NRequest + 1
              /\ SendAll({n})
              /\ given' = [r \in DOMAIN given \cup {n} |-> IF r = n THEN a ELSE given[r]]
              /\ agenda' = <<CallThen(Of(n), Follow(n))>> \o Tail(agenda)
    /\ UNCHANGED <<plan, hasXhr, called, callbacks, results, numdone, told>>

Handler == \/ Then \/ Done \/ Forget \/ Chain
           \/ ApplyTell \/ ApplyNotify \/ ApplyFollow \/ ApplyPass \/ ApplyRelay

-----------------------------------------------------------------------------
(* Events of a request.                                                    *)

Event(r) == agenda = <<>> /\ xhr[r] \in {"sent", "partial"}

\* onreadystatechange at 2 or 3: the time-out is taken back, nothing else.
Progress(r) ==
    /\ Event(r) /\ xhr[r] = "sent"
    /\ xhr' = [xhr EXCEPT ![r] = "partial"]
    /\ timer' = timer \ {r}
    /\ UNCHANGED <<plan, hasXhr, called, callbacks, isdone, result, results, numdone, given,
                   agenda, told>>

\* onreadystatechange at 4.
Finish(r, a) ==
    /\ Event(r)
    /\ xhr' = [xhr EXCEPT ![r] = "over"]
    /\ timer' = timer \ {r}
    /\ agenda' = <<CallDone(Of(r), a)>>
    /\ UNCHANGED <<plan, hasXhr, called, callbacks, isdone, result, results, numdone, given, told>>

\* onTimeout: abort() itself fires onreadystatechange, at 4 with status 0.
Timeout(r) ==
    /\ Event(r) /\ r \in timer
    /\ xhr' = [xhr EXCEPT ![r] = "over"]
    /\ timer' = timer \ {r}
    /\ agenda' = <<CallDone(Of(r), "failed"), CallDone(Of(r), "ETIMEOUT")>>
    /\ UNCHANGED <<plan, hasXhr, called, callbacks, isdone, result, results, numdone, given, told>>

AjaxNext ==
    \/ AskJoin \/ AskChain \/ AskRelay
    \/ Handler
    \/ \E r \in Request : \/ AskEach(r) \/ AskLate(r)
                          \/ Progress(r) \/ Timeout(r)
                          \/ \E a \in {"ok", "failed"} : Finish(r, a)

\* A handler runs to its end, and timers go off.
AjaxFair ==
    /\ WF_ajaxVars(Handler)
    /\ \A r \in Request : WF_ajaxVars(Timeout(r))

AjaxSpec == AjaxInit /\ [][AjaxNext]_ajaxVars /\ AjaxFair

-----------------------------------------------------------------------------
AjaxTypeOK ==
    /\ plan \in Plans /\ hasXhr \in BOOLEAN /\ called \subseteq Request
    /\ xhr \in [Request -> {"unsent", "sent", "partial", "over", "none"}]
    /\ timer \subseteq {r \in Request : xhr[r] = "sent"}
    /\ isdone \in [Promise -> BOOLEAN]
    /\ result \in [Promise -> Answer]
    /\ numdone \in 0 .. NRequest
    /\ DOMAIN results \subseteq Request
    /\ told \in [Continuation -> Seq(Answer)]

Whole == told[<<"whole", 0>>]

\* The first answer a request gave to those who were waiting: a time-out is told as a
\* failure first (abort), and only then stored as what it is.
FirstAnswer(r) == IF result[Of(r)] = "ETIMEOUT" THEN "failed" ELSE result[Of(r)]

\* Promises that are done twice still tell each continuation once, join waits for all
\* of its parts and hands out what each was first told, and chain starts a request only
\* when the one before is done and gives it that answer (main.js 27-78).
OnceAndInOrder ==
    /\ \A c \in Continuation : Len(told[c]) <= 1
    /\ agenda = <<>> => \A r \in DOMAIN results : results[r] = FirstAnswer(r)
    /\ plan = "join" /\ Whole # <<>> =>
           DOMAIN results = Request /\ \A r \in Request : isdone[Of(r)]
    /\ \A n \in DOMAIN given : n > 1 => isdone[Of(n - 1)] /\ given[n] = FirstAnswer(n - 1)
    /\ plan = "chain" /\ Whole # <<>> =>
           /\ \A r \in Request : isdone[Of(r)]
           /\ Whole[1] = FirstAnswer(NRequest)

\* Whoever asks is answered, unless some server has begun to answer and stays there:
\* the time-out covers the silence before the first byte only (main.js 171-174).
EverybodyIsTold ==
    /\ \A r \in Request :
           (plan = "each" /\ r \in called) ~> (told[<<"each", r>>] # <<>> \/ xhr[r] = "partial")
    /\ (plan # "each" /\ called # {}) ~> (Whole # <<>> \/ \E r \in Request : xhr[r] = "partial")
=============================================================================
