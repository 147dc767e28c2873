------------------------------ MODULE LazyLoad ------------------------------
(***************************************************************************)
(* lazyLoad (assets/main.js 539-590): scripts and style sheets put into    *)
(* the page one after the other, then a callback.  The editor's button for *)
(* formatting calls it on every click with the three formatters            *)
(* (templates/editor.html 232-247), whose last one the callback uses.      *)
(*                                                                         *)
(* A call recurses; what is still to be done by the handler at work is the *)
(* agenda, as in module Ajax.                                              *)
(***************************************************************************)
EXTENDS Naturals, Sequences, FiniteSets, SequencesExt

CONSTANTS Source,       \* what a call is given, a sequence
          IsScript(_),  \* whether its name ends in .js rather than .css
          MaxCalls      \* how often lazyLoad is called

\* No source twice, as wherever lazyLoad is called (editor.html 40 and 233, account.html 213).
ASSUME LazyLoadAssumption ==
    /\ Source \in Seq(ToSet(Source)) /\ Len(Source) > 0
    /\ \A i, j \in DOMAIN Source : Source[i] = Source[j] => i = j
    /\ MaxCalls \in Nat

Calls == 1 .. MaxCalls

VARIABLES
    prefixed,   \* whether window.__cdn names a host: else no src equals _src
    begun,      \* the calls made
    left,       \* source of a call, shifted
    elements,   \* the elements in the page: of which call, its source, its state
    todo,       \* what the handler at work has still to do
    ran,        \* how often the callback of a call has run
    early,      \* the calls whose callback ran before every script had
    overlapped  \* whether a call was made before the last one had come to rest

lazyVars == <<prefixed, begun, left, elements, todo, ran, early, overlapped>>

\* A script is loading until its onload, or for ever; a style sheet is not listened to.
Loading(e) == e.state = "loading"
Loaded     == {elements[i].src : i \in {j \in DOMAIN elements : elements[j].state = "loaded"}}
Scripts    == {s \in ToSet(Source) : IsScript(s)}

\* The elements whose src or href is _src.
Same(s) == IF prefixed THEN Cardinality({i \in DOMAIN elements : elements[i].src = s}) ELSE 0

LazyInit ==
    /\ prefixed \in BOOLEAN
    /\ begun = 0
    /\ left = [c \in Calls |-> <<>>]
    /\ elements = <<>>
    /\ todo = <<>>
    /\ ran = [c \in Calls |-> 0]
    /\ early = {}
    /\ overlapped = FALSE

AtRest == todo = <<>> /\ \A i \in DOMAIN elements : ~Loading(elements[i])

\* lazyLoad(source, callback).
LazyLoad ==
    /\ begun < MaxCalls /\ todo = <<>>
    /\ begun' = begun + 1
    /\ left' = [left EXCEPT ![begun'] = Source]
    /\ todo' = <<[do |-> "load", call |-> begun']>>
    /\ overlapped' = (overlapped \/ ~AtRest)
    /\ UNCHANGED <<prefixed, elements, ran, early>>

ToDo(do) == todo # <<>> /\ Head(todo).do = do

GotoNext(c) == [do |-> "next", call |-> c]

\* _load: _gotoNext for every element that is there already, and for a style sheet once
\* more; then the element is put into the page all the same.
Load ==
    /\ ToDo("load")
    /\ LET c == Head(todo).call
           s == Head(left[c])
           n == Same(s) + (IF IsScript(s) THEN 0 ELSE 1)
       IN  todo' = [i \in 1 .. n |-> GotoNext(c)]
                   \o <<[do |-> "append", call |-> c, src |-> s]>> \o Tail(todo)
    /\ UNCHANGED <<prefixed, begun, left, elements, ran, early, overlapped>>

\* Mutant: the callback runs as soon as the last source is put into the page.
Next1Early ==
    /\ ToDo("next")
    /\ LET c == Head(todo).call
           rest == IF left[c] = <<>> THEN <<>> ELSE Tail(left[c])
       IN  /\ left' = [left EXCEPT ![c] = rest]
           /\ todo' = (IF rest = <<>> THEN <<>> ELSE <<[do |-> "load", call |-> c]>>) \o Tail(todo)
           /\ IF Len(rest) > 1 THEN UNCHANGED <<ran, early>>
              ELSE /\ ran' = [ran EXCEPT ![c] = @ + 1]
                   /\ early' = IF Scripts \subseteq Loaded THEN early ELSE early \cup {c}
    /\ UNCHANGED <<prefixed, begun, elements, overlapped>>

\* _gotoNext: shift, then the next source or the callback.
Next1 ==
    /\ ToDo("next")
    /\ LET c == Head(todo).call
           rest == IF left[c] = <<>> THEN <<>> ELSE Tail(left[c])
       IN  /\ left' = [left EXCEPT ![c] = rest]
           /\ IF rest # <<>>
              THEN /\ todo' = <<[do |-> "load", call |-> c]>> \o Tail(todo)
                   /\ UNCHANGED <<ran, early>>
              ELSE /\ todo' = Tail(todo)
                   /\ ran' = [ran EXCEPT ![c] = @ + 1]
                   /\ early' = IF Scripts \subseteq Loaded THEN early ELSE early \cup {c}
    /\ UNCHANGED <<prefixed, begun, elements, overlapped>>

\* head.appendChild(s).
AppendElement ==
    /\ ToDo("append")
    /\ LET e == Head(todo) IN
           elements' = Append(elements, [call |-> e.call, src |-> e.src,
                                         state |-> IF IsScript(e.src) THEN "loading"
                                                   ELSE "loaded"])
    /\ todo' = Tail(todo)
    /\ UNCHANGED <<prefixed, begun, left, ran, early, overlapped>>

\* s.onload.
OnLoad(i) ==
    /\ todo = <<>> /\ Loading(elements[i])
    /\ elements' = [elements EXCEPT ![i].state = "loaded"]
    /\ todo' = <<GotoNext(elements[i].call)>>
    /\ UNCHANGED <<prefixed, begun, left, ran, early, overlapped>>

\* A script that cannot be loaded: nothing listens for that.
LoadFails(i) ==
    /\ todo = <<>> /\ Loading(elements[i])
    /\ elements' = [elements EXCEPT ![i].state = "failed"]
    /\ UNCHANGED <<prefixed, begun, left, todo, ran, early, overlapped>>

LazyNext == \/ LazyLoad \/ Load \/ Next1 \/ AppendElement
            \/ \E i \in DOMAIN elements : OnLoad(i) \/ LoadFails(i)

LazySpec == LazyInit /\ [][LazyNext]_lazyVars

-----------------------------------------------------------------------------
LazyTypeOK ==
    /\ prefixed \in BOOLEAN /\ overlapped \in BOOLEAN
    /\ begun \in 0 .. MaxCalls
    /\ \A c \in Calls : IsSuffix(left[c], Source)
    /\ Len(elements) <= Len(Source) * begun
    /\ ran \in [Calls -> Nat] /\ early \subseteq Calls

AllLoad == \A i \in DOMAIN elements : elements[i].state # "failed"

\* The callback, which uses what the scripts define, runs before all of them have been
\* loaded only if an element of an earlier call was taken for a loaded script: one call
\* had not come to rest when the next was made, or a script had failed, and the prefix
\* makes elements comparable at all.  Without a prefix a call runs its callback once; with
\* it every script is counted once more for each earlier call, and once more when its
\* second element has loaded: click n on the button formats 1 + 3 * (n - 1) times
\* (main.js 541-587).
ReadyWhenCalled ==
    /\ early # {} => prefixed /\ (overlapped \/ ~AllLoad)
    /\ AtRest /\ AllLoad /\ ~overlapped =>
           \A c \in 1 .. begun :
               ran[c] = IF prefixed THEN 1 + Len(Source) * (c - 1) ELSE 1
=============================================================================
