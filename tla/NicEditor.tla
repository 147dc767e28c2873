----------------------------- MODULE NicEditor -----------------------------
(***************************************************************************)
(* The editor (assets/editor.js 220-240, 293-526): one nicEditor and its   *)
(* instances.  An instance made of a textarea puts an editable element     *)
(* before it and copies its content back when it is saved or removed; one  *)
(* made of another element is edited in place, and has no options, so that *)
(* removing it throws before anything is done.                             *)
(*                                                                         *)
(* Every instance adds its blur to the editor's list of events and nothing *)
(* takes it off again: firing "blur" reaches the removed ones too.         *)
(***************************************************************************)
EXTENDS Naturals, FiniteSets

CONSTANTS Instance, Nobody,
          Element, Textarea,
          ElementOf(_),     \* what an instance is made of
          MaxEdits          \* how often contents change

ASSUME NicEditorAssumption ==
    /\ Nobody \notin Instance /\ MaxEdits \in Nat /\ Textarea \subseteq Element
    /\ \A i \in Instance : ElementOf(i) \in Element

VARIABLES
    nicInstances,       \* the instances of the editor
    made,               \* those ever made: they listen to "blur"
    editable,           \* those whose element is contentEditable
    selectedInstance,
    isFocused,          \* those that are, and whose element has the class nicEdit-selected
    focus,              \* whose element has the browser's focus, or Nobody
    content,            \* innerHTML of an instance's element
    value,              \* value of an element, or its innerHTML, outside the editor
    edits,
    lastEdit            \* history: what an element's author has made of it last

nicVars == <<nicInstances, made, editable, selectedInstance, isFocused, focus,
             content, value, edits, lastEdit>>

\* Contents: nothing, the line break put where there is nothing, what an edit made.
Blank == 0
Br    == 1
Content == 0 .. MaxEdits + 1

NicInit ==
    /\ nicInstances = {} /\ made = {} /\ editable = {}
    /\ selectedInstance = Nobody
    /\ isFocused = {}
    /\ focus = Nobody
    /\ content = [i \in Instance |-> Blank]
    /\ value = [e \in Element |-> Blank]
    /\ edits = 0
    /\ lastEdit = [e \in Element |-> Blank]

-----------------------------------------------------------------------------
(* What the handlers are made of.                                          *)

\* blur, called by fireEvent("blur") for every instance ever made.
BlurAll == isFocused \ made

\* Mutant: the instance selected before is not told to blur.
SelectedAlone(i) ==
    /\ selectedInstance' = i
    /\ isFocused' = isFocused \cup {i}

\* selected, without the control key: all blur if another one was selected.
Selected(i) ==
    /\ selectedInstance' = i
    /\ isFocused' = (IF selectedInstance \in {i, Nobody} THEN isFocused ELSE BlurAll) \cup {i}

\* selectCheck, the mousedown of the body: nothing under a class nicEdit-..., else all
\* blur and none is selected.
SelectCheck(under) ==
    IF under \in isFocused
    THEN UNCHANGED <<selectedInstance, isFocused>>
    ELSE selectedInstance' = Nobody /\ isFocused' = BlurAll

Contents  == UNCHANGED <<content, value, edits, lastEdit>>
Instances == UNCHANGED <<nicInstances, made, editable>>

-----------------------------------------------------------------------------
\* addInstance, and the constructor: the content is the element's, a line break if that
\* is empty; its own blur is called once.
AddInstance(i) ==
    /\ i \notin made
    /\ nicInstances' = nicInstances \cup {i}
    /\ made' = made \cup {i}
    /\ editable' = editable \cup {i}
    /\ isFocused' = isFocused \ {i}
    /\ LET v == value[ElementOf(i)] IN
           content' = [content EXCEPT ![i] = IF v = Blank THEN Br ELSE v]
    /\ UNCHANGED <<selectedInstance, focus, value, edits, lastEdit>>

\* saveContent.
SaveContent(i) ==
    /\ i \in nicInstances /\ ElementOf(i) \in Textarea
    /\ value' = [value EXCEPT ![ElementOf(i)] = content[i]]
    /\ Instances
    /\ UNCHANGED <<selectedInstance, isFocused, focus, content, edits, lastEdit>>

\* Mutant: remove does not save first.
RemoveUnsaved(i) ==
    /\ i \in nicInstances /\ ElementOf(i) \in Textarea
    /\ value' = value
    /\ nicInstances' = nicInstances \ {i}
    /\ editable' = editable \ {i}
    /\ focus' = IF focus = i THEN Nobody ELSE focus
    /\ isFocused' \in IF focus = i THEN {isFocused, isFocused \ {i}} ELSE {isFocused}
    /\ UNCHANGED <<made, selectedInstance, content, edits, lastEdit>>

\* removeInstance of a textarea's: saved, out of the page, not editable.  It may still be
\* the selected one; whether its element's blur comes is the browser's choice.
RemoveInstance(i) ==
    /\ i \in nicInstances /\ ElementOf(i) \in Textarea
    /\ value' = [value EXCEPT ![ElementOf(i)] = content[i]]
    /\ nicInstances' = nicInstances \ {i}
    /\ editable' = editable \ {i}
    /\ focus' = IF focus = i THEN Nobody ELSE focus
    /\ isFocused' \in IF focus = i THEN {isFocused, isFocused \ {i}} ELSE {isFocused}
    /\ UNCHANGED <<made, selectedInstance, content, edits, lastEdit>>

\* removeInstance of another: saveContent reads hasPanel of null.
RemoveThrows(i) ==
    /\ i \in nicInstances /\ ElementOf(i) \notin Textarea
    /\ UNCHANGED nicVars

-----------------------------------------------------------------------------
\* A mousedown in an instance, its own listener first and the body's after it.
MouseDown(i, ctrlKey) ==
    /\ i \in nicInstances
    /\ IF ctrlKey THEN SelectCheck(i) ELSE Selected(i)
    /\ Instances /\ Contents /\ UNCHANGED focus

MouseDownElsewhere ==
    /\ SelectCheck(Nobody)
    /\ Instances /\ Contents /\ UNCHANGED focus

\* The browser's focus leaves an instance for something else: its element's blur.
FocusLeaves ==
    /\ focus # Nobody
    /\ focus' = Nobody
    /\ isFocused' = isFocused \ {focus}
    /\ Instances /\ Contents /\ UNCHANGED selectedInstance

\* It comes to an instance that did not have it, from nowhere or right after a blur.
FocusComes(i) ==
    /\ i \in nicInstances /\ focus = Nobody
    /\ focus' = i
    /\ Selected(i)
    /\ Instances /\ Contents

KeyUp(i, ctrlKey) ==
    /\ focus = i
    /\ IF ctrlKey THEN UNCHANGED <<selectedInstance, isFocused>> ELSE Selected(i)
    /\ Instances /\ Contents /\ UNCHANGED focus

\* The author changes what an instance shows, to something new or to nothing.
Edit(i) ==
    /\ focus = i /\ i \in editable /\ edits < MaxEdits
    /\ edits' = edits + 1
    /\ \E c \in {Blank, edits' + 1} :
           /\ content' = [content EXCEPT ![i] = c]
           /\ lastEdit' = [lastEdit EXCEPT ![ElementOf(i)] = c]
    /\ UNCHANGED <<nicInstances, made, editable, selectedInstance, isFocused, focus, value>>

\* What is assumed of pages, and not asked by the editor: one instance of an element at a
\* time.  removeInstance and instanceById look instances up by their element.
OneOfElement(i) == \A j \in nicInstances : ElementOf(j) # ElementOf(i)

NicNext ==
    \/ MouseDownElsewhere \/ FocusLeaves
    \/ \E i \in Instance : \/ (OneOfElement(i) /\ AddInstance(i)) \/ SaveContent(i)
                           \/ RemoveInstance(i) \/ RemoveThrows(i)
                           \/ FocusComes(i) \/ Edit(i)
                           \/ \E ctrlKey \in BOOLEAN : MouseDown(i, ctrlKey) \/ KeyUp(i, ctrlKey)

NicSpec == NicInit /\ [][NicNext]_nicVars

-----------------------------------------------------------------------------
NicTypeOK ==
    /\ nicInstances \subseteq made /\ made \subseteq Instance
    /\ editable = nicInstances
    /\ selectedInstance \in made \cup {Nobody}
    /\ isFocused \subseteq made
    /\ focus \in nicInstances \cup {Nobody}
    /\ content \in [Instance -> Content]
    /\ value \in [Element -> Content] /\ lastEdit \in [Element -> Content]
    /\ edits \in 0 .. MaxEdits

\* Only the selected instance is focused, in whatever order mousedown, focus, blur and
\* keyup come and although a removed instance may stay selected (editor.js 342-353,
\* 484-506).
FocusIsSelected == \A i \in isFocused : selectedInstance = i

\* What v has become: a line break may stand for nothing.
Keeps(v, w) == v = w \/ (w = Blank /\ v = Br)

\* No edit is lost: the instance of a textarea shows what was made of it last, and so
\* does the textarea once the instance is removed, also when it is added again in
\* between (editor.js 389-396, 407-427, 507-512).
EditsAreKept ==
    /\ \A i \in nicInstances : Keeps(content[i], lastEdit[ElementOf(i)])
    /\ \A e \in Textarea : (\A i \in nicInstances : ElementOf(i) # e)
                               => Keeps(value[e], lastEdit[e])
=============================================================================
