---------------------------- MODULE ScriptProofs ----------------------------
(***************************************************************************)
(* The formatter of scripts (JsBeautify), for every script, grammatical or *)
(* not: its types, that it neither loses nor moves a token, that its       *)
(* frames are those of the brackets, and that the newlines mean what they  *)
(* did.                                                                    *)
(***************************************************************************)
EXTENDS JsBeautify, FiniteSetTheorems, SequenceTheorems,
        WellFoundedInduction, TLAPS

-----------------------------------------------------------------------------
(* Numbers and sequences.                                                  *)

\* Every set of numbers has a least one: what holds behind every piece, or is wrong behind
\* some piece, is proved and refuted from the first one on.
LEMMA LeastNumber ==
    ASSUME NEW S, S \subseteq Nat, S # {}
    PROVE  \E m \in S : \A k \in S : m <= k
<1>1. PICK m \in S : \A y \in S : ~(<<y, m>> \in OpToRel(<, Nat))
  BY WFMin, NatLessThanWellFounded
<1>2. ASSUME NEW k \in S PROVE m <= k
  <2>1. ~(<<k, m>> \in OpToRel(<, Nat))
    BY <1>1
  <2>2. k \in Nat /\ m \in Nat
    OBVIOUS
  <2>3. ~(k < m)
    BY <2>1, <2>2 DEF OpToRel
  <2> QED
    BY <2>2, <2>3
<1> QED
  BY <1>2

\* The items of a sequence.
LEMMA SeqItems ==
    ASSUME NEW S, NEW s \in Seq(S)
    PROVE  Len(s) \in Nat /\ DOMAIN s = 1 .. Len(s) /\ \A i \in 1 .. Len(s) : s[i] \in S
OBVIOUS

\* A sequence of one.
LEMMA OneItem ==
    ASSUME NEW S, NEW e \in S
    PROVE  <<e>> \in Seq(S) /\ Len(<<e>>) = 1 /\ <<e>>[1] = e
OBVIOUS

\* The beginning of a sequence.
LEMMA CutSeq ==
    ASSUME NEW S, NEW s \in Seq(S), NEW m \in 0 .. Len(s)
    PROVE  SubSeq(s, 1, m) \in Seq(S) /\ Len(SubSeq(s, 1, m)) = m /\ \A i \in 1 .. m : SubSeq(s, 1, m)[i] = s[i]
<1>1. Len(s) \in Nat /\ m \in Nat /\ 1 \in Int /\ m \in Int /\ \A i \in 1 .. m : s[i] \in S
  BY SeqItems
<1> DEFINE q == SubSeq(s, 1, m)
<1>2. /\ q \in Seq(S) /\ Len(q) = IF 1 <= m THEN m - 1 + 1 ELSE 0
      /\ \A i \in 1 .. m - 1 + 1 : q[i] = s[1 + i - 1]
  BY <1>1, SubSeqProperties
<1> HIDE DEF q
<1>3. q \in Seq(S) /\ Len(q) = m /\ \A i \in 1 .. m : q[i] = s[i]
  BY <1>1, <1>2
<1> QED
  BY <1>3 DEF q

-----------------------------------------------------------------------------
(* Scripts: what a handler is given is well formed, prints the tokens so   *)
(* far, and has the frames of the script at the bottom; each handler then  *)
(* keeps the frames that are no statements, adds one or takes one off.     *)

JsMode == {"BlockStatement", "Statement", "ObjectLiteral", "ArrayLiteral", "ForInitializer", "Conditional",
           "Expression"}
JsText == JsToken \cup {"none"}
JsKind == {"RESERVED", "OPERATOR", "BLOCK_COMMENT", "COMMENT", "WORD", "STRING", "START_EXPR", "END_EXPR",
           "START_BLOCK", "END_BLOCK", "SEMICOLON", "EQUALS", "COMMA", "DOT", "EOF"}

JsFrame == [mode : JsMode, last_text : JsText, last_word : JsText,
            declaration_statement : BOOLEAN, declaration_assignment : BOOLEAN,
            multiline_frame : BOOLEAN, if_block : BOOLEAN, else_block : BOOLEAN,
            do_block : BOOLEAN, do_while : BOOLEAN, in_case_statement : BOOLEAN,
            in_case : BOOLEAN, case_body : BOOLEAN, indentation_level : Nat,
            line_indent_level : Nat, start_line_index : Nat, ternary_depth : Nat]
JsLine  == [indent : {-1} \cup Nat, items : Seq(Nat)]
JsState == [flags : Seq(JsFrame), previous : JsFrame, lines : Seq(JsLine), space : BOOLEAN,
            last_type : JsKind, last_last_text : JsText, token : JsText]

\* n tokens are printed, and no line ends in a blank.
EndsInTokens(l) == \A i \in DOMAIN l : l[i].items # <<>> => Last(l[i].items) # Blank
Form(l, n)      == PrintsUpTo(l, n) /\ EndsInTokens(l)

\* The two frames of the script itself are at the bottom.
Good(q, n) ==
    /\ q \in JsState /\ Len(q.flags) >= 2 /\ Len(q.lines) >= 1
    /\ q.flags[1].mode # "Statement" /\ q.flags[2].mode # "Statement"
    /\ Form(q.lines, n)

\* A token stays where it is in the lines.
Stays(l, m) ==
    \A i \in DOMAIN l : \A c \in DOMAIN l[i].items :
        l[i].items[c] # Blank =>
            i \in DOMAIN m /\ c \in DOMAIN m[i].items /\ m[i].items[c] = l[i].items[c]

\* No line is taken back, and only the last one gets longer.
Settled(l, m) ==
    /\ DOMAIN l \subseteq DOMAIN m
    /\ \A i \in DOMAIN l : i + 1 \in DOMAIN l => m[i].items = l[i].items

\* What every operation does but trim.
Follows(q, r) ==
    /\ r.token = q.token /\ r.last_type = q.last_type
    /\ Stays(q.lines, r.lines) /\ Settled(q.lines, r.lines)

\* The frames that are no statements.
Opened(q) == {i \in DOMAIN q.flags : q.flags[i].mode # "Statement"}

\* What everything does that opens and closes no bracket; and what opens no statement either.
Keeps(q, r, n)   == Good(r, n) /\ Opened(r) = Opened(q) /\ Follows(q, r)
Unwinds(q, r, n) == Keeps(q, r, n) /\ Len(r.flags) <= Len(q.flags)

\* What trim does, which takes lines back.
Retains(q, r, n) == /\ Good(r, n) /\ Opened(r) = Opened(q) /\ r.token = q.token /\ r.last_type = q.last_type
                    /\ Stays(q.lines, r.lines)

\* What follows does so in two steps, and where the lines are the same.
LEMMA FollowsTwice ==
    ASSUME NEW q, NEW r, NEW s, Follows(q, r), Follows(r, s)
    PROVE  Follows(q, s)
<1>1. s.token = q.token /\ s.last_type = q.last_type
  BY DEF Follows
<1>3. Settled(q.lines, s.lines)
  <2>1. Settled(q.lines, r.lines) /\ Settled(r.lines, s.lines)
    BY DEF Follows
  <2> QED
    BY <2>1 DEF Settled
<1>2. Stays(q.lines, s.lines)
  <2>1. Stays(q.lines, r.lines) /\ Stays(r.lines, s.lines)
    BY DEF Follows
  <2> QED
    BY <2>1 DEF Stays
<1> QED
  BY <1>1, <1>2, <1>3 DEF Follows

LEMMA FollowsSame ==
    ASSUME NEW q, NEW r, r.token = q.token, r.last_type = q.last_type, r.lines = q.lines
    PROVE  Follows(q, r)
  BY DEF Follows, Stays, Settled

\* A mark of a frame is set or taken away.
LEMMA FrameSet ==
    ASSUME NEW f \in JsFrame, NEW b \in BOOLEAN
    PROVE  /\ [f EXCEPT !.multiline_frame = b] \in JsFrame /\ [f EXCEPT !.multiline_frame = b].mode = f.mode
           /\ [f EXCEPT !.declaration_statement = b] \in JsFrame /\ [f EXCEPT !.declaration_statement = b].mode = f.mode
           /\ [f EXCEPT !.declaration_assignment = b] \in JsFrame /\ [f EXCEPT !.declaration_assignment = b].mode = f.mode
           /\ [f EXCEPT !.do_block = b] \in JsFrame /\ [f EXCEPT !.do_block = b].mode = f.mode
           /\ [f EXCEPT !.do_while = b] \in JsFrame /\ [f EXCEPT !.do_while = b].mode = f.mode
           /\ [f EXCEPT !.else_block = b] \in JsFrame /\ [f EXCEPT !.else_block = b].mode = f.mode
           /\ [f EXCEPT !.case_body = b] \in JsFrame /\ [f EXCEPT !.case_body = b].mode = f.mode
           /\ [f EXCEPT !.in_case = b] \in JsFrame /\ [f EXCEPT !.in_case = b].mode = f.mode
  BY DEF JsFrame

\* A number of a frame is changed.
LEMMA FrameNumber ==
    ASSUME NEW f \in JsFrame, NEW n \in Nat
    PROVE  /\ [f EXCEPT !.line_indent_level = n] \in JsFrame /\ [f EXCEPT !.line_indent_level = n].mode = f.mode
           /\ [f EXCEPT !.indentation_level = n] \in JsFrame /\ [f EXCEPT !.indentation_level = n].mode = f.mode
           /\ [f EXCEPT !.ternary_depth = n] \in JsFrame /\ [f EXCEPT !.ternary_depth = n].mode = f.mode
  BY DEF JsFrame

\* The last text or the last word of a frame is kept.
LEMMA FrameText ==
    ASSUME NEW f \in JsFrame, NEW s \in JsText
    PROVE  /\ [f EXCEPT !.last_text = s] \in JsFrame /\ [f EXCEPT !.last_text = s].mode = f.mode
           /\ [f EXCEPT !.last_word = s] \in JsFrame /\ [f EXCEPT !.last_word = s].mode = f.mode
  BY DEF JsFrame

\* Two marks of a frame are changed.
LEMMA FrameSetTwo ==
    ASSUME NEW f \in JsFrame, NEW b \in BOOLEAN, NEW c \in BOOLEAN
    PROVE  /\ [f EXCEPT !.if_block = b, !.else_block = c] \in JsFrame
           /\ [f EXCEPT !.if_block = b, !.else_block = c].mode = f.mode
           /\ [f EXCEPT !.do_block = b, !.if_block = c] \in JsFrame
           /\ [f EXCEPT !.do_block = b, !.if_block = c].mode = f.mode
           /\ [f EXCEPT !.do_block = b, !.do_while = c] \in JsFrame
           /\ [f EXCEPT !.do_block = b, !.do_while = c].mode = f.mode
           /\ [f EXCEPT !.in_case = b, !.in_case_statement = c] \in JsFrame
           /\ [f EXCEPT !.in_case = b, !.in_case_statement = c].mode = f.mode
  BY DEF JsFrame

\* A frame begins as a block.
LEMMA NewFrame == NewFlags \in JsFrame /\ NewFlags.mode = "BlockStatement"
<1>1. "BlockStatement" \in JsMode /\ "none" \in JsText
  BY DEF JsMode, JsText
<1>2. NewFlags \in JsFrame
  BY <1>1 DEF JsFrame, NewFlags
<1>3. NewFlags.mode = "BlockStatement"
  BY DEF NewFlags
<1> QED
  BY <1>2, <1>3

\* What the parts of the state are.
LEMMA StateParts ==
    ASSUME NEW q, NEW n, Good(q, n)
    PROVE  /\ q.flags \in Seq(JsFrame) /\ q.previous \in JsFrame /\ q.lines \in Seq(JsLine) /\ q.space \in BOOLEAN
           /\ q.last_type \in JsKind /\ q.last_last_text \in JsText /\ q.token \in JsText
           /\ Len(q.flags) \in Nat /\ Len(q.flags) >= 2 /\ DOMAIN q.flags = 1 .. Len(q.flags)
           /\ Len(q.lines) \in Nat /\ Len(q.lines) >= 1 /\ DOMAIN q.lines = 1 .. Len(q.lines)
           /\ Flags(q) \in JsFrame /\ Flags(q) = q.flags[Len(q.flags)]
           /\ Parent(q) \in JsFrame
           /\ Last(q.lines) \in JsLine /\ Last(q.lines) = q.lines[Len(q.lines)]
<1>1. q \in JsState /\ Len(q.flags) >= 2 /\ Len(q.lines) >= 1
  BY DEF Good
<1>2. /\ q.flags \in Seq(JsFrame) /\ q.previous \in JsFrame /\ q.lines \in Seq(JsLine) /\ q.space \in BOOLEAN
      /\ q.last_type \in JsKind /\ q.last_last_text \in JsText /\ q.token \in JsText
  BY <1>1 DEF JsState
<1> QED
  BY <1>1, <1>2 DEF Flags, Parent, Last

\* The frame on top is changed, and no other.
LEMMA SetFlagIs ==
    ASSUME NEW q, NEW n, Good(q, n), NEW f \in JsFrame, f.mode = Flags(q).mode
    PROVE  /\ Unwinds(q, SetFlag(q, f), n) /\ SetFlag(q, f).lines = q.lines
           /\ Len(SetFlag(q, f).flags) = Len(q.flags) /\ Flags(SetFlag(q, f)) = f
           /\ SetFlag(q, f).space = q.space /\ SetFlag(q, f).last_last_text = q.last_last_text
           /\ SetFlag(q, f).previous = q.previous
<1> DEFINE k == Len(q.flags)
           g == [q.flags EXCEPT ![k] = f]
           r == SetFlag(q, f)
<1>1. /\ q.flags \in Seq(JsFrame) /\ k \in Nat /\ k >= 2 /\ DOMAIN q.flags = 1 .. k
      /\ Flags(q) = q.flags[k]
  BY StateParts
<1>2. /\ g \in Seq(JsFrame) /\ Len(g) = k /\ DOMAIN g = 1 .. k /\ g[k] = f
      /\ \A i \in 1 .. k : g[i].mode = q.flags[i].mode
  BY <1>1
<1>3. /\ r \in JsState /\ r.flags = g /\ r.lines = q.lines /\ r.token = q.token
      /\ r.last_type = q.last_type /\ r.space = q.space /\ r.last_last_text = q.last_last_text
      /\ r.previous = q.previous
  BY <1>2 DEF SetFlag, Good, JsState
<1> HIDE DEF g, r, k
<1>4. Opened(r) = Opened(q)
  BY <1>1, <1>2, <1>3 DEF Opened
<1>5. Good(r, n)
  BY <1>1, <1>2, <1>3 DEF Good, k
<1>6. Flags(r) = f /\ Len(r.flags) = k
  BY <1>2, <1>3 DEF Flags, Last
<1>7. Follows(q, r)
  BY <1>3, FollowsSame
<1> QED
  BY <1>1, <1>3, <1>4, <1>5, <1>6, <1>7 DEF Unwinds, Keeps, r, k

\* The white space wanted before the next token is no part of the output.
LEMMA FieldsPut ==
    ASSUME NEW q, NEW n, Good(q, n), NEW b \in BOOLEAN
    PROVE  /\ Unwinds(q, Space(q), n) /\ Space(q).flags = q.flags /\ Space(q).lines = q.lines
           /\ Unwinds(q, NoSpace(q), n) /\ NoSpace(q).flags = q.flags /\ NoSpace(q).lines = q.lines
           /\ Unwinds(q, [q EXCEPT !.space = b], n)
<1> SUFFICES ASSUME NEW c \in BOOLEAN
             PROVE  /\ Unwinds(q, [q EXCEPT !.space = c], n)
                    /\ [q EXCEPT !.space = c].flags = q.flags /\ [q EXCEPT !.space = c].lines = q.lines
  BY DEF Space, NoSpace
<1> DEFINE r == [q EXCEPT !.space = c]
<1>1. q \in JsState /\ Len(q.flags) \in Nat
  BY StateParts DEF Good
<1>2. r \in JsState /\ r.flags = q.flags /\ r.lines = q.lines /\ r.token = q.token /\ r.last_type = q.last_type
  BY <1>1 DEF JsState
<1> HIDE DEF r
<1>3. Good(r, n) /\ Opened(r) = Opened(q)
  BY <1>1, <1>2 DEF Good, Opened
<1>4. Unwinds(q, r, n)
  BY <1>1, <1>2, <1>3, FollowsSame DEF Unwinds, Keeps
<1> QED
  BY <1>2, <1>4 DEF r

\* The lines are replaced.
LEMMA LinesPut ==
    ASSUME NEW q, NEW n, Good(q, n), NEW l \in Seq(JsLine), Len(l) >= 1, NEW m, Form(l, m)
    PROVE  LET r == [q EXCEPT !.lines = l] IN
           /\ Good(r, m) /\ Opened(r) = Opened(q) /\ r.token = q.token /\ r.last_type = q.last_type
           /\ r.flags = q.flags /\ r.lines = l
           /\ Stays(q.lines, l) /\ Settled(q.lines, l) => Unwinds(q, r, m)
<1> DEFINE r == [q EXCEPT !.lines = l]
<1>1. q \in JsState /\ Len(q.flags) \in Nat
  BY StateParts DEF Good
<1>2. r \in JsState /\ r.flags = q.flags /\ r.lines = l /\ r.token = q.token /\ r.last_type = q.last_type
  BY <1>1 DEF JsState
<1> HIDE DEF r
<1>3. Good(r, m) /\ Opened(r) = Opened(q)
  BY <1>1, <1>2 DEF Good, Opened
<1>4. ASSUME Stays(q.lines, l), Settled(q.lines, l) PROVE Unwinds(q, r, m)
  BY <1>1, <1>2, <1>3, <1>4 DEF Unwinds, Keeps, Follows
<1> QED
  BY <1>2, <1>3, <1>4 DEF r

\* What unwinds does so in two steps.
LEMMA UnwindsTwice ==
    ASSUME NEW q, NEW r, NEW s, NEW a, NEW n, NEW m, Good(q, a), Unwinds(q, r, n), Unwinds(r, s, m)
    PROVE  Unwinds(q, s, m)
<1>1. Len(q.flags) \in Nat /\ Len(r.flags) \in Nat /\ Len(s.flags) \in Nat
  BY StateParts DEF Unwinds, Keeps
<1> QED
  BY <1>1, FollowsTwice DEF Unwinds, Keeps

\* What keeps the brackets does so in two steps.
LEMMA KeepsTwice ==
    ASSUME NEW q, NEW r, NEW s, NEW n, NEW m, Keeps(q, r, n), Keeps(r, s, m)
    PROVE  Keeps(q, s, m)
  BY FollowsTwice DEF Keeps

\* What the parts of a line are.
LEMMA LinePart ==
    ASSUME NEW l \in Seq(JsLine), NEW i \in 1 .. Len(l)
    PROVE  /\ l[i] \in JsLine /\ l[i].items \in Seq(Nat) /\ l[i].indent \in {-1} \cup Nat
           /\ Len(l[i].items) \in Nat /\ DOMAIN l[i].items = 1 .. Len(l[i].items)
           /\ DOMAIN l = 1 .. Len(l) /\ Len(l) \in Nat
           /\ \A c \in 1 .. Len(l[i].items) : l[i].items[c] \in Nat
<1>1. l[i] \in JsLine
  OBVIOUS
<1>2. l[i].items \in Seq(Nat) /\ l[i].indent \in {-1} \cup Nat
  BY <1>1 DEF JsLine
<1> QED
  BY <1>1, <1>2

\* The lines l without blanks at ends and without empty lines, and with new empty lines behind.
SameTokens(l, m, K) ==
    /\ K <= Len(l) /\ K <= Len(m)
    /\ \A i \in 1 .. K :
           /\ Len(m[i].items) <= Len(l[i].items)
           /\ \A c \in 1 .. Len(m[i].items) : m[i].items[c] = l[i].items[c]
           /\ \A c \in Len(m[i].items) + 1 .. Len(l[i].items) : l[i].items[c] = Blank
    /\ \A i \in K + 1 .. Len(l) : \A c \in 1 .. Len(l[i].items) : l[i].items[c] = Blank
    /\ \A i \in K + 1 .. Len(m) : Len(m[i].items) = 0

\* Lines with the same tokens print the same.
LEMMA SamePrints ==
    ASSUME NEW l \in Seq(JsLine), NEW m \in Seq(JsLine), NEW K \in Nat, SameTokens(l, m, K),
           NEW n \in Nat, Form(l, n)
    PROVE  Form(m, n) /\ Stays(l, m)
<1>0. PrintsUpTo(l, n) /\ EndsInTokens(l)
  BY DEF Form
<1>1. Len(l) \in Nat /\ Len(m) \in Nat /\ DOMAIN l = 1 .. Len(l) /\ DOMAIN m = 1 .. Len(m)
  OBVIOUS
<1>2. ASSUME NEW i \in DOMAIN m, NEW c \in DOMAIN m[i].items
      PROVE  /\ i \in 1 .. K /\ i \in DOMAIN l /\ c \in DOMAIN l[i].items /\ m[i].items[c] = l[i].items[c]
             /\ i \in Int /\ c \in Int
  <2>1. Len(m[i].items) \in Nat /\ c \in 1 .. Len(m[i].items)
    BY <1>1, LinePart
  <2>2. i \in 1 .. K
    BY <1>1, <2>1 DEF SameTokens
  <2>3. i \in 1 .. Len(l)
    BY <1>1, <2>2 DEF SameTokens
  <2>4. Len(l[i].items) \in Nat /\ DOMAIN l[i].items = 1 .. Len(l[i].items)
    BY <2>3, LinePart
  <2> QED
    BY <1>1, <2>1, <2>2, <2>3, <2>4 DEF SameTokens
<1>3. \A i \in DOMAIN m : \A c \in DOMAIN m[i].items : m[i].items[c] \in 0 .. n
  BY <1>0, <1>2 DEF PrintsUpTo
<1>4. ASSUME NEW t \in 1 .. n PROVE \E i \in DOMAIN m : \E c \in DOMAIN m[i].items : m[i].items[c] = t
  <2>1. PICK i \in DOMAIN l : \E c \in DOMAIN l[i].items : l[i].items[c] = t
    BY <1>0 DEF PrintsUpTo
  <2>2. PICK c \in DOMAIN l[i].items : l[i].items[c] = t
    BY <2>1
  <2>3. t # Blank
    BY DEF Blank
  <2>4. Len(l[i].items) \in Nat /\ c \in 1 .. Len(l[i].items)
    BY <1>1, LinePart
  <2>5. i \in 1 .. K
    BY <1>1, <2>2, <2>3, <2>4 DEF SameTokens
  <2>6. i \in 1 .. Len(m)
    BY <1>1, <2>5 DEF SameTokens
  <2>7. Len(m[i].items) \in Nat /\ DOMAIN m[i].items = 1 .. Len(m[i].items)
    BY <2>6, LinePart
  <2>8. c \in 1 .. Len(m[i].items)
    <3>1. c \notin Len(m[i].items) + 1 .. Len(l[i].items)
      BY <2>2, <2>3, <2>5 DEF SameTokens
    <3> QED
      BY <2>4, <2>7, <3>1
  <2>9. m[i].items[c] = t
    BY <2>2, <2>5, <2>8 DEF SameTokens
  <2> QED
    BY <1>1, <2>6, <2>7, <2>8, <2>9
<1>5. ASSUME NEW i \in DOMAIN m, NEW j \in DOMAIN m, NEW c \in DOMAIN m[i].items, NEW d \in DOMAIN m[j].items,
             i < j \/ (i = j /\ c < d), m[i].items[c] # Blank, m[j].items[d] # Blank
      PROVE  m[i].items[c] < m[j].items[d]
  <2>1. /\ i \in DOMAIN l /\ c \in DOMAIN l[i].items /\ m[i].items[c] = l[i].items[c]
        /\ j \in DOMAIN l /\ d \in DOMAIN l[j].items /\ m[j].items[d] = l[j].items[d]
    BY <1>2
  <2> QED
    BY <1>0, <1>5, <2>1 DEF PrintsUpTo
<1>6. EndsInTokens(m)
  <2> SUFFICES ASSUME NEW i \in DOMAIN m, m[i].items # <<>> PROVE Last(m[i].items) # Blank
    BY DEF EndsInTokens
  <2> DEFINE x == Len(m[i].items)
             y == Len(l[i].items)
  <2>1. x \in Nat /\ x >= 1 /\ DOMAIN m[i].items = 1 .. x
    <3>1. m[i].items \in Seq(Nat)
      BY <1>1, LinePart
    <3> QED
      BY <3>1
  <2>2. i \in 1 .. K /\ i \in DOMAIN l
    <3>1. 1 \in DOMAIN m[i].items
      BY <2>1
    <3> QED
      BY <1>2, <3>1
  <2>3. y \in Nat /\ x <= y /\ l[i].items \in Seq(Nat)
        /\ (\A c \in 1 .. x : m[i].items[c] = l[i].items[c])
        /\ \A c \in x + 1 .. y : l[i].items[c] = Blank
    BY <1>1, <2>2, LinePart DEF SameTokens
  <2>4. Last(l[i].items) # Blank /\ Last(l[i].items) = l[i].items[y]
    <3>1. l[i].items # <<>>
      <4>1. y >= 1
        BY <2>1, <2>3
      <4> QED
        BY <2>3, <4>1
    <3> QED
      BY <1>0, <2>2, <3>1 DEF EndsInTokens, Last
  <2> HIDE DEF x, y
  <2>5. x = y
    <3>1. y \notin x + 1 .. y
      BY <2>3, <2>4
    <3> QED
      BY <2>1, <2>3, <3>1
  <2>6. m[i].items[x] # Blank
    <3>1. x \in 1 .. x
      BY <2>1
    <3> QED
      BY <2>3, <2>4, <2>5, <3>1
  <2> QED
    BY <2>6 DEF Last, x
<1>7. Stays(l, m)
  <2> SUFFICES ASSUME NEW i \in DOMAIN l, NEW c \in DOMAIN l[i].items, l[i].items[c] # Blank
               PROVE  i \in DOMAIN m /\ c \in DOMAIN m[i].items /\ m[i].items[c] = l[i].items[c]
    BY DEF Stays
  <2>1. i \in 1 .. Len(l) /\ Len(l[i].items) \in Nat /\ c \in 1 .. Len(l[i].items)
    BY <1>1, LinePart
  <2>2. i \in 1 .. K
    BY <1>1, <2>1 DEF SameTokens
  <2>3. i \in 1 .. Len(m)
    BY <1>1, <2>2 DEF SameTokens
  <2>4. Len(m[i].items) \in Nat /\ DOMAIN m[i].items = 1 .. Len(m[i].items)
    BY <2>3, LinePart
  <2>5. c \in 1 .. Len(m[i].items)
    <3>1. c \notin Len(m[i].items) + 1 .. Len(l[i].items)
      BY <2>2 DEF SameTokens
    <3> QED
      BY <2>1, <2>4, <3>1
  <2> QED
    BY <1>1, <2>2, <2>3, <2>4, <2>5 DEF SameTokens
<1>8. PrintsUpTo(m, n)
  BY <1>3, <1>4, <1>5 DEF PrintsUpTo
<1> QED
  BY <1>6, <1>7, <1>8 DEF Form

\* What two sequences are together.
LEMMA JoinSeq ==
    ASSUME NEW S, NEW s \in Seq(S), NEW t \in Seq(S)
    PROVE  /\ s \o t \in Seq(S) /\ Len(s \o t) = Len(s) + Len(t)
           /\ \A i \in 1 .. Len(s) : (s \o t)[i] = s[i]
           /\ \A i \in Len(s) + 1 .. Len(s) + Len(t) : (s \o t)[i] = t[i - Len(s)]
  OBVIOUS

\* An empty line is a line.
LEMMA EmptyLineIs == EmptyLine \in JsLine /\ EmptyLine.items = <<>> /\ Len(EmptyLine.items) = 0
<1>1. <<>> \in Seq(Nat) /\ Len(<<>>) = 0
  OBVIOUS
<1>2. -1 \in {-1} \cup Nat
  OBVIOUS
<1> QED
  BY <1>1, <1>2 DEF EmptyLine, JsLine

\* add_new_line.
LEMMA AddNewLineIs ==
    ASSUME NEW q, NEW n \in Nat, Good(q, n), NEW force
    PROVE  Unwinds(q, AddNewLine(q, force), n)
<1>1. CASE JustAddedNewline(q) /\ (Len(q.lines) = 1 \/ ~force)
  <2>1. AddNewLine(q, force) = q
    BY <1>1 DEF AddNewLine
  <2>2. Len(q.flags) \in Nat
    BY StateParts
  <2> QED
    BY <2>1, <2>2, FollowsSame DEF Unwinds, Keeps
<1>2. CASE ~(JustAddedNewline(q) /\ (Len(q.lines) = 1 \/ ~force))
  <2> DEFINE l == Append(q.lines, EmptyLine)
             r == [q EXCEPT !.lines = l]
             f == [Flags(q) EXCEPT !.multiline_frame = TRUE]
  <2>1. AddNewLine(q, force) = SetFlag(r, f)
    <3>1. AddNewLine(q, force) = SetFlag([q EXCEPT !.lines = Append(@, EmptyLine)], f)
      BY <1>2 DEF AddNewLine
    <3>2. [q EXCEPT !.lines = Append(@, EmptyLine)] = r
      OBVIOUS
    <3> QED
      BY <3>1, <3>2
  <2>2. q.lines \in Seq(JsLine) /\ Len(q.lines) \in Nat /\ Len(q.lines) >= 1 /\ Flags(q) \in JsFrame
    BY StateParts
  <2>3. l \in Seq(JsLine) /\ Len(l) = Len(q.lines) + 1 /\ l[Len(q.lines) + 1] = EmptyLine
        /\ \A i \in 1 .. Len(q.lines) : l[i] = q.lines[i]
    BY <2>2, EmptyLineIs
  <2> HIDE DEF l
  <2>4. SameTokens(q.lines, l, Len(q.lines))
    <3>1. \A i \in 1 .. Len(q.lines) : Len(q.lines[i].items) \in Nat
      BY <2>2, LinePart
    <3>2. \A i \in Len(q.lines) + 1 .. Len(l) : i = Len(q.lines) + 1
      BY <2>2, <2>3
    <3> QED
      BY <2>2, <2>3, <3>1, <3>2, EmptyLineIs DEF SameTokens
  <2>5. Form(l, n) /\ Stays(q.lines, l)
    BY <2>2, <2>3, <2>4, SamePrints DEF Good
  <2>6. Len(l) >= 1 /\ Settled(q.lines, l)
    <3>1. DOMAIN q.lines = 1 .. Len(q.lines) /\ DOMAIN l = 1 .. Len(q.lines) + 1
      BY <2>2, <2>3
    <3> QED
      BY <2>2, <2>3, <3>1 DEF Settled
  <2>7. Unwinds(q, r, n) /\ r.flags = q.flags
    BY <2>3, <2>5, <2>6, LinesPut
  <2>8. Good(r, n) /\ Flags(r) = Flags(q)
    BY <2>7 DEF Unwinds, Keeps, Flags
  <2>9. f \in JsFrame /\ f.mode = Flags(r).mode
    <3>1. TRUE \in BOOLEAN
      OBVIOUS
    <3> QED
      BY <2>2, <2>8, <3>1, FrameSet
  <2> HIDE DEF r, f
  <2>10. Unwinds(r, SetFlag(r, f), n)
    BY <2>8, <2>9, SetFlagIs
  <2> QED
    BY <2>1, <2>7, <2>10, UnwindsTwice
<1> QED
  BY <1>1, <1>2

\* remove_redundant_indentation.
LEMMA RemoveIs ==
    ASSUME NEW q, NEW n \in Nat, Good(q, n), NEW frame \in JsFrame
    PROVE  LET r == RemoveRedundantIndentation(q, frame) IN
           /\ Unwinds(q, r, n) /\ r.flags = q.flags
           /\ Len(r.lines) = Len(q.lines) /\ \A i \in 1 .. Len(q.lines) : r.lines[i].items = q.lines[i].items
<1> DEFINE none == frame.multiline_frame \/ frame.mode \in {"ForInitializer", "Conditional"}
<1>1. Len(q.flags) \in Nat /\ q.lines \in Seq(JsLine) /\ Len(q.lines) \in Nat /\ Len(q.lines) >= 1
  BY StateParts
<1>2. CASE none
  BY <1>1, <1>2, FollowsSame DEF RemoveRedundantIndentation, Unwinds, Keeps
<1>3. CASE ~none
  <2> DEFINE first == Min({frame.start_line_index, Len(q.lines)})
             less(line) == IF line.indent > 0 THEN [line EXCEPT !.indent = @ - 1] ELSE line
             l == SubSeq(q.lines, 1, first) \o [i \in 1 .. Len(q.lines) - first |-> less(q.lines[first + i])]
  <2>1. RemoveRedundantIndentation(q, frame) = [q EXCEPT !.lines = l]
    BY <1>3 DEF RemoveRedundantIndentation
  <2>2. first \in 0 .. Len(q.lines)
    <3>1. frame.start_line_index \in Nat
      BY DEF JsFrame
    <3>2. \E x \in {frame.start_line_index, Len(q.lines)} : \A y \in {frame.start_line_index, Len(q.lines)} : x <= y
      BY <1>1, <3>1
    <3>3. first \in {frame.start_line_index, Len(q.lines)} /\ \A y \in {frame.start_line_index, Len(q.lines)} : first <= y
      BY <3>2 DEF Min
    <3> HIDE DEF first
    <3> QED
      BY <1>1, <3>1, <3>3
  <2> HIDE DEF first
  <2>3. ASSUME NEW line \in JsLine PROVE less(line) \in JsLine /\ less(line).items = line.items
    BY DEF JsLine
  <2> DEFINE a == SubSeq(q.lines, 1, first)
             b == [i \in 1 .. Len(q.lines) - first |-> less(q.lines[first + i])]
  <2>4. a \in Seq(JsLine) /\ Len(a) = first /\ \A i \in 1 .. first : a[i] = q.lines[i]
    BY <1>1, <2>2, CutSeq
  <2>5. b \in Seq(JsLine) /\ Len(b) = Len(q.lines) - first
        /\ \A i \in 1 .. Len(q.lines) - first : b[i] = less(q.lines[first + i])
    <3>1. Len(q.lines) - first \in Nat
      BY <1>1, <2>2
    <3>2. \A i \in 1 .. Len(q.lines) - first : q.lines[first + i] \in JsLine
      BY <1>1, <2>2
    <3>3. \A i \in 1 .. Len(q.lines) - first : less(q.lines[first + i]) \in JsLine
      BY <2>3, <3>2
    <3> HIDE DEF less
    <3> QED
      BY <3>1, <3>3
  <2>6. l = a \o b
    OBVIOUS
  <2> HIDE DEF a, b, l, less
  <2>7. l \in Seq(JsLine) /\ Len(l) = Len(q.lines)
        /\ (\A i \in 1 .. first : l[i] = a[i]) /\ (\A i \in first + 1 .. Len(q.lines) : l[i] = b[i - first])
    <3>1. first \in Nat /\ Len(q.lines) - first \in Nat /\ first + (Len(q.lines) - first) = Len(q.lines)
      BY <1>1, <2>2
    <3>2. /\ l \in Seq(JsLine) /\ Len(l) = Len(a) + Len(b)
          /\ (\A i \in 1 .. Len(a) : l[i] = a[i]) /\ (\A i \in Len(a) + 1 .. Len(a) + Len(b) : l[i] = b[i - Len(a)])
      BY <2>4, <2>5, <2>6, JoinSeq
    <3> QED
      BY <2>4, <2>5, <3>1, <3>2
  <2>8. ASSUME NEW i \in 1 .. Len(q.lines) PROVE l[i].items = q.lines[i].items
    <3>1. CASE i <= first
      BY <1>1, <2>2, <2>4, <2>7, <3>1
    <3>2. CASE i > first
      <4>1. i \in first + 1 .. Len(q.lines) /\ i - first \in 1 .. Len(q.lines) - first /\ first + (i - first) = i
        BY <1>1, <2>2, <3>2
      <4>2. l[i] = less(q.lines[i])
        BY <2>5, <2>7, <4>1
      <4>3. q.lines[i] \in JsLine
        BY <1>1
      <4> QED
        BY <2>3, <4>2, <4>3
    <3> QED
      BY <1>1, <2>2, <3>1, <3>2
  <2>9. SameTokens(q.lines, l, Len(q.lines))
    <3>1. \A i \in 1 .. Len(q.lines) : Len(q.lines[i].items) \in Nat
      BY <1>1, LinePart
    <3> QED
      BY <1>1, <2>7, <2>8, <3>1 DEF SameTokens
  <2>10. Form(l, n) /\ Stays(q.lines, l)
    BY <1>1, <2>7, <2>9, SamePrints DEF Good
  <2>11. Settled(q.lines, l)
    BY <1>1, <2>7, <2>8 DEF Settled
  <2> QED
    BY <1>1, <2>1, <2>7, <2>8, <2>10, <2>11, LinesPut
<1> QED
  BY <1>2, <1>3

\* The last line, made another one.
LEMMA LastLinePut ==
    ASSUME NEW l \in Seq(JsLine), Len(l) >= 1, NEW x \in JsLine
    PROVE  LET m == [l EXCEPT ![Len(l)] = x] IN
           /\ m \in Seq(JsLine) /\ Len(m) = Len(l) /\ m[Len(l)] = x
           /\ \A i \in 1 .. Len(l) : i # Len(l) => m[i] = l[i]
  OBVIOUS

\* A token behind what the last line has, with a blank or without.
LEMMA TokenBehind ==
    ASSUME NEW l \in Seq(JsLine), Len(l) >= 1, NEW k \in Nat, k >= 1, Form(l, k - 1),
           NEW b \in {<<>>, <<Blank>>}, NEW x \in JsLine, x.items = l[Len(l)].items \o b \o <<k>>,
           NEW m \in Seq(JsLine), Len(m) = Len(l), m[Len(l)] = x, \A i \in 1 .. Len(l) : i # Len(l) => m[i] = l[i]
    PROVE  Form(m, k) /\ Stays(l, m)
<1> DEFINE L == Len(l)
           o == l[L].items
           y == x.items
<1>0. PrintsUpTo(l, k - 1) /\ EndsInTokens(l)
  BY DEF Form
<1>1. /\ L \in Nat /\ L >= 1 /\ DOMAIN l = 1 .. L /\ DOMAIN m = 1 .. L /\ L \in 1 .. L
      /\ o \in Seq(Nat) /\ Len(o) \in Nat /\ DOMAIN o = 1 .. Len(o)
  BY LinePart
<1>2. PICK e \in {0, 1} : b \in Seq(Nat) /\ Len(b) = e /\ \A c \in 1 .. e : b[c] = Blank
  <2>1. <<>> \in Seq(Nat) /\ Len(<<>>) = 0
    OBVIOUS
  <2>2. Blank \in Nat
    BY DEF Blank
  <2>3. <<Blank>> \in Seq(Nat) /\ Len(<<Blank>>) = 1 /\ <<Blank>>[1] = Blank
    BY <2>2, OneItem
  <2>4. CASE b = <<>>
    BY <2>1, <2>4
  <2>5. CASE b = <<Blank>>
    BY <2>3, <2>5
  <2> QED
    BY <2>4, <2>5
<1>3. <<k>> \in Seq(Nat) /\ Len(<<k>>) = 1 /\ <<k>>[1] = k
  BY OneItem
<1> DEFINE z == o \o b
<1>5. y = z \o <<k>>
  OBVIOUS
<1> HIDE DEF y, o, L
<1>4. /\ z \in Seq(Nat) /\ Len(z) = Len(o) + e
      /\ \A c \in 1 .. Len(o) : z[c] = o[c]
      /\ \A c \in Len(o) + 1 .. Len(o) + e : z[c] = b[c - Len(o)]
  BY <1>1, <1>2, JoinSeq
<1> HIDE DEF z
<1>6. /\ y \in Seq(Nat) /\ Len(y) = Len(z) + 1
      /\ \A c \in 1 .. Len(z) : y[c] = z[c]
      /\ \A c \in Len(z) + 1 .. Len(z) + 1 : y[c] = <<k>>[c - Len(z)]
  <2> DEFINE u == <<k>>
  <2>1. u \in Seq(Nat) /\ Len(u) = 1 /\ y = z \o u
    BY <1>3, <1>5
  <2> HIDE DEF u
  <2>2. /\ y \in Seq(Nat) /\ Len(y) = Len(z) + Len(u)
        /\ \A c \in 1 .. Len(z) : y[c] = z[c]
        /\ \A c \in Len(z) + 1 .. Len(z) + Len(u) : y[c] = u[c - Len(z)]
    <3> DEFINE t == z \o u
    <3>1. /\ t \in Seq(Nat) /\ Len(t) = Len(z) + Len(u)
          /\ \A c \in 1 .. Len(z) : t[c] = z[c]
          /\ \A c \in Len(z) + 1 .. Len(z) + Len(u) : t[c] = u[c - Len(z)]
      <4>1. z \in Seq(Nat) /\ u \in Seq(Nat)
        BY <1>4, <2>1
      <4> QED
        BY <4>1, JoinSeq
    <3>2. y = t
      BY <2>1
    <3> HIDE DEF t
    <3> QED
      BY <3>1, <3>2
  <2>3. /\ y \in Seq(Nat) /\ Len(y) = Len(z) + 1
        /\ \A c \in 1 .. Len(z) : y[c] = z[c]
        /\ \A c \in Len(z) + 1 .. Len(z) + 1 : y[c] = u[c - Len(z)]
    BY <2>1, <2>2
  <2> QED
    BY <2>3 DEF u
<1>7. /\ Len(y) = Len(o) + e + 1 /\ Len(y) \in Nat /\ DOMAIN y = 1 .. Len(y)
      /\ \A c \in 1 .. Len(o) : y[c] = o[c]
      /\ \A c \in 1 .. Len(y) : c \in 1 .. Len(o) \/ y[c] = Blank \/ (c = Len(y) /\ y[c] = k)
      /\ y[Len(y)] = k
  <2>1. Len(z) = Len(o) + e /\ Len(z) \in Nat /\ Len(y) = Len(o) + e + 1
    BY <1>1, <1>4, <1>6
  <2>2. y[Len(y)] = k
    <3>1. Len(z) + 1 \in Len(z) + 1 .. Len(z) + 1 /\ (Len(z) + 1) - Len(z) = 1
      BY <2>1
    <3> QED
      BY <1>3, <1>6, <3>1
  <2>3. ASSUME NEW c \in 1 .. Len(y), c \notin 1 .. Len(o), c # Len(y) PROVE y[c] = Blank
    <3>1. c \in Len(o) + 1 .. Len(o) + e /\ c \in 1 .. Len(z) /\ c - Len(o) \in 1 .. e
      BY <1>1, <2>1, <2>3
    <3> QED
      BY <1>2, <1>4, <1>6, <3>1
  <2>4. ASSUME NEW c \in 1 .. Len(o) PROVE y[c] = o[c]
    <3>1. c \in 1 .. Len(z)
      BY <1>1, <2>1
    <3> QED
      BY <1>4, <1>6, <3>1
  <2>5. DOMAIN y = 1 .. Len(y)
    BY <1>6
  <2> QED
    BY <1>1, <2>1, <2>2, <2>3, <2>4, <2>5
<1>8. /\ m[L].items = y /\ \A i \in 1 .. L : i # L => m[i] = l[i]
      /\ l[L].items = o
  BY DEF y, o, L
\* Where a token that was there is, and where the new one.
<1>9. ASSUME NEW i \in DOMAIN m, NEW c \in DOMAIN m[i].items
      PROVE  /\ i \in Int /\ i \in DOMAIN l /\ i <= L /\ c \in Int
             /\ \/ c \in DOMAIN l[i].items /\ m[i].items[c] = l[i].items[c]
                \/ m[i].items[c] = Blank
                \/ i = L /\ c = Len(y) /\ m[i].items[c] = k
             /\ i = L => c <= Len(y)
  <2>1. CASE i = L
    <3>1. c \in 1 .. Len(y) /\ m[i].items[c] = y[c] /\ l[i].items = o
      BY <1>7, <1>8, <2>1
    <3> QED
      BY <1>1, <1>7, <2>1, <3>1
  <2>2. CASE i # L
    <3>1. m[i] = l[i] /\ i \in 1 .. L
      BY <1>1, <1>8, <2>2
    <3>2. Len(l[i].items) \in Nat /\ DOMAIN l[i].items = 1 .. Len(l[i].items)
      BY <3>1, LinePart DEF L
    <3> QED
      BY <1>1, <2>2, <3>1, <3>2
  <2> QED
    BY <2>1, <2>2
<1>10. \A i \in DOMAIN m : \A c \in DOMAIN m[i].items : m[i].items[c] \in 0 .. k
  <2> SUFFICES ASSUME NEW i \in DOMAIN m, NEW c \in DOMAIN m[i].items PROVE m[i].items[c] \in 0 .. k
    OBVIOUS
  <2>1. \A j \in DOMAIN l : \A d \in DOMAIN l[j].items : l[j].items[d] \in 0 .. k - 1
    BY <1>0 DEF PrintsUpTo
  <2>2. CASE i \in DOMAIN l /\ c \in DOMAIN l[i].items /\ m[i].items[c] = l[i].items[c]
    <3>1. l[i].items[c] \in 0 .. k - 1
      BY <2>1, <2>2
    <3> QED
      BY <2>2, <3>1
  <2>3. CASE m[i].items[c] = Blank
    BY <2>3 DEF Blank
  <2>4. CASE m[i].items[c] = k
    BY <2>4
  <2> QED
    BY <1>9, <2>2, <2>3, <2>4
<1>11. ASSUME NEW t \in 1 .. k PROVE \E i \in DOMAIN m : \E c \in DOMAIN m[i].items : m[i].items[c] = t
  <2>1. CASE t = k
    <3>1. L \in DOMAIN m /\ Len(y) \in 1 .. Len(y)
      BY <1>1, <1>7
    <3>2. Len(y) \in DOMAIN m[L].items /\ m[L].items[Len(y)] = t
      BY <1>7, <1>8, <2>1, <3>1
    <3> QED
      BY <3>1, <3>2
  <2>2. CASE t # k
    <3>1. t \in 1 .. k - 1
      BY <2>2
    <3>2. PICK i \in DOMAIN l : \E c \in DOMAIN l[i].items : l[i].items[c] = t
      BY <1>0, <3>1 DEF PrintsUpTo
    <3>3. PICK c \in DOMAIN l[i].items : l[i].items[c] = t
      BY <3>2
    <3>4. CASE i = L
      <4>1. c \in 1 .. Len(o) /\ o[c] = t
        BY <1>1, <1>8, <3>3, <3>4
      <4>2. c \in 1 .. Len(y) /\ y[c] = t
        BY <1>1, <1>7, <4>1
      <4> QED
        BY <1>1, <1>7, <1>8, <4>2
    <3>5. CASE i # L
      BY <1>1, <1>8, <3>3, <3>5
    <3> QED
      BY <3>4, <3>5
  <2> QED
    BY <2>1, <2>2
<1>12. ASSUME NEW i \in DOMAIN m, NEW j \in DOMAIN m, NEW c \in DOMAIN m[i].items, NEW d \in DOMAIN m[j].items,
              i < j \/ (i = j /\ c < d), m[i].items[c] # Blank, m[j].items[d] # Blank
       PROVE  m[i].items[c] < m[j].items[d]
  <2>1. \A g \in DOMAIN l : \A h \in DOMAIN l[g].items : l[g].items[h] \in 0 .. k - 1
    BY <1>0 DEF PrintsUpTo
  <2>2. c \in DOMAIN l[i].items /\ m[i].items[c] = l[i].items[c] /\ i \in DOMAIN l
    <3>1. ~(i = L /\ c = Len(y))
      BY <1>9, <1>12, <1>7, <1>1
    <3> QED
      BY <1>9, <1>12, <3>1
  <2>3. CASE d \in DOMAIN l[j].items /\ m[j].items[d] = l[j].items[d]
    <3>1. j \in DOMAIN l
      BY <1>9
    <3> QED
      BY <1>0, <1>12, <2>2, <2>3, <3>1 DEF PrintsUpTo
  <2>4. CASE m[j].items[d] = k
    <3>1. m[i].items[c] \in 0 .. k - 1
      BY <2>1, <2>2
    <3> QED
      BY <2>4, <3>1
  <2> QED
    BY <1>9, <1>12, <2>3, <2>4
<1>13. PrintsUpTo(m, k)
  BY <1>10, <1>11, <1>12 DEF PrintsUpTo
<1>14. EndsInTokens(m)
  <2> SUFFICES ASSUME NEW i \in DOMAIN m, m[i].items # <<>> PROVE Last(m[i].items) # Blank
    BY DEF EndsInTokens
  <2>1. CASE i = L
    <3>1. Last(m[i].items) = k
      BY <1>7, <1>8, <2>1 DEF Last
    <3> QED
      BY <3>1 DEF Blank
  <2>2. CASE i # L
    BY <1>0, <1>1, <1>8, <2>2 DEF EndsInTokens
  <2> QED
    BY <2>1, <2>2
<1>15. Stays(l, m)
  <2> SUFFICES ASSUME NEW i \in DOMAIN l, NEW c \in DOMAIN l[i].items
               PROVE  i \in DOMAIN m /\ c \in DOMAIN m[i].items /\ m[i].items[c] = l[i].items[c]
    BY DEF Stays
  <2>1. CASE i = L
    <3>1. c \in 1 .. Len(o)
      BY <1>1, <1>8, <2>1
    <3>2. c \in 1 .. Len(y)
      BY <1>1, <1>2, <1>7, <3>1
    <3> QED
      BY <1>1, <1>7, <1>8, <2>1, <3>1, <3>2
  <2>2. CASE i # L
    BY <1>1, <1>8, <2>2
  <2> QED
    BY <2>1, <2>2
<1> QED
  BY <1>13, <1>14, <1>15 DEF Form

\* print_token.
LEMMA JsPrintTokenIs ==
    ASSUME NEW q, NEW k \in Nat, k >= 1, Good(q, k - 1)
    PROVE  LET r == JsPrintToken(q, k)
               last == q.lines[Len(q.lines)].items
           IN  /\ Unwinds(q, r, k) /\ Len(r.lines) = Len(q.lines)
               /\ r.lines[Len(r.lines)].items
                      = last \o (IF q.space /\ last # <<>> THEN <<Blank>> ELSE <<>>) \o <<k>>
<1> DEFINE L == Len(q.lines)
           level == IF Len(q.lines) > 1 THEN Flags(q).indentation_level ELSE 0
           l == [q.lines EXCEPT ![L].indent = level]
           p == [q EXCEPT !.lines = l]
           f == [Flags(p) EXCEPT !.line_indent_level = level]
           begun == IF ~JustAddedNewline(q) THEN q ELSE IF Len(q.lines) = 1 THEN p ELSE SetFlag(p, f)
           blank == IF q.space /\ ~JustAddedNewline(q) THEN <<Blank>> ELSE <<>>
           x == [begun.lines[L] EXCEPT !.items = @ \o blank \o <<k>>]
           m == [begun.lines EXCEPT ![L] = x]
           r == [begun EXCEPT !.lines = m]
<1>1. /\ q.lines \in Seq(JsLine) /\ L \in Nat /\ L >= 1 /\ Flags(q) \in JsFrame /\ Len(q.flags) \in Nat
      /\ k - 1 \in Nat /\ L \in 1 .. L
  BY StateParts
<1>2. level \in Nat
  BY <1>1 DEF JsFrame
<1>3. JsPrintToken(q, k) = NoSpace(r)
  <2>1. JsPrintToken(q, k) = [begun EXCEPT !.lines[L].items = @ \o blank \o <<k>>, !.space = FALSE]
    BY DEF JsPrintToken
  <2> HIDE DEF begun, blank, L
  <2>2. [begun EXCEPT !.lines[L].items = @ \o blank \o <<k>>, !.space = FALSE] = NoSpace(r)
    BY DEF NoSpace
  <2> QED
    BY <2>1, <2>2
<1> HIDE DEF level
<1>4. Unwinds(q, p, k - 1) /\ p.flags = q.flags /\ p.lines = l /\ Len(l) = L /\ l[L].items = q.lines[L].items
  <2> DEFINE w == [q.lines[L] EXCEPT !.indent = level]
  <2>1. q.lines[L] \in JsLine
    BY <1>1
  <2>2. w \in JsLine /\ w.items = q.lines[L].items
    BY <1>2, <2>1 DEF JsLine
  <2>3. l = [q.lines EXCEPT ![L] = w]
    BY <1>1
  <2> HIDE DEF w
  <2>4. /\ l \in Seq(JsLine) /\ Len(l) = L /\ l[L] = w
        /\ \A i \in 1 .. L : i # L => l[i] = q.lines[i]
    BY <1>1, <2>2, <2>3, LastLinePut
  <2> HIDE DEF l, L
  <2>5. \A i \in 1 .. L : l[i].items = q.lines[i].items
    BY <2>2, <2>4
  <2>6. SameTokens(q.lines, l, L)
    <3>1. \A i \in 1 .. L : Len(q.lines[i].items) \in Nat
      BY <1>1, LinePart DEF L
    <3> QED
      BY <1>1, <2>4, <2>5, <3>1 DEF SameTokens, L
  <2>7. Form(l, k - 1) /\ Stays(q.lines, l)
    BY <1>1, <2>4, <2>6, SamePrints DEF Good, L
  <2>8. Settled(q.lines, l) /\ L \in 1 .. L
    <3>1. DOMAIN q.lines = 1 .. L /\ DOMAIN l = 1 .. L
      BY <1>1, <2>4 DEF L
    <3> QED
      BY <1>1, <2>5, <3>1 DEF Settled
  <2>9. Unwinds(q, p, k - 1) /\ p.flags = q.flags /\ p.lines = l
    BY <1>1, <2>4, <2>7, <2>8, LinesPut DEF L
  <2> QED
    BY <2>4, <2>5, <2>8, <2>9
<1> HIDE DEF l
<1>5. Unwinds(q, begun, k - 1) /\ Len(begun.lines) = L /\ begun.lines[L].items = q.lines[L].items
  <2>1. CASE ~JustAddedNewline(q)
    BY <1>1, <2>1, FollowsSame DEF Unwinds, Keeps
  <2>2. CASE JustAddedNewline(q) /\ Len(q.lines) = 1
    BY <1>4, <2>2
  <2>3. CASE JustAddedNewline(q) /\ Len(q.lines) # 1
    <3>1. Good(p, k - 1) /\ Flags(p) = Flags(q)
      BY <1>4 DEF Unwinds, Keeps, Flags
    <3>2. f \in JsFrame /\ f.mode = Flags(p).mode
      BY <1>1, <1>2, <3>1, FrameNumber
    <3> HIDE DEF f, p
    <3>3. Unwinds(p, SetFlag(p, f), k - 1) /\ SetFlag(p, f).lines = p.lines
      BY <1>1, <3>1, <3>2, SetFlagIs
    <3>4. begun = SetFlag(p, f)
      BY <2>3
    <3> HIDE DEF begun
    <3> QED
      BY <1>1, <1>4, <3>3, <3>4, UnwindsTwice
  <2> QED
    BY <2>1, <2>2, <2>3
<1>6. /\ blank \in {<<>>, <<Blank>>}
      /\ blank = IF q.space /\ q.lines[L].items # <<>> THEN <<Blank>> ELSE <<>>
  BY DEF JustAddedNewline, Last
<1> HIDE DEF begun, blank
<1>7. Good(begun, k - 1) /\ begun.lines \in Seq(JsLine) /\ begun.lines[L] \in JsLine
  <2>1. Good(begun, k - 1)
    BY <1>5 DEF Unwinds, Keeps
  <2>2. begun.lines \in Seq(JsLine)
    BY <2>1, StateParts
  <2> QED
    BY <1>1, <1>5, <2>1, <2>2
<1>8. x \in JsLine /\ x.items = begun.lines[L].items \o blank \o <<k>>
  <2>1. begun.lines[L].items \in Seq(Nat) /\ blank \in Seq(Nat) /\ <<k>> \in Seq(Nat)
    <3>1. <<>> \in Seq(Nat) /\ <<Blank>> \in Seq(Nat) /\ <<k>> \in Seq(Nat)
      BY DEF Blank
    <3> QED
      BY <1>6, <1>7, <3>1 DEF JsLine
  <2>2. begun.lines[L].items \o blank \o <<k>> \in Seq(Nat)
    BY <2>1
  <2> DEFINE y == begun.lines[L].items \o blank \o <<k>>
  <2> HIDE DEF y
  <2>3. [begun.lines[L] EXCEPT !.items = y] \in JsLine /\ [begun.lines[L] EXCEPT !.items = y].items = y
    BY <1>7, <2>2 DEF JsLine, y
  <2> QED
    BY <2>3 DEF y
<1> HIDE DEF x
<1>9. /\ m \in Seq(JsLine) /\ Len(m) = L /\ m[L] = x
      /\ \A i \in 1 .. L : i # L => m[i] = begun.lines[i]
  BY <1>1, <1>5, <1>7, <1>8, LastLinePut
<1> HIDE DEF m
<1>10. Form(m, k) /\ Stays(begun.lines, m)
  <2>1. Form(begun.lines, k - 1)
    BY <1>7 DEF Good
  <2> HIDE DEF L
  <2> QED
    BY <1>1, <1>5, <1>6, <1>7, <1>8, <1>9, <2>1, TokenBehind
<1>11. Unwinds(begun, r, k) /\ r.lines = m
  <2>1. Len(m) >= 1 /\ Settled(begun.lines, m)
    <3> HIDE DEF L
    <3>1. /\ L \in Nat /\ L >= 1 /\ DOMAIN begun.lines = 1 .. L /\ DOMAIN m = 1 .. L /\ Len(m) = L
          /\ \A i \in 1 .. L : i # L => m[i] = begun.lines[i]
      BY <1>1, <1>5, <1>7, <1>9
    <3> QED
      BY <3>1 DEF Settled
  <2> QED
    BY <1>7, <1>9, <1>10, <2>1, LinesPut
<1>12. Good(r, k)
  BY <1>11 DEF Unwinds, Keeps
<1> HIDE DEF r
<1>13. Unwinds(r, NoSpace(r), k) /\ NoSpace(r).lines = r.lines
  <2>1. TRUE \in BOOLEAN
    OBVIOUS
  <2> QED
    BY <1>12, <2>1, FieldsPut
<1>14. Unwinds(q, r, k)
  BY <1>1, <1>5, <1>11, UnwindsTwice
<1>15. Unwinds(q, NoSpace(r), k)
  BY <1>13, <1>14, UnwindsTwice
<1>16. NoSpace(r).lines = m /\ Len(m) = L /\ m[L].items = q.lines[L].items \o blank \o <<k>>
  BY <1>5, <1>8, <1>9, <1>11, <1>13
<1> QED
  BY <1>3, <1>6, <1>15, <1>16

\* A set of numbers with a bound has a greatest one.
LEMMA GreatestNumber ==
    ASSUME NEW S, S \subseteq Nat, S # {}, NEW b \in Nat, \A m \in S : m <= b
    PROVE  Max(S) \in S /\ \A m \in S : m <= Max(S)
<1> DEFINE U == {x \in Nat : \A m \in S : m <= x}
<1>1. PICK u \in U : \A x \in U : u <= x
  BY LeastNumber, U \subseteq Nat, b \in U
<1>2. u \in S
  <2> SUFFICES ASSUME u \notin S PROVE FALSE
    OBVIOUS
  <2>1. \A m \in S : m \in Nat /\ m <= u /\ m # u
    BY <1>1
  <2>2. u \in Nat /\ u > 0
    <3>1. PICK m \in S : TRUE
      OBVIOUS
    <3>2. m \in Nat /\ m <= u /\ m # u /\ u \in Nat
      BY <1>1, <2>1, <3>1
    <3> QED
      BY <3>2
  <2>3. u - 1 \in U
    BY <2>1, <2>2
  <2> QED
    BY <1>1, <2>2, <2>3
<1>3. \A y \in S : u >= y
  BY <1>1
<1>4. Max(S) \in S /\ \A y \in S : Max(S) >= y
  BY <1>2, <1>3 DEF Max
<1> HIDE DEF U
<1> QED
  BY <1>4

\* trim.
LEMMA JsTrimIs ==
    ASSUME NEW q, NEW n \in Nat, Good(q, n)
    PROVE  /\ Retains(q, JsTrim(q), n) /\ JsTrim(q).flags = q.flags
           /\ Last(JsTrim(q).lines).items # <<>> \/ Len(JsTrim(q).lines) = 1
<1> DEFINE trimmed(line) == IF line.items # <<>> /\ Last(line.items) = Blank
                            THEN [line EXCEPT !.items = Front(@)] ELSE line
           kept == {i \in DOMAIN q.lines : i = 1 \/ trimmed(q.lines[i]).items # <<>>}
           K == Max(kept)
           a == SubSeq(q.lines, 1, K - 1)
           l == Append(a, trimmed(q.lines[K]))
<1>1. JsTrim(q) = [q EXCEPT !.lines = l]
  BY DEF JsTrim
<1>2. q.lines \in Seq(JsLine) /\ Len(q.lines) \in Nat /\ Len(q.lines) >= 1 /\ DOMAIN q.lines = 1 .. Len(q.lines)
  BY StateParts
<1>3. ASSUME NEW line \in JsLine
      PROVE  /\ trimmed(line) \in JsLine /\ Len(trimmed(line).items) \in Nat /\ Len(line.items) \in Nat
             /\ Len(trimmed(line).items) <= Len(line.items)
             /\ \A c \in 1 .. Len(trimmed(line).items) : trimmed(line).items[c] = line.items[c]
             /\ \A c \in Len(trimmed(line).items) + 1 .. Len(line.items) : line.items[c] = Blank
             /\ trimmed(line).items = <<>> => Len(trimmed(line).items) = 0
  <2>1. line.items \in Seq(Nat) /\ Len(line.items) \in Nat
    BY DEF JsLine
  <2>2. CASE line.items # <<>> /\ Last(line.items) = Blank
    <3> DEFINE o == line.items
               g == SubSeq(o, 1, Len(o) - 1)
    <3>1. Len(o) >= 1 /\ o[Len(o)] = Blank /\ Len(o) - 1 \in 0 .. Len(o)
      <4>1. Len(o) # 0
        BY <2>1, <2>2
      <4> QED
        BY <2>1, <2>2, <4>1 DEF Last
    <3>2. g \in Seq(Nat) /\ Len(g) = Len(o) - 1 /\ \A c \in 1 .. Len(o) - 1 : g[c] = o[c]
      BY <2>1, <3>1, CutSeq
    <3>3. trimmed(line) = [line EXCEPT !.items = g]
      BY <2>2 DEF Front
    <3> HIDE DEF g
    <3>4. [line EXCEPT !.items = g] \in JsLine /\ [line EXCEPT !.items = g].items = g
      BY <3>2 DEF JsLine
    <3>5. trimmed(line) \in JsLine /\ trimmed(line).items = g
      BY <3>3, <3>4
    <3> HIDE DEF trimmed
    <3>6. \A c \in Len(g) + 1 .. Len(o) : c = Len(o)
      BY <2>1, <3>1, <3>2
    <3>7. Len(g) \in Nat /\ Len(g) <= Len(o)
      BY <2>1, <3>1, <3>2
    <3>8. g = <<>> => Len(g) = 0
      OBVIOUS
    <3> QED
      BY <2>1, <3>1, <3>2, <3>5, <3>6, <3>7, <3>8
  <2>3. CASE ~(line.items # <<>> /\ Last(line.items) = Blank)
    <3>1. trimmed(line) = line
      BY <2>3
    <3> HIDE DEF trimmed
    <3>2. line.items = <<>> => Len(line.items) = 0
      OBVIOUS
    <3> QED
      BY <2>1, <3>1, <3>2
  <2> QED
    BY <2>2, <2>3
<1> HIDE DEF trimmed
<1>4. K \in kept /\ (\A i \in kept : i <= K) /\ (K = 1 \/ trimmed(q.lines[K]).items # <<>>)
  <2>1. kept \subseteq Nat /\ 1 \in kept /\ \A i \in kept : i <= Len(q.lines)
    BY <1>2
  <2>0. \A i \in kept : i = 1 \/ trimmed(q.lines[i]).items # <<>>
    OBVIOUS
  <2> HIDE DEF kept
  <2>2. kept # {} /\ Len(q.lines) \in Nat
    BY <1>2, <2>1
  <2>3. Max(kept) \in kept /\ \A m \in kept : m <= Max(kept)
    BY <2>1, <2>2, GreatestNumber
  <2> QED
    BY <2>0, <2>3
<1>5. K \in 1 .. Len(q.lines) /\ q.lines[K] \in JsLine /\ K - 1 \in 0 .. Len(q.lines) /\ K \in Nat
  <2>1. kept \subseteq 1 .. Len(q.lines)
    BY <1>2
  <2> HIDE DEF K, kept
  <2>2. K \in 1 .. Len(q.lines)
    BY <1>4, <2>1
  <2> QED
    BY <1>2, <2>2
<1>6. \A i \in K + 1 .. Len(q.lines) : q.lines[i] \in JsLine /\ trimmed(q.lines[i]).items = <<>>
  <2> SUFFICES ASSUME NEW i \in K + 1 .. Len(q.lines) PROVE q.lines[i] \in JsLine /\ trimmed(q.lines[i]).items = <<>>
    OBVIOUS
  <2>1. i \in 1 .. Len(q.lines) /\ i > K /\ i # 1
    BY <1>2, <1>5
  <2>2. i \notin kept
    <3> HIDE DEF K, kept
    <3> QED
      BY <1>4, <1>5, <2>1
  <2> QED
    BY <1>2, <2>1, <2>2
<1> HIDE DEF K, kept
<1>7. a \in Seq(JsLine) /\ Len(a) = K - 1 /\ \A i \in 1 .. K - 1 : a[i] = q.lines[i]
  BY <1>2, <1>5, CutSeq
<1> HIDE DEF a
<1>8. trimmed(q.lines[K]) \in JsLine
  BY <1>3, <1>5
<1>9. l \in Seq(JsLine) /\ Len(l) = K /\ l[K] = trimmed(q.lines[K]) /\ \A i \in 1 .. K - 1 : l[i] = q.lines[i]
  <2>1. l \in Seq(JsLine) /\ Len(l) = Len(a) + 1 /\ l[Len(a) + 1] = trimmed(q.lines[K])
        /\ \A i \in 1 .. Len(a) : l[i] = a[i]
    BY <1>7, <1>8, AppendProperties
  <2>2. Len(a) + 1 = K
    BY <1>5, <1>7
  <2> HIDE DEF l
  <2> QED
    BY <1>7, <2>1, <2>2
<1> HIDE DEF l
<1>10. SameTokens(q.lines, l, K)
  <2>1. K <= Len(q.lines) /\ K <= Len(l)
    BY <1>2, <1>5, <1>9
  <2>2. ASSUME NEW i \in 1 .. K
        PROVE  /\ Len(l[i].items) <= Len(q.lines[i].items)
               /\ \A c \in 1 .. Len(l[i].items) : l[i].items[c] = q.lines[i].items[c]
               /\ \A c \in Len(l[i].items) + 1 .. Len(q.lines[i].items) : q.lines[i].items[c] = Blank
    <3>1. CASE i = K
      BY <1>3, <1>5, <1>9, <3>1
    <3>2. CASE i # K
      <4>1. l[i] = q.lines[i] /\ i \in 1 .. Len(q.lines)
        BY <1>2, <1>5, <1>9, <3>2
      <4>2. Len(q.lines[i].items) \in Nat
        BY <1>2, <4>1, LinePart
      <4> QED
        BY <4>1, <4>2
    <3> QED
      BY <3>1, <3>2
  <2>3. ASSUME NEW i \in K + 1 .. Len(q.lines), NEW c \in 1 .. Len(q.lines[i].items)
        PROVE  q.lines[i].items[c] = Blank
    <3>1. q.lines[i] \in JsLine /\ Len(trimmed(q.lines[i]).items) = 0
      BY <1>3, <1>6
    <3>2. c \in 0 + 1 .. Len(q.lines[i].items)
      OBVIOUS
    <3> QED
      BY <1>3, <3>1, <3>2
  <2>4. \A i \in K + 1 .. Len(l) : Len(l[i].items) = 0
    BY <1>5, <1>9
  <2> QED
    BY <2>1, <2>2, <2>3, <2>4 DEF SameTokens
<1>11. Form(l, n) /\ Stays(q.lines, l)
  BY <1>2, <1>5, <1>9, <1>10, SamePrints DEF Good
<1>12. Len(l) >= 1
  BY <1>5, <1>9
<1>13. Retains(q, JsTrim(q), n) /\ JsTrim(q).flags = q.flags /\ JsTrim(q).lines = l
  BY <1>1, <1>9, <1>11, <1>12, LinesPut DEF Retains
<1>14. Last(l).items # <<>> \/ Len(l) = 1
  BY <1>4, <1>9 DEF Last
<1> QED
  BY <1>13, <1>14

\* Nothing done unwinds.
LEMMA UnwindsSelf ==
    ASSUME NEW q, NEW n, Good(q, n)
    PROVE  Unwinds(q, q, n)
<1>1. Len(q.flags) \in Nat
  BY StateParts
<1> QED
  BY <1>1, FollowsSame DEF Unwinds, Keeps

\* What unwinds keeps the brackets.
LEMMA GoodKept ==
    ASSUME NEW q, NEW r, NEW n, Unwinds(q, r, n)
    PROVE  Good(r, n) /\ Keeps(q, r, n)
  BY DEF Unwinds, Keeps

\* Where a bracket is the top, it stays so.
LEMMA ClosedStays ==
    ASSUME NEW q, NEW r, NEW a, NEW n, Good(q, a), Unwinds(q, r, n), Flags(q).mode # "Statement"
    PROVE  Flags(r).mode # "Statement" /\ Len(r.flags) = Len(q.flags)
<1>1. /\ Len(q.flags) \in Nat /\ DOMAIN q.flags = 1 .. Len(q.flags) /\ Len(q.flags) >= 2
      /\ Flags(q) = q.flags[Len(q.flags)]
  BY StateParts
<1>2. Good(r, n)
  BY GoodKept
<1>3. /\ Len(r.flags) \in Nat /\ DOMAIN r.flags = 1 .. Len(r.flags) /\ Len(r.flags) >= 2
      /\ Flags(r) = r.flags[Len(r.flags)]
  BY <1>2, StateParts
<1>4. Len(q.flags) \in Opened(r) /\ Len(r.flags) <= Len(q.flags)
  <2>1. Len(q.flags) \in Opened(q)
    BY <1>1 DEF Opened
  <2> QED
    BY <2>1 DEF Unwinds, Keeps
<1> QED
  BY <1>1, <1>3, <1>4 DEF Opened

\* restore_mode.
LEMMA RestoreModeIs ==
    ASSUME NEW q, NEW n \in Nat, Good(q, n)
    PROVE  LET r == RestoreMode(q) IN
           /\ Len(q.flags) = 2 => r = q
           /\ Flags(q).mode = "Statement" => Unwinds(q, r, n) /\ Len(r.flags) = Len(q.flags) - 1
           /\ Len(q.flags) > 2 /\ Flags(q).mode # "Statement" =>
                  /\ Good(r, n) /\ Opened(r) = Opened(q) \ {Len(q.flags)} /\ Follows(q, r)
                  /\ Len(r.flags) = Len(q.flags) - 1
<1>1. /\ q.flags \in Seq(JsFrame) /\ Len(q.flags) \in Nat /\ DOMAIN q.flags = 1 .. Len(q.flags)
      /\ Len(q.flags) >= 2 /\ Flags(q) = q.flags[Len(q.flags)] /\ Flags(q) \in JsFrame
  BY StateParts
<1>2. CASE Len(q.flags) = 2
  <2>1. RestoreMode(q) = q
    BY <1>2 DEF RestoreMode
  <2>2. Flags(q).mode # "Statement"
    BY <1>1, <1>2 DEF Good
  <2> QED
    BY <1>2, <2>1, <2>2
<1>3. CASE Len(q.flags) # 2
  <2> DEFINE g == SubSeq(q.flags, 1, Len(q.flags) - 1)
             p == [q EXCEPT !.flags = g, !.previous = Flags(q)]
  <2>1. RestoreMode(q) = IF Flags(q).mode = "Statement" THEN RemoveRedundantIndentation(p, Flags(q)) ELSE p
    <3> DEFINE o == [q EXCEPT !.flags = Front(@), !.previous = Flags(q)]
    <3>1. RestoreMode(q) = IF Flags(q).mode = "Statement" THEN RemoveRedundantIndentation(o, Flags(q)) ELSE o
      BY <1>3 DEF RestoreMode
    <3>2. o = p
      BY DEF Front
    <3> HIDE DEF o, p
    <3> QED
      BY <3>1, <3>2
  <2>2. Len(q.flags) - 1 \in 0 .. Len(q.flags) /\ Len(q.flags) - 1 >= 2
    <3> DEFINE L == Len(q.flags)
    <3>1. L \in Nat /\ L >= 2 /\ L # 2
      BY <1>1, <1>3
    <3> HIDE DEF L
    <3>2. L - 1 \in 0 .. L /\ L - 1 >= 2
      BY <3>1
    <3> QED
      BY <3>2 DEF L
  <2>3. g \in Seq(JsFrame) /\ Len(g) = Len(q.flags) - 1 /\ \A i \in 1 .. Len(q.flags) - 1 : g[i] = q.flags[i]
    BY <1>1, <2>2, CutSeq
  <2> HIDE DEF g
  <2>4. /\ p \in JsState /\ p.flags = g /\ p.lines = q.lines /\ p.token = q.token
        /\ p.last_type = q.last_type
    BY <1>1, <2>3 DEF Good, JsState
  <2> HIDE DEF p
  <2>10. Follows(q, p)
    BY <2>4, FollowsSame
  <2>5. Good(p, n)
    <3>1. g[1] = q.flags[1] /\ g[2] = q.flags[2]
      BY <1>1, <2>2, <2>3
    <3> QED
      BY <2>2, <2>3, <2>4, <3>1 DEF Good
  <2>6. Opened(p) = {i \in 1 .. Len(q.flags) - 1 : q.flags[i].mode # "Statement"}
    BY <2>3, <2>4 DEF Opened
  <2>7. Opened(p) = Opened(q) \ {Len(q.flags)}
    <3>1. 1 .. Len(q.flags) - 1 = (1 .. Len(q.flags)) \ {Len(q.flags)}
      BY <1>1
    <3> QED
      BY <1>1, <2>6, <3>1 DEF Opened
  <2>8. CASE Flags(q).mode = "Statement"
    <3>1. Opened(p) = Opened(q)
      BY <1>1, <2>7, <2>8 DEF Opened
    <3>2. Unwinds(q, p, n) /\ Len(p.flags) = Len(q.flags) - 1
      BY <1>1, <2>3, <2>4, <2>5, <2>10, <3>1 DEF Unwinds, Keeps
    <3>3. Unwinds(p, RestoreMode(q), n) /\ RestoreMode(q).flags = p.flags
      BY <1>1, <2>1, <2>5, <2>8, RemoveIs
    <3>4. Unwinds(q, RestoreMode(q), n)
      BY <3>2, <3>3, UnwindsTwice
    <3> QED
      BY <2>8, <3>2, <3>3, <3>4, <1>3
  <2>9. CASE Flags(q).mode # "Statement"
    <3>1. RestoreMode(q) = p
      BY <2>1, <2>9
    <3> QED
      BY <1>3, <2>3, <2>4, <2>5, <2>7, <2>9, <2>10, <3>1
  <2> QED
    BY <2>8, <2>9
<1> QED
  BY <1>2, <1>3

\* A statement on top ends, and a bracket stays.
LEMMA CloseTopIs ==
    ASSUME NEW q, NEW n \in Nat, Good(q, n), NEW simple \in BOOLEAN
    PROVE  /\ Unwinds(q, CloseTop(q, simple), n)
           /\ Flags(q).mode # "Statement" => CloseTop(q, simple) = q
           /\ Flags(q).mode = "Statement" /\ ~simple => Len(CloseTop(q, simple).flags) = Len(q.flags) - 1
<1>1. Unwinds(q, q, n)
  BY UnwindsSelf
<1>2. CASE Flags(q).mode = "Statement"
  <2>1. Unwinds(q, RestoreMode(q), n) /\ Len(RestoreMode(q).flags) = Len(q.flags) - 1
    BY <1>2, RestoreModeIs
  <2> QED
    BY <1>1, <1>2, <2>1 DEF CloseTop
<1>3. CASE Flags(q).mode # "Statement"
  BY <1>1, <1>3 DEF CloseTop
<1> QED
  BY <1>2, <1>3

CloseIs(f, q, simple, m) ==
    f = [n \in 0 .. m |-> IF n = 0 THEN q ELSE CloseTop(f[n - 1], simple)]

\* The statements on top end one after the other.
LEMMA CloseWhileIs ==
    ASSUME NEW q, NEW simple, Len(q.flags) \in Nat
    PROVE  \E f : CloseIs(f, q, simple, Len(q.flags)) /\ CloseWhile(q, simple) = f[Len(q.flags)]
<1> DEFINE Bad == {k \in Nat : ~\E f : CloseIs(f, q, simple, k)}
<1>1. Bad = {}
  <2> SUFFICES ASSUME Bad # {} PROVE FALSE
    OBVIOUS
  <2>1. PICK k \in Bad : \A j \in Bad : k <= j
    BY LeastNumber, Bad \subseteq Nat
  <2>2. k # 0
    <3> DEFINE g == [n \in 0 .. 0 |-> q]
    <3>1. CloseIs(g, q, simple, 0)
      BY DEF CloseIs
    <3> QED
      BY <3>1, <2>1
  <2>3. k - 1 \in Nat /\ k - 1 \notin Bad
    BY <2>1, <2>2
  <2>4. PICK f : CloseIs(f, q, simple, k - 1)
    BY <2>3
  <2> DEFINE g == [n \in 0 .. k |-> IF n = k THEN CloseTop(f[k - 1], simple) ELSE f[n]]
  <2>5. CloseIs(g, q, simple, k)
    BY <2>1, <2>2, <2>3, <2>4 DEF CloseIs
  <2> QED
    BY <2>5, <2>1
<1> DEFINE c == CHOOSE f : f = [n \in 0 .. Len(q.flags) |-> IF n = 0 THEN q ELSE CloseTop(f[n - 1], simple)]
<1>2. CloseIs(c, q, simple, Len(q.flags))
  BY <1>1 DEF CloseIs
<1>3. CloseWhile(q, simple) = c[Len(q.flags)]
  BY DEF CloseWhile
<1> QED
  BY <1>2, <1>3

\* So the brackets stay, and behind the last statement one is on top.
LEMMA CloseUnwinds ==
    ASSUME NEW q, NEW n \in Nat, Good(q, n), NEW simple \in BOOLEAN
    PROVE  /\ Unwinds(q, CloseWhile(q, simple), n)
           /\ ~simple => Flags(CloseWhile(q, simple)).mode # "Statement"
<1> DEFINE L == Len(q.flags)
<1>1. L \in Nat /\ L >= 2
  BY StateParts
<1>2. PICK f : CloseIs(f, q, simple, L) /\ CloseWhile(q, simple) = f[L]
  BY <1>1, CloseWhileIs
<1> HIDE DEF L
<1>3. f[0] = q /\ \A k \in 1 .. L : f[k] = CloseTop(f[k - 1], simple)
  BY <1>1, <1>2 DEF CloseIs
<1> DEFINE Right(k) == /\ Unwinds(q, f[k], n)
                       /\ ~simple => Flags(f[k]).mode # "Statement" \/ Len(f[k].flags) = L - k
           Bad == {k \in 0 .. L : ~Right(k)}
<1>4. Bad = {}
  <2> SUFFICES ASSUME Bad # {} PROVE FALSE
    OBVIOUS
  <2>1. PICK k \in Bad : \A j \in Bad : k <= j
    BY <1>1, LeastNumber, Bad \subseteq Nat
  <2>2. k # 0
    <3>1. Unwinds(q, f[0], n) /\ Len(f[0].flags) = L - 0
      BY <1>1, <1>3, UnwindsSelf DEF L
    <3>2. Right(0)
      BY <3>1
    <3>3. 0 \notin Bad
      BY <3>2
    <3> HIDE DEF Bad
    <3> QED
      BY <2>1, <3>3
  <2>3. k - 1 \in 0 .. L /\ k \in 1 .. L /\ k - 1 \notin Bad
    <3>1. k \in 0 .. L
      OBVIOUS
    <3> HIDE DEF Bad
    <3>2. k - 1 \in 0 .. L /\ k \in 1 .. L /\ ~(k <= k - 1)
      BY <1>1, <2>2, <3>1
    <3> QED
      BY <2>1, <3>2
  <2>4. Right(k - 1) /\ f[k] = CloseTop(f[k - 1], simple)
    BY <1>3, <2>3
  <2> DEFINE p == f[k - 1]
  <2>5. Good(p, n)
    BY <2>4, GoodKept
  <2>6. /\ Unwinds(p, f[k], n)
        /\ Flags(p).mode # "Statement" => f[k] = p
        /\ Flags(p).mode = "Statement" /\ ~simple => Len(f[k].flags) = Len(p.flags) - 1
    BY <2>4, <2>5, CloseTopIs
  <2>7. Unwinds(q, f[k], n)
    BY <2>4, <2>6, UnwindsTwice
  <2>8. ~simple => Flags(f[k]).mode # "Statement" \/ Len(f[k].flags) = L - k
    <3>1. L - k = (L - (k - 1)) - 1
      BY <1>1, <2>3
    <3> QED
      BY <2>4, <2>6, <3>1
  <2> QED
    BY <2>1, <2>7, <2>8
<1>5. Right(L)
  <2>1. L \in 0 .. L
    BY <1>1
  <2> QED
    BY <1>4, <2>1
<1>6. Len(f[L].flags) >= 2
  BY <1>5, GoodKept, StateParts
<1>7. L - L = 0
  BY <1>1
<1> QED
  BY <1>2, <1>5, <1>6, <1>7

\* All statements on top end.
LEMMA CloseStatementsIs ==
    ASSUME NEW q, NEW n \in Nat, Good(q, n)
    PROVE  Unwinds(q, CloseStatements(q), n) /\ Flags(CloseStatements(q)).mode # "Statement"
<1>1. FALSE \in BOOLEAN
  OBVIOUS
<1> QED
  BY <1>1, CloseUnwinds DEF CloseStatements

\* The statements of no if and no do end.
LEMMA CloseSimpleIs ==
    ASSUME NEW q, NEW n \in Nat, Good(q, n)
    PROVE  Unwinds(q, CloseSimple(q), n)
<1>1. TRUE \in BOOLEAN
  OBVIOUS
<1> QED
  BY <1>1, CloseUnwinds DEF CloseSimple

\* print_newline, and what is printed for the newlines of the source.
LEMMA NewlinesAre ==
    ASSUME NEW q, NEW n \in Nat, Good(q, n), NEW force, NEW m
    PROVE  /\ Unwinds(q, JsPrintNewline(q, force), n)
           /\ Unwinds(q, NewlineInStatement(q), n)
           /\ Unwinds(q, AllowNewline(q, m, force), n)
           /\ Unwinds(q, PreserveNewline(q, m), n)
<1>1. Unwinds(q, NewlineInStatement(q), n)
  BY AddNewLineIs DEF NewlineInStatement
<1>2. Unwinds(q, q, n)
  BY UnwindsSelf
<1>3. \A x : Unwinds(q, AllowNewline(q, m, x), n)
  BY <1>1, <1>2 DEF AllowNewline
<1>4. Unwinds(q, PreserveNewline(q, m), n)
  BY <1>2, <1>3 DEF PreserveNewline
<1>5. Unwinds(q, JsPrintNewline(q, force), n)
  <2> DEFINE c == Flags(q).last_text \notin {"semicolon", "comma", "="} /\ q.last_type # "OPERATOR"
             p == IF c THEN CloseSimple(q) ELSE q
  <2>1. JsPrintNewline(q, force) = AddNewLine(p, force)
    BY DEF JsPrintNewline
  <2>2. Unwinds(q, p, n)
    BY <1>2, CloseSimpleIs
  <2> HIDE DEF p
  <2>3. Unwinds(p, AddNewLine(p, force), n)
    BY <2>2, GoodKept, AddNewLineIs
  <2> QED
    BY <2>1, <2>2, <2>3, UnwindsTwice
<1> QED
  BY <1>1, <1>3, <1>4, <1>5

\* indent and deindent.
LEMMA IndentsAre ==
    ASSUME NEW q, NEW n \in Nat, Good(q, n)
    PROVE  Unwinds(q, Indent(q), n) /\ Unwinds(q, Deindent(q), n)
<1>1. Flags(q) \in JsFrame /\ Parent(q) \in JsFrame
  BY StateParts
<1>2. Flags(q).indentation_level \in Nat /\ Parent(q).indentation_level \in Nat
  BY <1>1 DEF JsFrame
<1> DEFINE up == [Flags(q) EXCEPT !.indentation_level = Flags(q).indentation_level + 1]
           down == [Flags(q) EXCEPT !.indentation_level = Flags(q).indentation_level - 1]
<1>3. Unwinds(q, SetFlag(q, up), n)
  <2>1. Flags(q).indentation_level + 1 \in Nat
    BY <1>2
  <2>2. up \in JsFrame /\ up.mode = Flags(q).mode
    BY <1>1, <2>1, FrameNumber
  <2> QED
    BY <2>2, SetFlagIs
<1>4. CASE Flags(q).indentation_level > Parent(q).indentation_level
  <2>1. Flags(q).indentation_level - 1 \in Nat
    BY <1>2, <1>4
  <2>2. down \in JsFrame /\ down.mode = Flags(q).mode
    BY <1>1, <2>1, FrameNumber
  <2>3. Unwinds(q, SetFlag(q, down), n)
    BY <2>2, SetFlagIs
  <2> QED
    BY <1>3, <1>4, <2>3 DEF Indent, Deindent
<1>5. CASE ~(Flags(q).indentation_level > Parent(q).indentation_level)
  BY <1>3, <1>5, UnwindsSelf DEF Indent, Deindent
<1> QED
  BY <1>4, <1>5

\* set_mode.
LEMMA SetModeIs ==
    ASSUME NEW q, NEW n \in Nat, Good(q, n), NEW mode \in JsMode
    PROVE  LET r == SetMode(q, mode) IN
           /\ Good(r, n) /\ r.token = q.token /\ r.lines = q.lines /\ r.last_type = q.last_type
           /\ Len(r.flags) = Len(q.flags) + 1 /\ Flags(r).mode = mode
           /\ Opened(r) = IF mode = "Statement" THEN Opened(q) ELSE Opened(q) \cup {Len(q.flags) + 1}
<1> DEFINE top == Flags(q)
           level == IF ~JustAddedNewline(q) /\ top.line_indent_level > top.indentation_level
                    THEN top.line_indent_level ELSE top.indentation_level
           f == [NewFlags EXCEPT !.mode = mode, !.last_text = top.last_text, !.last_word = top.last_word,
                       !.indentation_level = level, !.line_indent_level = top.line_indent_level,
                       !.start_line_index = Len(q.lines)]
           g == Append(q.flags, f)
           L == Len(q.flags)
           r == [q EXCEPT !.previous = top, !.flags = g]
<1>1. /\ q.flags \in Seq(JsFrame) /\ L \in Nat /\ DOMAIN q.flags = 1 .. L /\ L >= 2 /\ top \in JsFrame
      /\ Len(q.lines) \in Nat
  BY StateParts
<1>2. SetMode(q, mode) = r
  BY DEF SetMode
<1>3. f \in JsFrame /\ f.mode = mode
  <2>1. /\ top.last_text \in JsText /\ top.last_word \in JsText
        /\ top.line_indent_level \in Nat /\ top.indentation_level \in Nat
    BY <1>1 DEF JsFrame
  <2>2. level \in Nat
    BY <2>1
  <2> HIDE DEF top, level
  <2>3. NewFlags \in JsFrame /\ Len(q.lines) \in Nat
    BY <1>1, NewFrame
  <2> HIDE DEF L
  <2> DEFINE h == NewFlags
             x == top.last_text
             y == top.last_word
             i == top.line_indent_level
             m == Len(q.lines)
  <2>4. h \in JsFrame /\ x \in JsText /\ y \in JsText /\ i \in Nat /\ m \in Nat
    BY <2>1, <2>3
  <2>5. f = [h EXCEPT !.mode = mode, !.last_text = x, !.last_word = y, !.indentation_level = level,
                      !.line_indent_level = i, !.start_line_index = m]
    OBVIOUS
  <2> HIDE DEF h, x, y, i, m, f
  <2>6. f \in JsFrame
    BY <2>2, <2>4, <2>5 DEF JsFrame
  <2>7. f.mode = mode
    BY <2>2, <2>4, <2>5 DEF JsFrame
  <2> QED
    BY <2>6, <2>7
<1> HIDE DEF f
<1>4. g \in Seq(JsFrame) /\ Len(g) = L + 1 /\ g[L + 1] = f /\ (\A i \in 1 .. L : g[i] = q.flags[i])
      /\ DOMAIN g = 1 .. L + 1
  BY <1>1, <1>3, AppendProperties
<1> HIDE DEF g, L
<1>5. /\ r \in JsState /\ r.flags = g /\ r.lines = q.lines /\ r.token = q.token /\ r.last_type = q.last_type
  BY <1>1, <1>4 DEF Good, JsState
<1> HIDE DEF r
<1>6. Good(r, n)
  <2>1. g[1] = q.flags[1] /\ g[2] = q.flags[2] /\ L + 1 >= 2
    BY <1>1, <1>4
  <2> QED
    BY <1>4, <1>5, <2>1 DEF Good
<1>7. Opened(r) = IF mode = "Statement" THEN Opened(q) ELSE Opened(q) \cup {L + 1}
  <2>1. DOMAIN g = DOMAIN q.flags \cup {L + 1} /\ L + 1 \notin DOMAIN q.flags
    BY <1>1, <1>4
  <2>2. \A i \in DOMAIN q.flags : g[i] = q.flags[i]
    BY <1>1, <1>4
  <2>3. g[L + 1].mode = mode
    BY <1>3, <1>4
  <2> QED
    BY <1>5, <2>1, <2>2, <2>3 DEF Opened
<1>8. Flags(r) = f
  BY <1>1, <1>4, <1>5 DEF Flags, Last
<1> QED
  BY <1>2, <1>3, <1>4, <1>5, <1>6, <1>7, <1>8 DEF L

\* What unwinds behind what keeps the brackets keeps them.
LEMMA KeptFromUnwound ==
    ASSUME NEW q, NEW r, NEW s, NEW n, NEW m, Keeps(q, r, n), Unwinds(r, s, m)
    PROVE  Keeps(q, s, m)
  BY FollowsTwice DEF Unwinds, Keeps

\* What keeps the brackets keeps the shape.
LEMMA KeepsGood ==
    ASSUME NEW q, NEW r, NEW n, Keeps(q, r, n)
    PROVE  Good(r, n)
  BY DEF Keeps

\* Nothing done keeps the brackets.
LEMMA KeepsSelf ==
    ASSUME NEW q, NEW n, Good(q, n)
    PROVE  Keeps(q, q, n)
  BY FollowsSame DEF Keeps

\* start_of_statement: a statement is begun, or nothing is.
LEMMA StartOfStatementIs ==
    ASSUME NEW q, NEW n \in Nat, Good(q, n), NEW k
    PROVE  Keeps(q, StartOfStatement(q, k), n)
<1>1. CASE ~StartsStatement(q, k)
  BY <1>1, KeepsSelf DEF StartOfStatement
<1>2. CASE StartsStatement(q, k)
  <2> DEFINE a == SetMode(q, "Statement")
             p == Indent(a)
             f == [Flags(p) EXCEPT !.declaration_statement = TRUE]
             c == After(q, {"var"}) /\ TokenType(q) = "WORD"
             r == IF c THEN SetFlag(p, f) ELSE p
             force == q.token \in {"do", "for", "if", "while"}
             s == AllowNewline(r, k, force)
  <2>1. StartOfStatement(q, k) = IF StartOfObjectProperty(r) THEN r ELSE s
    BY <1>2 DEF StartOfStatement
  <2> HIDE DEF c, force
  <2>2. Keeps(q, a, n)
    <3>1. "Statement" \in JsMode
      BY DEF JsMode
    <3> QED
      BY <3>1, SetModeIs, FollowsSame DEF Keeps
  <2> HIDE DEF a
  <2>3. Unwinds(a, p, n)
    BY <2>2, KeepsGood, IndentsAre
  <2> HIDE DEF p
  <2>4. Keeps(q, p, n) /\ Good(p, n)
    BY <2>2, <2>3, KeptFromUnwound, KeepsGood
  <2>5. Keeps(q, r, n)
    <3>1. Flags(p) \in JsFrame /\ TRUE \in BOOLEAN
      BY <2>4, StateParts
    <3>2. f \in JsFrame /\ f.mode = Flags(p).mode
      BY <3>1, FrameSet
    <3> HIDE DEF f
    <3>3. Unwinds(p, SetFlag(p, f), n)
      BY <2>4, <3>2, SetFlagIs
    <3> QED
      BY <2>4, <3>3, KeptFromUnwound
  <2> HIDE DEF r
  <2>6. Unwinds(r, s, n)
    BY <2>5, KeepsGood, NewlinesAre
  <2> HIDE DEF s
  <2>7. Keeps(q, s, n)
    BY <2>5, <2>6, KeptFromUnwound
  <2> QED
    BY <2>1, <2>5, <2>7
<1> QED
  BY <1>1, <1>2

\* A bracket that is open.
Opens(q, r, n) ==
    /\ Good(r, n) /\ Follows(q, r)
    /\ \E m \in Nat : m \notin Opened(q) /\ Opened(r) = Opened(q) \cup {m}

\* handle_start_expr
LEMMA StartExprIs ==
    ASSUME NEW q, NEW k \in Nat, k >= 1, Good(q, k - 1)
    PROVE  Opens(q, HandleStartExpr(q, k), k)
<1> DEFINE n == k - 1
           s == StartOfStatement(q, k)
           text == Flags(s).last_text
           index == q.token = "[" /\ (q.last_type = "WORD" \/ text = ")")
           mode == IF index THEN "Expression"
                   ELSE IF q.token = "[" THEN "ArrayLiteral"
                   ELSE IF After(s, {"for"}) THEN "ForInitializer"
                   ELSE IF After(s, {"if", "while"}) THEN "Conditional"
                   ELSE "Expression"
           inArray == /\ q.token = "[" /\ Flags(s).mode = "ArrayLiteral"
                      /\ text = "[" \/ (text = "comma" /\ q.last_last_text \in {"]", "close"})
           a == IF inArray THEN JsPrintNewline(s, FALSE) ELSE s
           before == Flags(a).last_text
           b == IF before = "semicolon" \/ q.last_type = "START_BLOCK" THEN JsPrintNewline(a, FALSE)
                ELSE IF q.last_type \in {"END_EXPR", "START_EXPR", "END_BLOCK"} \/ before = "."
                THEN AllowNewline(a, k, FALSE)
                ELSE IF q.last_type \notin {"WORD", "OPERATOR"} /\ ~(q.last_type = "RESERVED" /\ q.token = "(")
                THEN Space(a)
                ELSE IF q.last_type = "RESERVED" /\ Flags(a).last_word = "function" THEN a
                ELSE IF After(a, StatementWords \cup {"catch"}) THEN Space(a)
                ELSE a
           c == IF q.token = "(" /\ q.last_type \in {"EQUALS", "OPERATOR"} THEN PreserveNewline(b, k) ELSE b
           d == IF q.token = "(" /\ q.last_type \notin {"WORD", "RESERVED"}
                THEN AllowNewline(c, k, FALSE) ELSE c
           e == IF index THEN s ELSE d
           m == SetMode(e, mode)
           p == JsPrintToken(m, k)
<1>1. HandleStartExpr(q, k) = Indent(p)
  BY DEF HandleStartExpr
<1>2. n \in Nat
  OBVIOUS
<1>3. mode \in JsMode /\ mode # "Statement"
  <2> HIDE DEF index, s
  <2> QED
    BY DEF JsMode
<1>4. Keeps(q, s, n)
  BY <1>2, StartOfStatementIs
<1> HIDE DEF mode, index, inArray, s
<1>5. Unwinds(s, a, n)
  BY <1>2, <1>4, KeepsGood, UnwindsSelf, NewlinesAre
<1> HIDE DEF a, before
<1>6. Unwinds(a, b, n)
  <2>1. Good(a, n)
    BY <1>5, GoodKept
  <2>2. Unwinds(a, a, n) /\ Unwinds(a, JsPrintNewline(a, FALSE), n) /\ Unwinds(a, AllowNewline(a, k, FALSE), n)
        /\ Unwinds(a, Space(a), n)
    <3>1. TRUE \in BOOLEAN
      OBVIOUS
    <3> QED
      BY <1>2, <2>1, <3>1, UnwindsSelf, NewlinesAre, FieldsPut
  <2> QED
    BY <2>2
<1> HIDE DEF b
<1>7. Unwinds(b, c, n)
  BY <1>2, <1>6, GoodKept, UnwindsSelf, NewlinesAre
<1> HIDE DEF c
<1>8. Unwinds(c, d, n)
  BY <1>2, <1>7, GoodKept, UnwindsSelf, NewlinesAre
<1> HIDE DEF d
<1>9. Keeps(q, d, n)
  BY <1>4, <1>5, <1>6, <1>7, <1>8, KeptFromUnwound
<1>10. Keeps(q, e, n)
  BY <1>4, <1>9
<1> HIDE DEF e, n
<1>11. /\ Good(m, n) /\ Follows(q, m) /\ Opened(m) = Opened(q) \cup {Len(e.flags) + 1}
       /\ Len(e.flags) \in Nat
  <2>1. /\ Good(m, n) /\ Follows(e, m) /\ Opened(m) = Opened(q) \cup {Len(e.flags) + 1}
        /\ Len(e.flags) \in Nat
    BY <1>2, <1>3, <1>10, SetModeIs, StateParts, FollowsSame DEF Keeps
  <2> QED
    BY <1>10, <2>1, FollowsTwice DEF Keeps
<1>12. Len(e.flags) + 1 \notin Opened(q)
  <2>1. Opened(e) = Opened(q) /\ Good(e, n)
    BY <1>10 DEF Keeps
  <2>2. DOMAIN e.flags = 1 .. Len(e.flags)
    BY <2>1, StateParts
  <2> QED
    BY <1>11, <2>1, <2>2 DEF Opened
<1> HIDE DEF m
<1>13. Unwinds(m, p, k)
  BY <1>11, JsPrintTokenIs DEF n
<1> HIDE DEF p
<1>14. Unwinds(p, Indent(p), k)
  BY <1>13, GoodKept, IndentsAre
<1>15. /\ Good(Indent(p), k) /\ Follows(q, Indent(p)) /\ Opened(Indent(p)) = Opened(q) \cup {Len(e.flags) + 1}
  BY <1>11, <1>13, <1>14, FollowsTwice DEF Unwinds, Keeps
<1>16. Len(e.flags) + 1 \in Nat
  BY <1>11
<1> QED
  BY <1>1, <1>12, <1>15, <1>16 DEF Opens

\* A bracket that closes, or closes none.
Closes(q, r, n) ==
    /\ Good(r, n) /\ Follows(q, r)
    /\ \/ Opened(q) = {1, 2} /\ Opened(r) = Opened(q)
       \/ Opened(q) # {1, 2} /\ \E m \in Opened(q) : Opened(r) = Opened(q) \ {m}

\* What unwinds behind a bracket that closes changes no other.
LEMMA ClosesThen ==
    ASSUME NEW q, NEW r, NEW s, NEW n, NEW m, Closes(q, r, n), Unwinds(r, s, m)
    PROVE  Closes(q, s, m)
  BY FollowsTwice DEF Closes, Unwinds, Keeps

\* Where a bracket is on top it is the one that closes, and the script itself stays.
LEMMA BracketCloses ==
    ASSUME NEW q, NEW b, NEW n \in Nat, Good(q, n), Unwinds(q, b, n), Flags(b).mode # "Statement"
    PROVE  Closes(q, RestoreMode(b), n)
<1>1. Good(b, n) /\ Opened(b) = Opened(q) /\ Follows(q, b)
  BY DEF Unwinds, Keeps
<1>2. /\ Len(b.flags) \in Nat /\ DOMAIN b.flags = 1 .. Len(b.flags) /\ Len(b.flags) >= 2
      /\ Flags(b) = b.flags[Len(b.flags)]
  BY <1>1, StateParts
<1>3. CASE Len(b.flags) = 2
  <2>1. RestoreMode(b) = b
    BY <1>1, <1>3, RestoreModeIs
  <2>2. Opened(b) = {1, 2}
    <3>1. DOMAIN b.flags = {1, 2}
      BY <1>2, <1>3
    <3> QED
      BY <1>1, <3>1 DEF Opened, Good
  <2> QED
    BY <1>1, <2>1, <2>2 DEF Closes
<1>4. CASE Len(b.flags) # 2
  <2>1. Len(b.flags) > 2
    <3> DEFINE L == Len(b.flags)
    <3>1. L \in Nat /\ L >= 2 /\ L # 2
      BY <1>2, <1>4
    <3> HIDE DEF L
    <3>2. L > 2
      BY <3>1
    <3> QED
      BY <3>2 DEF L
  <2>2. /\ Good(RestoreMode(b), n) /\ Opened(RestoreMode(b)) = Opened(b) \ {Len(b.flags)}
        /\ Follows(b, RestoreMode(b))
    BY <1>1, <2>1, RestoreModeIs
  <2>3. Len(b.flags) \in Opened(b) /\ Len(b.flags) \notin {1, 2}
    BY <1>2, <2>1 DEF Opened
  <2> QED
    BY <1>1, <2>2, <2>3, FollowsTwice DEF Closes
<1> QED
  BY <1>3, <1>4

\* handle_end_expr
LEMMA EndExprIs ==
    ASSUME NEW q, NEW k \in Nat, k >= 1, Good(q, k - 1)
    PROVE  Closes(q, HandleEndExpr(q, k), k)
<1> DEFINE n == k - 1
           a == CloseStatements(q)
           force == q.token = "]" /\ Flags(a).mode = "ArrayLiteral"
           b == IF Flags(a).multiline_frame THEN AllowNewline(a, k, force) ELSE a
           r == RestoreMode(b)
           c == JsPrintToken(r, k)
           d == RemoveRedundantIndentation(c, c.previous)
           e == [d EXCEPT !.previous.mode = "Expression"]
           f == [Flags(d) EXCEPT !.do_block = FALSE, !.do_while = FALSE]
<1>1. HandleEndExpr(q, k) = IF Flags(d).do_while /\ d.previous.mode = "Conditional" THEN SetFlag(e, f) ELSE d
  BY DEF HandleEndExpr
<1>2. n \in Nat
  OBVIOUS
<1> HIDE DEF n, force
<1>3. Unwinds(q, a, n) /\ Flags(a).mode # "Statement"
  BY <1>2, CloseStatementsIs DEF n
<1> HIDE DEF a
<1>4. Unwinds(a, b, n)
  BY <1>2, <1>3, GoodKept, UnwindsSelf, NewlinesAre
<1> HIDE DEF b
<1>5. Flags(b).mode # "Statement" /\ Unwinds(q, b, n)
  BY <1>3, <1>4, GoodKept, ClosedStays, UnwindsTwice DEF n
<1>6. Closes(q, r, n)
  BY <1>2, <1>5, BracketCloses DEF n
<1> HIDE DEF r
<1>7. Unwinds(r, c, k)
  BY <1>6, JsPrintTokenIs DEF Closes, n
<1> HIDE DEF c
<1>8. Unwinds(c, d, k)
  <2>1. Good(c, k)
    BY <1>7, GoodKept
  <2>2. c.previous \in JsFrame
    BY <2>1, StateParts
  <2> QED
    BY <2>1, <2>2, RemoveIs
<1> HIDE DEF d
<1>9. Closes(q, d, k) /\ Good(d, k)
  BY <1>6, <1>7, <1>8, ClosesThen, GoodKept
<1>10. Unwinds(d, SetFlag(e, f), k)
  <2>1. d.previous \in JsFrame /\ Flags(d) \in JsFrame /\ "Expression" \in JsMode /\ FALSE \in BOOLEAN
        /\ Len(d.flags) \in Nat
    BY <1>9, StateParts DEF JsMode
  <2> DEFINE g == [d.previous EXCEPT !.mode = "Expression"]
  <2>2. g \in JsFrame
    BY <2>1 DEF JsFrame
  <2>3. e = [d EXCEPT !.previous = g]
    OBVIOUS
  <2> HIDE DEF g
  <2>4. /\ e \in JsState /\ e.flags = d.flags /\ e.lines = d.lines /\ e.token = d.token
        /\ e.last_type = d.last_type
    BY <1>9, <2>2, <2>3 DEF Good, JsState
  <2> HIDE DEF e
  <2>5. Unwinds(d, e, k)
    BY <1>9, <2>1, <2>4, FollowsSame DEF Unwinds, Keeps, Good, Opened
  <2>6. f \in JsFrame /\ f.mode = Flags(e).mode
    <3>1. Flags(e) = Flags(d)
      BY <2>4 DEF Flags
    <3> QED
      BY <2>1, <3>1, FrameSetTwo
  <2> HIDE DEF f
  <2>7. Unwinds(e, SetFlag(e, f), k)
    BY <2>5, <2>6, GoodKept, SetFlagIs
  <2> QED
    BY <1>9, <2>5, <2>7, UnwindsTwice
<1> HIDE DEF e, f
<1>11. Closes(q, SetFlag(e, f), k)
  BY <1>9, <1>10, ClosesThen
<1> QED
  BY <1>1, <1>9, <1>11

\* handle_end_block
LEMMA EndBlockIs ==
    ASSUME NEW q, NEW k \in Nat, k >= 1, Good(q, k - 1)
    PROVE  Closes(q, HandleEndBlock(q, k), k)
<1> DEFINE n == k - 1
           a == CloseStatements(q)
           b == IF q.last_type = "START_BLOCK" THEN a ELSE JsPrintNewline(a, FALSE)
           r == RestoreMode(b)
<1>1. HandleEndBlock(q, k) = JsPrintToken(r, k)
  BY DEF HandleEndBlock
<1>2. n \in Nat
  OBVIOUS
<1> HIDE DEF n
<1>3. Unwinds(q, a, n) /\ Flags(a).mode # "Statement"
  BY <1>2, CloseStatementsIs DEF n
<1> HIDE DEF a
<1>4. Unwinds(a, b, n)
  BY <1>2, <1>3, GoodKept, UnwindsSelf, NewlinesAre
<1> HIDE DEF b
<1>5. Flags(b).mode # "Statement" /\ Unwinds(q, b, n)
  BY <1>3, <1>4, GoodKept, ClosedStays, UnwindsTwice DEF n
<1>6. Closes(q, r, n)
  BY <1>2, <1>5, BracketCloses DEF n
<1> HIDE DEF r
<1>7. Unwinds(r, JsPrintToken(r, k), k)
  BY <1>6, JsPrintTokenIs DEF Closes, n
<1> QED
  BY <1>1, <1>6, <1>7, ClosesThen

\* handle_start_block
LEMMA StartBlockIs ==
    ASSUME NEW q, NEW k \in Nat, k >= 1, Good(q, k - 1)
    PROVE  Opens(q, HandleStartBlock(q, k), k)
<1> DEFINE n == k - 1
           mode == IF OpensObject(q, k) THEN "ObjectLiteral" ELSE "BlockStatement"
           a == SetMode(q, mode)
           b == IF a.previous.mode = "ArrayLiteral" /\ q.last_type \in {"START_EXPR", "COMMA"}
                THEN IF q.last_type = "COMMA" THEN Space(a) ELSE a
                ELSE IF q.last_type \in {"OPERATOR", "START_EXPR"} THEN a
                ELSE IF q.last_type = "START_BLOCK" THEN JsPrintNewline(a, FALSE)
                ELSE Space(a)
           p == JsPrintToken(b, k)
<1>1. HandleStartBlock(q, k) = Indent(p)
  BY DEF HandleStartBlock
<1>2. n \in Nat
  OBVIOUS
<1>3. mode \in JsMode /\ mode # "Statement"
  BY DEF JsMode
<1> HIDE DEF mode, n
<1>4. /\ Good(a, n) /\ Follows(q, a) /\ Opened(a) = Opened(q) \cup {Len(q.flags) + 1}
      /\ Len(q.flags) \in Nat
  <2>1. Good(q, n)
    BY DEF n
  <2> QED
    BY <1>2, <1>3, <2>1, SetModeIs, StateParts, FollowsSame
<1>5. Len(q.flags) + 1 \notin Opened(q)
  <2>1. DOMAIN q.flags = 1 .. Len(q.flags)
    BY StateParts
  <2> QED
    BY <1>4, <2>1 DEF Opened
<1> HIDE DEF a
<1>6. Unwinds(a, b, n)
  <2>1. TRUE \in BOOLEAN
    OBVIOUS
  <2>2. Unwinds(a, a, n) /\ Unwinds(a, Space(a), n) /\ Unwinds(a, JsPrintNewline(a, FALSE), n)
    BY <1>2, <1>4, <2>1, UnwindsSelf, FieldsPut, NewlinesAre
  <2> QED
    BY <2>2
<1> HIDE DEF b
<1>7. Unwinds(b, p, k)
  BY <1>6, GoodKept, JsPrintTokenIs DEF n
<1> HIDE DEF p
<1>8. Unwinds(p, Indent(p), k)
  BY <1>7, GoodKept, IndentsAre
<1>9. /\ Good(Indent(p), k) /\ Follows(q, Indent(p))
      /\ Opened(Indent(p)) = Opened(q) \cup {Len(q.flags) + 1}
  BY <1>4, <1>6, <1>7, <1>8, FollowsTwice DEF Unwinds, Keeps
<1>10. Len(q.flags) + 1 \in Nat
  BY <1>4
<1> QED
  BY <1>1, <1>5, <1>9, <1>10 DEF Opens

\* Where token n is in the lines.
IsAt(l, n, i, c) == i \in DOMAIN l /\ c \in DOMAIN l[i].items /\ l[i].items[c] = n

\* Behind token n is a line already; and the next token is not on its line.
Fresh(l, n) == \A i, c : IsAt(l, n, i, c) => i + 1 \in DOMAIN l
Apart(l, n) == \A i, c, j, d : IsAt(l, n, i, c) /\ IsAt(l, n + 1, j, d) => i # j

\* A token is in one place.
LEMMA PlaceIs ==
    ASSUME NEW l \in Seq(JsLine), NEW m \in Nat, Form(l, m), NEW n \in 1 .. m
    PROVE  /\ \E i \in Nat, c \in Nat : IsAt(l, n, i, c)
           /\ \A i, c, j, d : IsAt(l, n, i, c) /\ IsAt(l, n, j, d) => i = j /\ c = d
<1>1. PrintsUpTo(l, m) /\ DOMAIN l = 1 .. Len(l) /\ Len(l) \in Nat /\ n # Blank /\ ~(n < n)
  BY DEF Form, Blank
<1>2. ASSUME NEW i, NEW c, IsAt(l, n, i, c) PROVE i \in Nat /\ c \in Nat
  <2>1. i \in 1 .. Len(l)
    BY <1>1, <1>2 DEF IsAt
  <2>2. Len(l[i].items) \in Nat /\ DOMAIN l[i].items = 1 .. Len(l[i].items)
    BY <2>1, LinePart
  <2> QED
    BY <1>1, <1>2, <2>1, <2>2 DEF IsAt
<1>3. \E i, c : IsAt(l, n, i, c)
  BY <1>1 DEF PrintsUpTo, IsAt
<1>4. ASSUME NEW i, NEW c, NEW j, NEW d, IsAt(l, n, i, c), IsAt(l, n, j, d) PROVE i = j /\ c = d
  <2>1. i \in Nat /\ c \in Nat /\ j \in Nat /\ d \in Nat
    BY <1>2, <1>4
  <2>2. /\ i \in DOMAIN l /\ c \in DOMAIN l[i].items /\ l[i].items[c] = n
        /\ j \in DOMAIN l /\ d \in DOMAIN l[j].items /\ l[j].items[d] = n
    BY <1>4 DEF IsAt
  <2>3. /\ ~(i < j \/ (i = j /\ c < d))
        /\ ~(j < i \/ (j = i /\ d < c))
    BY <1>1, <2>2 DEF PrintsUpTo
  <2> QED
    BY <2>1, <2>3
<1> QED
  BY <1>2, <1>3, <1>4

\* A token that stays is nowhere else.
LEMMA PlaceKept ==
    ASSUME NEW l \in Seq(JsLine), NEW m \in Seq(JsLine), NEW a \in Nat, NEW b \in Nat, a <= b,
           Form(l, a), Form(m, b), Stays(l, m), NEW n \in 1 .. a
    PROVE  \A i, c : IsAt(m, n, i, c) <=> IsAt(l, n, i, c)
<1>1. \A i, c : IsAt(l, n, i, c) => IsAt(m, n, i, c)
  <2>1. n # Blank
    BY DEF Blank
  <2> QED
    BY <2>1 DEF Stays, IsAt
<1>2. n \in 1 .. b
  OBVIOUS
<1>3. \A i, c, j, d : IsAt(m, n, i, c) /\ IsAt(m, n, j, d) => i = j /\ c = d
  BY <1>2, PlaceIs
<1>4. \E i, c : IsAt(l, n, i, c)
  BY PlaceIs
<1> QED
  BY <1>1, <1>3, <1>4

\* What the lines of a state are.
LEMMA LinesAre ==
    ASSUME NEW q, NEW n, Good(q, n)
    PROVE  q.lines \in Seq(JsLine) /\ Form(q.lines, n) /\ DOMAIN q.lines = 1 .. Len(q.lines)
           /\ Len(q.lines) \in Nat /\ Len(q.lines) >= 1
  BY StateParts DEF Good

\* An empty line is behind every token.
LEMMA FreshIs ==
    ASSUME NEW q, NEW n \in Nat, n >= 1, Good(q, n), JustAddedNewline(q)
    PROVE  Fresh(q.lines, n)
<1> SUFFICES ASSUME NEW i, NEW c, IsAt(q.lines, n, i, c) PROVE i + 1 \in DOMAIN q.lines
  BY DEF Fresh
<1>1. /\ q.lines \in Seq(JsLine) /\ DOMAIN q.lines = 1 .. Len(q.lines) /\ Len(q.lines) \in Nat
      /\ q.lines[Len(q.lines)].items = <<>>
  BY LinesAre DEF JustAddedNewline, Last
<1>2. i \in 1 .. Len(q.lines) /\ c \in DOMAIN q.lines[i].items
  BY <1>1 DEF IsAt
<1>3. i # Len(q.lines)
  <2>1. DOMAIN q.lines[Len(q.lines)].items = {}
    BY <1>1
  <2> QED
    BY <1>2, <2>1
<1> QED
  BY <1>1, <1>2, <1>3

\* It stays behind it, and the next token is not on the token's line.
LEMMA FreshStays ==
    ASSUME NEW q, NEW r, NEW n \in Nat, n >= 1, Good(q, n), Good(r, n), Follows(q, r), Fresh(q.lines, n)
    PROVE  Fresh(r.lines, n)
<1>1. \A i, c : IsAt(r.lines, n, i, c) => IsAt(q.lines, n, i, c)
  <2>1. n \in 1 .. n /\ n <= n
    OBVIOUS
  <2> QED
    BY <2>1, LinesAre, PlaceKept DEF Follows
<1> QED
  BY <1>1 DEF Fresh, Follows, Settled

LEMMA FreshApart ==
    ASSUME NEW q, NEW r, NEW n \in Nat, n >= 1, Good(q, n), Good(r, n + 1), Follows(q, r), Fresh(q.lines, n)
    PROVE  Apart(r.lines, n)
<1> SUFFICES ASSUME NEW i, NEW c, NEW j, NEW d, IsAt(r.lines, n, i, c), IsAt(r.lines, n + 1, j, d), i = j
             PROVE  FALSE
  BY DEF Apart
<1>1. IsAt(q.lines, n, i, c)
  <2>1. n \in 1 .. n /\ n <= n + 1 /\ n + 1 \in Nat
    OBVIOUS
  <2> QED
    BY <2>1, LinesAre, PlaceKept DEF Follows
<1>2. r.lines[i].items = q.lines[i].items /\ i \in DOMAIN q.lines
  BY <1>1 DEF Fresh, Follows, Settled, IsAt
<1>3. d \in DOMAIN q.lines[i].items /\ q.lines[i].items[d] = n + 1
  BY <1>2 DEF IsAt
<1>4. q.lines[i].items[d] \in 0 .. n
  BY <1>2, <1>3, LinesAre DEF Form, PrintsUpTo
<1> QED
  BY <1>3, <1>4

\* Where a newline was added the last line is empty.
LEMMA NewlineAdded ==
    ASSUME NEW q, NEW n \in Nat, Good(q, n), NEW force
    PROVE  /\ JustAddedNewline(AddNewLine(q, force)) /\ JustAddedNewline(NewlineInStatement(q))
           /\ JustAddedNewline(JsPrintNewline(q, force))
<1>1. ASSUME NEW p, Good(p, n), NEW x PROVE JustAddedNewline(AddNewLine(p, x))
  <2>1. CASE JustAddedNewline(p) /\ (Len(p.lines) = 1 \/ ~x)
    BY <2>1 DEF AddNewLine
  <2>2. CASE ~(JustAddedNewline(p) /\ (Len(p.lines) = 1 \/ ~x))
    <3> DEFINE l == Append(p.lines, EmptyLine)
    <3>1. AddNewLine(p, x).lines = l
      BY <2>2, StateParts DEF AddNewLine, SetFlag, Good, JsState
    <3>2. l[Len(l)] = EmptyLine
      BY <1>1, StateParts, EmptyLineIs, AppendProperties
    <3> HIDE DEF l
    <3> QED
      BY <3>1, <3>2, EmptyLineIs DEF JustAddedNewline, Last
  <2> QED
    BY <2>1, <2>2
<1>2. Good(CloseSimple(q), n)
  BY CloseSimpleIs, GoodKept
<1> QED
  BY <1>1, <1>2 DEF NewlineInStatement, JsPrintNewline

\* One step after another.
LEMMA Steps ==
    ASSUME NEW q, NEW r, NEW n \in Nat, Keeps(q, r, n), NEW k, NEW force \in BOOLEAN
    PROVE  /\ Keeps(q, JsPrintNewline(r, force), n) /\ Keeps(q, NewlineInStatement(r), n)
           /\ Keeps(q, AllowNewline(r, k, force), n) /\ Keeps(q, PreserveNewline(r, k), n)
           /\ Keeps(q, Indent(r), n) /\ Keeps(q, Deindent(r), n)
           /\ Keeps(q, Space(r), n) /\ Keeps(q, NoSpace(r), n)
           /\ Keeps(q, StartOfStatement(r, k), n) /\ Keeps(q, CloseStatements(r), n)
           /\ Keeps(q, CloseSimple(r), n)
<1>1. Good(r, n)
  BY KeepsGood
<1>2. /\ Unwinds(r, JsPrintNewline(r, force), n) /\ Unwinds(r, NewlineInStatement(r), n)
      /\ Unwinds(r, AllowNewline(r, k, force), n) /\ Unwinds(r, PreserveNewline(r, k), n)
  BY <1>1, NewlinesAre
<1>3. Unwinds(r, Indent(r), n) /\ Unwinds(r, Deindent(r), n)
  BY <1>1, IndentsAre
<1>4. Unwinds(r, Space(r), n) /\ Unwinds(r, NoSpace(r), n)
  BY <1>1, FieldsPut
<1>5. Keeps(r, StartOfStatement(r, k), n)
  BY <1>1, StartOfStatementIs
<1>6. Unwinds(r, CloseStatements(r), n) /\ Unwinds(r, CloseSimple(r), n)
  BY <1>1, CloseStatementsIs, CloseSimpleIs
<1> QED
  BY <1>2, <1>3, <1>4, <1>5, <1>6, KeptFromUnwound, KeepsTwice

\* A change of the frame on top.
LEMMA FlagStep ==
    ASSUME NEW q, NEW r, NEW n \in Nat, Keeps(q, r, n), NEW f \in JsFrame, f.mode = Flags(r).mode
    PROVE  Keeps(q, SetFlag(r, f), n)
<1>1. Unwinds(r, SetFlag(r, f), n)
  BY KeepsGood, SetFlagIs
<1> QED
  BY <1>1, KeptFromUnwound

\* White space wanted or not.
LEMMA SpaceStep ==
    ASSUME NEW q, NEW r, NEW n \in Nat, Keeps(q, r, n), NEW b \in BOOLEAN
    PROVE  Keeps(q, [r EXCEPT !.space = b], n)
<1>1. Unwinds(r, [r EXCEPT !.space = b], n)
  BY KeepsGood, FieldsPut
<1> QED
  BY <1>1, KeptFromUnwound

\* A token is printed.
LEMMA TokenStep ==
    ASSUME NEW q, NEW r, NEW k \in Nat, k >= 1, Keeps(q, r, k - 1)
    PROVE  Keeps(q, JsPrintToken(r, k), k)
<1>1. Unwinds(r, JsPrintToken(r, k), k)
  BY KeepsGood, JsPrintTokenIs
<1> QED
  BY <1>1, KeptFromUnwound

\* What the frame on top is made of.
LEMMA FrameKept ==
    ASSUME NEW q, NEW r, NEW n \in Nat, Keeps(q, r, n)
    PROVE  /\ Flags(r) \in JsFrame /\ r.space \in BOOLEAN /\ Flags(r).ternary_depth \in Nat
           /\ Flags(r).do_block \in BOOLEAN /\ Flags(r).if_block \in BOOLEAN
           /\ Flags(r).declaration_assignment \in BOOLEAN /\ Flags(r).declaration_statement \in BOOLEAN
<1>1. Flags(r) \in JsFrame /\ r.space \in BOOLEAN
  BY KeepsGood, StateParts
<1> QED
  BY <1>1 DEF JsFrame

\* handle_semicolon
LEMMA SemicolonIs ==
    ASSUME NEW q, NEW k \in Nat, k >= 1, Good(q, k - 1)
    PROVE  Keeps(q, HandleSemicolon(q, k), k)
<1> DEFINE n == k - 1
           b == StartOfStatement(q, k)
           a == IF StartsStatement(q, k) THEN NoSpace(b) ELSE q
           c == CloseSimple(a)
<1>1. HandleSemicolon(q, k) = JsPrintToken(c, k)
  BY DEF HandleSemicolon
<1>2. n \in Nat /\ Keeps(q, q, n) /\ TRUE \in BOOLEAN
  BY KeepsSelf
<1> HIDE DEF n
<1>3. Keeps(q, b, n)
  BY <1>2, Steps
<1> HIDE DEF b
<1>4. Keeps(q, a, n)
  BY <1>2, <1>3, Steps
<1> HIDE DEF a
<1>5. Keeps(q, c, n)
  BY <1>2, <1>4, Steps
<1> HIDE DEF c
<1> QED
  BY <1>1, <1>5, TokenStep DEF n

\* handle_string
LEMMA StringIs ==
    ASSUME NEW q, NEW k \in Nat, k >= 1, Good(q, k - 1)
    PROVE  Keeps(q, HandleString(q, k), k)
<1> DEFINE n == k - 1
           b == StartOfStatement(q, k)
           a == IF StartsStatement(q, k) THEN Space(b)
                ELSE IF q.last_type \in {"RESERVED", "WORD"} THEN Space(q)
                ELSE IF q.last_type \in {"COMMA", "START_EXPR", "EQUALS", "OPERATOR"} THEN PreserveNewline(q, k)
                ELSE JsPrintNewline(q, FALSE)
<1>1. HandleString(q, k) = JsPrintToken(a, k)
  BY DEF HandleString
<1>2. n \in Nat /\ Keeps(q, q, n) /\ TRUE \in BOOLEAN /\ FALSE \in BOOLEAN
  BY KeepsSelf
<1> HIDE DEF n
<1>3. Keeps(q, b, n)
  BY <1>2, Steps
<1> HIDE DEF b
<1>4. Keeps(q, a, n)
  <2>1. Keeps(q, Space(b), n) /\ Keeps(q, Space(q), n) /\ Keeps(q, PreserveNewline(q, k), n)
        /\ Keeps(q, JsPrintNewline(q, FALSE), n)
    BY <1>2, <1>3, Steps
  <2> QED
    BY <2>1
<1> HIDE DEF a
<1> QED
  BY <1>1, <1>4, TokenStep DEF n

\* handle_equals
LEMMA EqualsIs ==
    ASSUME NEW q, NEW k \in Nat, k >= 1, Good(q, k - 1)
    PROVE  Keeps(q, HandleEquals(q, k), k)
<1> DEFINE n == k - 1
           a == StartOfStatement(q, k)
           t == Flags(a).declaration_assignment \/ Flags(a).declaration_statement
           f == [Flags(a) EXCEPT !.declaration_assignment = t]
           b == SetFlag(a, f)
           c == Space(b)
           d == JsPrintToken(c, k)
<1>1. HandleEquals(q, k) = Space(d)
  BY DEF HandleEquals
<1>2. n \in Nat /\ Keeps(q, q, n) /\ TRUE \in BOOLEAN /\ FALSE \in BOOLEAN
  BY KeepsSelf
<1> HIDE DEF n
<1>3. Keeps(q, a, n)
  BY <1>2, Steps
<1> HIDE DEF a
<1>4. f \in JsFrame /\ f.mode = Flags(a).mode
  <2>1. t \in BOOLEAN
    OBVIOUS
  <2>2. Flags(a) \in JsFrame
    BY <1>2, <1>3, FrameKept
  <2> HIDE DEF t
  <2> QED
    BY <2>1, <2>2, FrameSet
<1> HIDE DEF f
<1>5. Keeps(q, b, n)
  BY <1>2, <1>3, <1>4, FlagStep
<1> HIDE DEF b
<1>6. Keeps(q, c, n)
  BY <1>2, <1>5, Steps
<1> HIDE DEF c
<1>7. Keeps(q, d, k)
  BY <1>6, TokenStep DEF n
<1> HIDE DEF d
<1> QED
  BY <1>1, <1>2, <1>7, Steps

\* handle_block_comment
LEMMA BlockCommentIs ==
    ASSUME NEW q, NEW k \in Nat, k >= 1, Good(q, k - 1)
    PROVE  Keeps(q, HandleBlockComment(q, k), k)
<1> DEFINE n == k - 1
           a == Space(q)
           b == JsPrintToken(a, k)
           c == NewlineInStatement(q)
           d == JsPrintToken(c, k)
<1>1. HandleBlockComment(q, k) = IF q.token = "/**/" /\ ~Wanted(k) THEN Space(b) ELSE NewlineInStatement(d)
  BY DEF HandleBlockComment
<1>2. n \in Nat /\ Keeps(q, q, n) /\ TRUE \in BOOLEAN /\ FALSE \in BOOLEAN
  BY KeepsSelf
<1> HIDE DEF n
<1>3. Keeps(q, a, n) /\ Keeps(q, c, n)
  BY <1>2, Steps
<1> HIDE DEF a, c
<1>4. Keeps(q, b, k) /\ Keeps(q, d, k)
  BY <1>3, TokenStep DEF n
<1> HIDE DEF b, d
<1>5. Keeps(q, Space(b), k) /\ Keeps(q, NewlineInStatement(d), k)
  BY <1>2, <1>4, Steps
<1> QED
  BY <1>1, <1>5

\* What keeps the lines retains the tokens, and so does what keeps them behind what does.
LEMMA RetainsSteps ==
    ASSUME NEW q, NEW r, NEW s, NEW n, NEW m
    PROVE  /\ Keeps(q, r, n) => Retains(q, r, n)
           /\ Keeps(q, r, n) /\ Retains(r, s, m) => Retains(q, s, m)
           /\ Retains(q, r, n) /\ Keeps(r, s, m) => Retains(q, s, m)
           /\ Retains(q, r, n) => Good(r, n)
<1>1. Stays(q.lines, r.lines) /\ Stays(r.lines, s.lines) => Stays(q.lines, s.lines)
  BY DEF Stays
<1> QED
  BY <1>1 DEF Keeps, Retains, Follows

\* handle_comment: one that is wanted at the end of the line before takes empty lines back.
LEMMA CommentIs ==
    ASSUME NEW q, NEW k \in Nat, k >= 1, Good(q, k - 1)
    PROVE  /\ Retains(q, HandleComment(q, k), k) /\ JustAddedNewline(HandleComment(q, k))
           /\ Wanted(k) => Keeps(q, HandleComment(q, k), k)
<1> DEFINE n == k - 1
           a == IF Wanted(k) THEN NewlineInStatement(q) ELSE JsTrim(q)
           b == Space(a)
           c == JsPrintToken(b, k)
           d == NewlineInStatement(c)
<1>1. HandleComment(q, k) = d
  BY DEF HandleComment
<1>2. n \in Nat /\ Good(q, n) /\ TRUE \in BOOLEAN /\ FALSE \in BOOLEAN
  OBVIOUS
<1> HIDE DEF n
<1>3. Retains(q, a, n) /\ (Wanted(k) => Keeps(q, a, n))
  <2>1. Keeps(q, NewlineInStatement(q), n)
    BY <1>2, KeepsSelf, Steps
  <2>2. Retains(q, JsTrim(q), n)
    BY <1>2, JsTrimIs
  <2>3. Retains(q, NewlineInStatement(q), n)
    BY <2>1, RetainsSteps
  <2> QED
    BY <2>1, <2>2, <2>3
<1> HIDE DEF a
<1>4. Keeps(a, a, n)
  BY <1>2, <1>3, RetainsSteps, KeepsSelf
<1>5. Keeps(a, b, n)
  BY <1>2, <1>4, Steps
<1> HIDE DEF b
<1>6. Keeps(a, c, k)
  BY <1>5, TokenStep DEF n
<1> HIDE DEF c
<1>7. Keeps(a, d, k) /\ JustAddedNewline(d)
  BY <1>2, <1>6, Steps, KeepsGood, NewlineAdded
<1> HIDE DEF d
<1> QED
  BY <1>1, <1>3, <1>7, RetainsSteps, KeepsTwice

\* handle_dot
LEMMA DotIs ==
    ASSUME NEW q, NEW k \in Nat, k >= 1, Good(q, k - 1)
    PROVE  Keeps(q, HandleDot(q, k), k)
<1> DEFINE n == k - 1
           a == StartOfStatement(q, k)
           b == IF After(a, SpecialWords) THEN Space(a) ELSE AllowNewline(a, k, FALSE)
<1>1. HandleDot(q, k) = JsPrintToken(b, k)
  BY DEF HandleDot
<1>2. n \in Nat /\ Keeps(q, q, n) /\ TRUE \in BOOLEAN /\ FALSE \in BOOLEAN
  BY KeepsSelf
<1> HIDE DEF n
<1>3. Keeps(q, a, n)
  BY <1>2, Steps
<1> HIDE DEF a
<1>4. Keeps(q, b, n)
  <2>1. Keeps(q, Space(a), n) /\ Keeps(q, AllowNewline(a, k, FALSE), n)
    BY <1>2, <1>3, Steps
  <2> QED
    BY <2>1
<1> HIDE DEF b
<1> QED
  BY <1>1, <1>4, TokenStep DEF n

\* handle_comma
LEMMA CommaIs ==
    ASSUME NEW q, NEW k \in Nat, k >= 1, Good(q, k - 1)
    PROVE  Keeps(q, HandleComma(q, k), k)
<1> DEFINE p == JsPrintToken(q, k)
           a == Space(p)
           f == [Flags(a) EXCEPT !.declaration_assignment = FALSE]
           declared == SetFlag(a, f)
           closed == IF Flags(a).mode = "Statement" THEN RestoreMode(a) ELSE a
           v == Flags(a).declaration_assignment /\ ~IsExpression(Parent(a).mode)
           w == Flags(a).mode = "ObjectLiteral"
                \/ (Flags(a).mode = "Statement" /\ Parent(a).mode = "ObjectLiteral")
<1>1. HandleComma(q, k) = IF Flags(a).declaration_statement
                          THEN IF v THEN NewlineInStatement(declared) ELSE declared
                          ELSE IF w THEN JsPrintNewline(closed, FALSE) ELSE a
  BY DEF HandleComma
<1> HIDE DEF v, w
<1>2. Keeps(q, q, k - 1) /\ TRUE \in BOOLEAN /\ FALSE \in BOOLEAN
  BY KeepsSelf
<1>3. Keeps(q, p, k)
  BY <1>2, TokenStep
<1> HIDE DEF p
<1>4. Keeps(q, a, k)
  BY <1>2, <1>3, Steps
<1> HIDE DEF a
<1>5. f \in JsFrame /\ f.mode = Flags(a).mode
  BY <1>2, <1>4, FrameKept, FrameSet
<1> HIDE DEF f
<1>6. Keeps(q, declared, k)
  BY <1>4, <1>5, FlagStep
<1> HIDE DEF declared
<1>7. Keeps(q, closed, k)
  <2>1. Flags(a).mode = "Statement" => Unwinds(a, RestoreMode(a), k)
    BY <1>4, KeepsGood, RestoreModeIs
  <2> QED
    BY <1>4, <2>1, KeptFromUnwound
<1> HIDE DEF closed
<1>8. Keeps(q, NewlineInStatement(declared), k) /\ Keeps(q, JsPrintNewline(closed, FALSE), k)
  BY <1>2, <1>6, <1>7, Steps
<1> QED
  BY <1>1, <1>4, <1>6, <1>8

\* A word that begins a statement, or is wanted on a line of its own.
LEMMA WordBegunIs ==
    ASSUME NEW q, NEW n \in Nat, Good(q, n), NEW k
    PROVE  Keeps(q, WordBegun(q, k), n)
<1>1. Keeps(q, q, n) /\ FALSE \in BOOLEAN
  BY KeepsSelf
<1>2. Keeps(q, StartOfStatement(q, k), n) /\ Keeps(q, JsPrintNewline(q, FALSE), n)
  BY <1>1, Steps
<1> QED
  BY <1>1, <1>2 DEF WordBegun

\* Something else than while behind the block of a do.
LEMMA DoEndedIs ==
    ASSUME NEW q, NEW r, NEW n \in Nat, Keeps(q, r, n)
    PROVE  Keeps(q, DoEnded(r), n)
<1> DEFINE p == JsPrintNewline(r, FALSE)
           f == [Flags(p) EXCEPT !.do_block = FALSE]
<1>1. DoEnded(r) = IF ~Flags(r).do_block \/ Flags(r).do_while THEN r ELSE SetFlag(p, f)
  BY DEF DoEnded
<1>2. Keeps(q, p, n) /\ FALSE \in BOOLEAN
  BY Steps, FALSE \in BOOLEAN
<1> HIDE DEF p
<1>3. f \in JsFrame /\ f.mode = Flags(p).mode
  BY <1>2, FrameKept, FrameSet
<1> HIDE DEF f
<1>4. Keeps(q, SetFlag(p, f), n)
  BY <1>2, <1>3, FlagStep
<1> QED
  BY <1>1, <1>4

\* The word behind an if.
LEMMA IfUnwoundIs ==
    ASSUME NEW q, NEW r, NEW n \in Nat, Keeps(q, r, n), NEW k
    PROVE  Keeps(q, IfUnwound(r, k), n)
<1> DEFINE p == CloseStatements(r)
           f == [Flags(r) EXCEPT !.else_block = TRUE]
           g == [Flags(p) EXCEPT !.if_block = FALSE, !.else_block = FALSE]
<1>1. IfUnwound(r, k) = IF ~Flags(r).if_block THEN r
                        ELSE IF ~Flags(r).else_block /\ r.token = "else" THEN SetFlag(r, f)
                        ELSE SetFlag(p, g)
  BY DEF IfUnwound
<1>2. TRUE \in BOOLEAN /\ FALSE \in BOOLEAN
  OBVIOUS
<1>3. Keeps(q, p, n)
  BY <1>2, Steps
<1> HIDE DEF p
<1>4. f \in JsFrame /\ f.mode = Flags(r).mode
  BY <1>2, FrameKept, FrameSet
<1>5. g \in JsFrame /\ g.mode = Flags(p).mode
  BY <1>2, <1>3, FrameKept, FrameSetTwo
<1> HIDE DEF f, g
<1>6. Keeps(q, SetFlag(r, f), n) /\ Keeps(q, SetFlag(p, g), n)
  BY <1>3, <1>4, <1>5, FlagStep
<1> QED
  BY <1>1, <1>6

\* case, and the default of a switch.
LEMMA CaseWordIs ==
    ASSUME NEW q, NEW r, NEW k \in Nat, k >= 1, Keeps(q, r, k - 1)
    PROVE  Keeps(q, CaseWord(r, k), k)
<1> DEFINE n == k - 1
           a == JsPrintNewline(r, FALSE)
           p == Deindent(a)
           f == [Flags(p) EXCEPT !.case_body = FALSE]
           s == SetFlag(p, f)
           b == IF ~Flags(a).case_body THEN a ELSE s
           c == JsPrintToken(b, k)
           g == [Flags(c) EXCEPT !.in_case = TRUE, !.in_case_statement = TRUE]
<1>1. CaseWord(r, k) = SetFlag(c, g)
  BY DEF CaseWord
<1>2. n \in Nat /\ TRUE \in BOOLEAN /\ FALSE \in BOOLEAN /\ Keeps(q, r, n)
  OBVIOUS
<1> HIDE DEF n
<1>3. Keeps(q, a, n)
  BY <1>2, Steps
<1> HIDE DEF a
<1>4. Keeps(q, p, n)
  BY <1>2, <1>3, Steps
<1> HIDE DEF p
<1>5. f \in JsFrame /\ f.mode = Flags(p).mode
  BY <1>2, <1>4, FrameKept, FrameSet
<1> HIDE DEF f
<1>6. Keeps(q, s, n)
  BY <1>2, <1>4, <1>5, FlagStep
<1> HIDE DEF s
<1>7. Keeps(q, b, n)
  BY <1>3, <1>6
<1> HIDE DEF b
<1>8. Keeps(q, c, k)
  BY <1>7, TokenStep DEF n
<1> HIDE DEF c
<1>9. g \in JsFrame /\ g.mode = Flags(c).mode
  BY <1>2, <1>8, FrameKept, FrameSetTwo
<1> HIDE DEF g
<1> QED
  BY <1>1, <1>8, <1>9, FlagStep

\* What a function stands behind.
LEMMA FunctionBegunIs ==
    ASSUME NEW q, NEW r, NEW n \in Nat, Keeps(q, r, n), NEW k
    PROVE  Keeps(q, FunctionBegun(r, k), n)
<1> DEFINE text == Flags(r).last_text
           u == JsPrintNewline(r, FALSE)
           v == JsPrintNewline(u, TRUE)
           c == /\ \/ text \in {"close", "semicolon"}
                   \/ JustAddedNewline(r) /\ text \notin {"[", "open", ":", "=", "comma"}
                /\ ~JustAddedBlankline(r) /\ ~CommentsBefore(k)
           a == IF c THEN v ELSE r
           d == r.last_type \in {"RESERVED", "WORD"}
           e == After(a, {"new", "return"})
           g == r.last_type = "OPERATOR" \/ Flags(a).last_text = "="
           h == ~Flags(a).multiline_frame /\ (IsExpression(Flags(a).mode) \/ Flags(a).mode = "ArrayLiteral")
<1>1. FunctionBegun(r, k) = IF d THEN IF e THEN Space(a) ELSE JsPrintNewline(a, FALSE)
                            ELSE IF g THEN Space(a) ELSE IF h THEN a ELSE JsPrintNewline(a, FALSE)
  BY DEF FunctionBegun
<1>2. TRUE \in BOOLEAN /\ FALSE \in BOOLEAN
  OBVIOUS
<1> HIDE DEF c, d, e, g, h
<1>3. Keeps(q, u, n)
  BY <1>2, Steps
<1> HIDE DEF u
<1>4. Keeps(q, v, n)
  BY <1>2, <1>3, Steps
<1> HIDE DEF v
<1>5. Keeps(q, a, n)
  BY <1>4
<1> HIDE DEF a
<1>6. Keeps(q, Space(a), n) /\ Keeps(q, JsPrintNewline(a, FALSE), n)
  BY <1>2, <1>5, Steps
<1> QED
  BY <1>1, <1>5, <1>6

\* A newline is preserved behind a comma, a bracket or an operator.
LEMMA ContinuedIs ==
    ASSUME NEW q, NEW r, NEW n \in Nat, Keeps(q, r, n), NEW k
    PROVE  Keeps(q, Continued(r, k), n)
<1>1. Keeps(q, PreserveNewline(r, k), n)
  BY Steps, TRUE \in BOOLEAN
<1> QED
  BY <1>1 DEF Continued

\* Behind trim the last token ends the last line.
LEMMA LastTokenIs ==
    ASSUME NEW q, NEW n \in Nat, n >= 1, Good(q, n), Last(q.lines).items # <<>> \/ Len(q.lines) = 1
    PROVE  Last(Last(q.lines).items) = n
<1> DEFINE l == q.lines
           L == Len(l)
           o == l[L].items
           t == o[Len(o)]
<1>1. /\ l \in Seq(JsLine) /\ L \in Nat /\ L >= 1 /\ DOMAIN l = 1 .. L /\ PrintsUpTo(l, n) /\ EndsInTokens(l)
      /\ Last(l) = l[L] /\ Last(o) = t
  BY LinesAre DEF Form, Last
<1>2. o \in Seq(Nat) /\ Len(o) \in Nat /\ DOMAIN o = 1 .. Len(o) /\ (o = <<>> <=> Len(o) = 0)
  <2>1. o \in Seq(Nat)
    BY <1>1, LinePart
  <2> HIDE DEF o
  <2> QED
    BY <2>1
<1>3. PICK i \in DOMAIN l : \E c \in DOMAIN l[i].items : l[i].items[c] = n
  <2>1. n \in 1 .. n
    OBVIOUS
  <2> QED
    BY <1>1, <2>1 DEF PrintsUpTo
<1>4. PICK c \in DOMAIN l[i].items : l[i].items[c] = n
  BY <1>3
<1>5. o # <<>> /\ L \in DOMAIN l /\ Len(o) \in DOMAIN o
  <2>1. CASE L = 1
    BY <1>1, <1>2, <1>4, <2>1
  <2>2. CASE Last(l).items # <<>>
    BY <1>1, <1>2, <2>2
  <2> QED
    BY <2>1, <2>2
<1>6. t # Blank /\ t \in 0 .. n
  BY <1>1, <1>5 DEF EndsInTokens, PrintsUpTo
<1>7. t = n
  <2> SUFFICES ASSUME t # n PROVE FALSE
    OBVIOUS
  <2>1. ~(n < t) /\ n # Blank
    BY <1>6 DEF Blank
  <2>2. ~(i < L \/ (i = L /\ c < Len(o)))
    BY <1>1, <1>4, <1>5, <1>6, <2>1 DEF PrintsUpTo
  <2>3. i = L
    BY <1>1, <2>2
  <2>4. c \in 1 .. Len(o)
    BY <1>2, <1>4, <2>3
  <2>5. c = Len(o)
    BY <1>2, <2>2, <2>3, <2>4
  <2> QED
    BY <1>4, <2>3, <2>5
<1> QED
  BY <1>1, <1>7

\* else and catch: the line before may be taken up again, if it ends in a block.
LEMMA ElseWordIs ==
    ASSUME NEW q, NEW r, NEW n \in Nat, Keeps(q, r, n)
    PROVE  /\ Retains(q, ElseWord(r), n)
           /\ n >= 1 /\ TextOf(n) # "close" => JustAddedNewline(ElseWord(r))
<1> DEFINE p == JsTrim(r)
           c == TextOf(Last(Last(p.lines).items)) = "close"
           u == JsPrintNewline(p, FALSE)
           b == IF c THEN p ELSE u
           e == JsPrintNewline(r, FALSE)
<1>1. ElseWord(r) = IF r.last_type = "END_BLOCK" /\ r.previous.mode = "BlockStatement" THEN Space(b) ELSE e
  BY DEF ElseWord
<1>2. TRUE \in BOOLEAN /\ FALSE \in BOOLEAN /\ Good(r, n)
  BY KeepsGood
<1>3. Retains(r, p, n) /\ Good(p, n) /\ Keeps(q, e, n) /\ JustAddedNewline(e)
  BY <1>2, JsTrimIs, RetainsSteps, Steps, NewlineAdded
<1>4. n >= 1 /\ TextOf(n) # "close" => ~c
  BY <1>2, <1>3, JsTrimIs, LastTokenIs
<1> HIDE DEF c, p, e
<1>5. Keeps(p, p, n) /\ Keeps(p, u, n) /\ JustAddedNewline(u)
  BY <1>2, <1>3, KeepsSelf, Steps, NewlineAdded
<1> HIDE DEF u
<1>6. Keeps(p, b, n) /\ (n >= 1 /\ TextOf(n) # "close" => JustAddedNewline(b))
  BY <1>4, <1>5
<1> HIDE DEF b
<1>7. Keeps(p, Space(b), n)
  BY <1>2, <1>6, Steps
<1>8. Space(b).lines = b.lines
  BY <1>6, StateParts DEF Space, Keeps, Good, JsState
<1>9. Retains(q, p, n)
  BY <1>3, RetainsSteps
<1>10. Retains(q, Space(b), n) /\ Retains(q, e, n)
  BY <1>3, <1>7, <1>9, RetainsSteps
<1> QED
  BY <1>1, <1>3, <1>6, <1>8, <1>10 DEF JustAddedNewline

\* The white space before a word.
LEMMA WordPlacedIs ==
    ASSUME NEW q, NEW r, NEW n \in Nat, Keeps(q, r, n), NEW k
    PROVE  /\ Retains(q, WordPlaced(r, k), n)
           /\ q.token \notin {"else", "catch"} => Keeps(q, WordPlaced(r, k), n)
           /\ q.token \in {"else", "catch"} /\ n >= 1 /\ TextOf(n) # "close" => JustAddedNewline(WordPlaced(r, k))
<1> DEFINE p == IF r.last_type = "END_EXPR" THEN Space(r) ELSE r
           w == WordPlaced(r, k)
<1>1. IF r.token \in {"else", "catch"} THEN w = ElseWord(p) ELSE w \in {Space(p), JsPrintNewline(p, FALSE), p}
  BY DEF WordPlaced
<1> HIDE DEF w
<1>2. TRUE \in BOOLEAN /\ FALSE \in BOOLEAN /\ r.token = q.token
  BY DEF Keeps, Follows
<1>3. Keeps(q, p, n)
  BY <1>2, Steps
<1> HIDE DEF p
<1>4. Keeps(q, Space(p), n) /\ Keeps(q, JsPrintNewline(p, FALSE), n)
  BY <1>2, <1>3, Steps
<1>5. CASE r.token \in {"else", "catch"}
  BY <1>1, <1>2, <1>3, <1>5, ElseWordIs DEF w
<1>6. CASE r.token \notin {"else", "catch"}
  <2>1. Keeps(q, w, n)
    BY <1>1, <1>3, <1>4, <1>6
  <2> QED
    BY <1>2, <1>6, <2>1, RetainsSteps DEF w
<1> QED
  BY <1>5, <1>6

\* The word is the last one of its frame.
LEMMA WordRememberedIs ==
    ASSUME NEW q, NEW r, NEW n \in Nat, Keeps(q, r, n), NEW k, TextOf(k) \in JsText
    PROVE  Keeps(q, WordRemembered(r, k), n)
<1> DEFINE f == [Flags(r) EXCEPT !.last_word = TextOf(k)]
<1>1. f \in JsFrame /\ f.mode = Flags(r).mode
  BY FrameKept, FrameText
<1>2. WordRemembered(r, k) = SetFlag(r, f)
  BY DEF WordRemembered
<1> HIDE DEF f
<1> QED
  BY <1>1, <1>2, FlagStep

\* handle_word
LEMMA WordIs ==
    ASSUME NEW q, NEW k \in Nat, k >= 1, Good(q, k - 1), TextOf(k) \in JsText
    PROVE  /\ Retains(q, HandleWord(q, k), k)
           /\ q.token \notin {"else", "catch"} => Keeps(q, HandleWord(q, k), k)
           /\ q.token \in {"else", "catch"} /\ k - 1 >= 1 /\ TextOf(k - 1) # "close"
                  => Apart(HandleWord(q, k).lines, k - 1)
<1> DEFINE n == k - 1
           a == WordBegun(q, k)
           o == DoEnded(a)
           b == IfUnwound(o, k)
           h == FunctionBegun(b, k)
           i == IF q.token = "function" THEN h ELSE b
           c == Continued(i, k)
           e == WordPlaced(c, k)
           t == JsPrintToken(e, k)
           d == WordRemembered(t, k)
           x == Space(a)
           y == JsPrintToken(x, k)
           w == Space(y)
           f == [Flags(w) EXCEPT !.do_while = TRUE]
           z == JsPrintToken(c, k)
           g == [Flags(d) EXCEPT !.do_block = (Flags(d).do_block \/ q.token = "do"),
                                 !.if_block = (Flags(d).if_block \/ q.token = "if")]
           u == Flags(a).do_block /\ ~Flags(a).do_while /\ q.token = "while"
           v == q.token = "case" \/ (q.token = "default" /\ Flags(b).in_case_statement)
<1>1. HandleWord(q, k) = IF u THEN SetFlag(w, f)
                         ELSE IF v THEN CaseWord(b, k)
                         ELSE IF q.token = "function" THEN WordRemembered(z, k)
                         ELSE SetFlag(d, g)
  BY DEF HandleWord
<1>16. q.token \in {"else", "catch"} => ~u /\ ~v /\ q.token # "function"
  OBVIOUS
<1> HIDE DEF u, v
<1>2. n \in Nat /\ Keeps(q, q, n) /\ Good(q, n) /\ TRUE \in BOOLEAN /\ FALSE \in BOOLEAN
  BY KeepsSelf
<1> HIDE DEF n
<1>3. Keeps(q, a, n)
  BY <1>2, WordBegunIs
<1> HIDE DEF a
<1>4. Keeps(q, o, n)
  BY <1>2, <1>3, DoEndedIs
<1> HIDE DEF o
<1>5. Keeps(q, b, n)
  BY <1>2, <1>4, IfUnwoundIs
<1> HIDE DEF b
<1>6. Keeps(q, h, n)
  BY <1>2, <1>5, FunctionBegunIs
<1> HIDE DEF h
<1>7. Keeps(q, i, n)
  BY <1>5, <1>6
<1> HIDE DEF i
<1>8. Keeps(q, c, n)
  BY <1>2, <1>7, ContinuedIs
<1> HIDE DEF c
<1>9. /\ Retains(q, e, n) /\ (q.token \notin {"else", "catch"} => Keeps(q, e, n))
      /\ q.token \in {"else", "catch"} /\ n >= 1 /\ TextOf(n) # "close" => JustAddedNewline(e)
  BY <1>2, <1>8, WordPlacedIs
<1> HIDE DEF e
<1>17. Good(e, n) /\ Keeps(e, e, n) /\ Keeps(q, x, n)
  BY <1>2, <1>3, <1>9, RetainsSteps, KeepsSelf, Steps
<1> HIDE DEF x
<1>10. Keeps(e, t, k) /\ Keeps(q, y, k) /\ Keeps(q, z, k) /\ Keeps(q, CaseWord(b, k), k)
  BY <1>5, <1>8, <1>17, TokenStep, CaseWordIs DEF n
<1> HIDE DEF t, y, z
<1>11. Keeps(e, d, k) /\ Keeps(q, w, k) /\ Keeps(q, WordRemembered(z, k), k)
  BY <1>2, <1>10, WordRememberedIs, Steps
<1> HIDE DEF d, w
<1>12. f \in JsFrame /\ f.mode = Flags(w).mode
  BY <1>2, <1>11, FrameKept, FrameSet
<1>13. g \in JsFrame /\ g.mode = Flags(d).mode
  <2> DEFINE l == Flags(d).do_block \/ q.token = "do"
             m == Flags(d).if_block \/ q.token = "if"
  <2>1. l \in BOOLEAN /\ m \in BOOLEAN
    OBVIOUS
  <2> HIDE DEF l, m
  <2>2. Flags(d) \in JsFrame
    BY <1>11, FrameKept
  <2>3. g = [Flags(d) EXCEPT !.do_block = l, !.if_block = m]
    BY DEF l, m
  <2> HIDE DEF g
  <2> QED
    BY <2>1, <2>2, <2>3, FrameSetTwo
<1> HIDE DEF f, g
<1> DEFINE s == SetFlag(d, g)
<1>14. Keeps(q, SetFlag(w, f), k) /\ Keeps(e, s, k)
  BY <1>11, <1>12, <1>13, FlagStep
<1> HIDE DEF s
<1>15. /\ Retains(q, s, k) /\ Retains(q, SetFlag(w, f), k) /\ Retains(q, CaseWord(b, k), k)
       /\ Retains(q, WordRemembered(z, k), k) /\ (q.token \notin {"else", "catch"} => Keeps(q, s, k))
  BY <1>9, <1>10, <1>11, <1>14, RetainsSteps, KeepsTwice
<1>18. q.token \in {"else", "catch"} /\ n >= 1 /\ TextOf(n) # "close" => Apart(s.lines, n)
  <2> SUFFICES ASSUME q.token \in {"else", "catch"}, n >= 1, TextOf(n) # "close" PROVE Apart(s.lines, n)
    OBVIOUS
  <2>1. Fresh(e.lines, n)
    BY <1>2, <1>9, <1>17, FreshIs
  <2>2. Good(s, n + 1) /\ Follows(e, s)
    BY <1>14 DEF Keeps, n
  <2> QED
    BY <1>2, <1>17, <2>1, <2>2, FreshApart
<1> QED
  BY <1>1, <1>10, <1>11, <1>14, <1>15, <1>16, <1>18 DEF s, n

\* The colon of a case.
LEMMA CaseColonIs ==
    ASSUME NEW q, NEW r, NEW k \in Nat, k >= 1, Keeps(q, r, k - 1)
    PROVE  Keeps(q, CaseColon(r, k), k)
<1> DEFINE n == k - 1
           f == [Flags(r) EXCEPT !.case_body = TRUE]
           s == SetFlag(r, f)
           a == Indent(s)
           t == JsPrintToken(a, k)
           b == JsPrintNewline(t, FALSE)
           g == [Flags(b) EXCEPT !.in_case = FALSE]
<1>1. CaseColon(r, k) = SetFlag(b, g)
  BY DEF CaseColon
<1>2. n \in Nat /\ Keeps(q, r, n) /\ TRUE \in BOOLEAN /\ FALSE \in BOOLEAN
  OBVIOUS
<1> HIDE DEF n
<1>3. f \in JsFrame /\ f.mode = Flags(r).mode
  BY <1>2, FrameKept, FrameSet
<1> HIDE DEF f
<1>4. Keeps(q, s, n)
  BY <1>2, <1>3, FlagStep
<1> HIDE DEF s
<1>5. Keeps(q, a, n)
  BY <1>2, <1>4, Steps
<1> HIDE DEF a
<1>6. Keeps(q, t, k)
  BY <1>5, TokenStep DEF n
<1> HIDE DEF t
<1>7. Keeps(q, b, k)
  BY <1>2, <1>6, Steps
<1> HIDE DEF b
<1>8. g \in JsFrame /\ g.mode = Flags(b).mode
  BY <1>2, <1>7, FrameKept, FrameSet
<1> HIDE DEF g
<1> QED
  BY <1>1, <1>7, <1>8, FlagStep

\* An operator with two operands.
LEMMA BinaryOperatorIs ==
    ASSUME NEW q, NEW r, NEW k \in Nat, k >= 1, Keeps(q, r, k - 1)
    PROVE  Keeps(q, BinaryOperator(r, k), k)
<1> DEFINE n == k - 1
           depth == Flags(r).ternary_depth
           ternary == depth > 0
           deep == IF r.token = "?" THEN depth + 1 ELSE IF r.token = ":" /\ ternary THEN depth - 1 ELSE depth
           f == [Flags(r) EXCEPT !.ternary_depth = deep]
           a == SetFlag(r, f)
           v == r.token # ":" \/ ternary
           s == [a EXCEPT !.space = v]
           b == JsPrintToken(s, k)
           e == IF v THEN AllowNewline(b, k, FALSE) ELSE b
<1>1. BinaryOperator(r, k) = Space(e)
  BY DEF BinaryOperator
<1>2. n \in Nat /\ Keeps(q, r, n) /\ FALSE \in BOOLEAN
  OBVIOUS
<1> HIDE DEF n
<1>3. depth \in Nat /\ Flags(r) \in JsFrame
  BY <1>2, FrameKept
<1>4. deep \in Nat /\ v \in BOOLEAN
  <2> HIDE DEF depth
  <2> QED
    BY <1>3
<1> HIDE DEF depth, ternary, deep, v
<1>5. f \in JsFrame /\ f.mode = Flags(r).mode
  BY <1>3, <1>4, FrameNumber
<1> HIDE DEF f
<1>6. Keeps(q, a, n)
  BY <1>2, <1>5, FlagStep
<1> HIDE DEF a
<1>7. Keeps(q, s, n)
  BY <1>2, <1>4, <1>6, SpaceStep
<1> HIDE DEF s
<1>8. Keeps(q, b, k)
  BY <1>7, TokenStep DEF n
<1> HIDE DEF b
<1>9. Keeps(q, e, k)
  BY <1>2, <1>8, Steps
<1> HIDE DEF e
<1> QED
  BY <1>1, <1>2, <1>9, Steps

\* An operator with one operand.
LEMMA UnaryOperatorIs ==
    ASSUME NEW q, NEW r, NEW k \in Nat, k >= 1, Keeps(q, r, k - 1)
    PROVE  Keeps(q, UnaryOperator(r, k), k)
<1> DEFINE n == k - 1
           a == IF Wanted(k) /\ r.token = "++" THEN NewlineInStatement(r) ELSE r
           text == Flags(a).last_text
           before == \/ /\ text = "semicolon" /\ IsExpression(Flags(a).mode)
                        /\ r.last_type \notin {"END_EXPR", "OPERATOR"}
                     \/ r.last_type = "RESERVED"
                     \/ r.last_type = "END_EXPR" /\ ~(text = "]" /\ r.token = "++")
                     \/ r.last_type = "OPERATOR" /\ r.token \in {"++", "+"} /\ text \in {"++", "+"}
           b == IF Flags(a).mode \in {"BlockStatement", "Statement"} /\ text \in {"open", "semicolon"}
                THEN JsPrintNewline(a, FALSE) ELSE a
           v == b.space \/ before
           s == [b EXCEPT !.space = v]
           c == JsPrintToken(s, k)
           w == r.last_type = "OPERATOR" /\ r.token = "+" /\ text = "++"
<1>1. UnaryOperator(r, k) = [c EXCEPT !.space = w]
  BY DEF UnaryOperator
<1>2. n \in Nat /\ Keeps(q, r, n) /\ FALSE \in BOOLEAN
  OBVIOUS
<1> HIDE DEF n
<1>3. w \in BOOLEAN /\ v \in BOOLEAN
  OBVIOUS
<1> HIDE DEF w, before, v
<1>4. Keeps(q, a, n)
  BY <1>2, Steps
<1> HIDE DEF a, text
<1>5. Keeps(q, b, n)
  BY <1>2, <1>4, Steps
<1> HIDE DEF b
<1>6. Keeps(q, s, n)
  BY <1>2, <1>3, <1>5, SpaceStep
<1> HIDE DEF s
<1>7. Keeps(q, c, k)
  BY <1>6, TokenStep DEF n
<1> HIDE DEF c
<1> QED
  BY <1>1, <1>3, <1>7, SpaceStep

\* handle_operator
LEMMA OperatorIs ==
    ASSUME NEW q, NEW k \in Nat, k >= 1, Good(q, k - 1)
    PROVE  Keeps(q, HandleOperator(q, k), k)
<1> DEFINE n == k - 1
           a == StartOfStatement(q, k)
           b == IF q.last_type = "OPERATOR" THEN AllowNewline(a, k, FALSE) ELSE a
           c == Space(a)
           d == JsPrintToken(c, k)
           e == Space(b)
           f == JsPrintToken(e, k)
           g == JsPrintToken(a, k)
<1>1. HandleOperator(q, k) \in {d, g, CaseColon(b, k), UnaryOperator(b, k), BinaryOperator(b, k), Space(f)}
  BY DEF HandleOperator
<1>2. n \in Nat /\ Keeps(q, q, n) /\ TRUE \in BOOLEAN /\ FALSE \in BOOLEAN
  BY KeepsSelf
<1> HIDE DEF n
<1>3. Keeps(q, a, n)
  BY <1>2, Steps
<1> HIDE DEF a
<1>4. Keeps(q, b, n) /\ Keeps(q, c, n)
  BY <1>2, <1>3, Steps
<1> HIDE DEF b, c
<1>5. Keeps(q, e, n)
  BY <1>2, <1>4, Steps
<1> HIDE DEF e
<1>6. /\ Keeps(q, d, k) /\ Keeps(q, f, k) /\ Keeps(q, g, k) /\ Keeps(q, CaseColon(b, k), k) /\ Keeps(q, UnaryOperator(b, k), k)
      /\ Keeps(q, BinaryOperator(b, k), k)
  BY <1>3, <1>4, <1>5, TokenStep, CaseColonIs, UnaryOperatorIs, BinaryOperatorIs DEF n
<1> HIDE DEF d, f, g
<1>7. Keeps(q, Space(f), k)
  BY <1>2, <1>6, Steps
<1> QED
  BY <1>1, <1>6, <1>7

\* The empty lines of the source, one after the other.
PrintIs(f, q, m) ==
    f = [k \in 1 .. m |-> IF k = 1 THEN JsPrintNewline(q, FALSE) ELSE JsPrintNewline(f[k - 1], TRUE)]

\* There is such a sequence of states.
LEMMA PrintExists ==
    ASSUME NEW q, NEW m \in Nat
    PROVE  \E f : PrintIs(f, q, m)
<1> DEFINE Bad == {k \in Nat : ~\E f : PrintIs(f, q, k)}
<1>1. Bad = {}
  <2> SUFFICES ASSUME Bad # {} PROVE FALSE
    OBVIOUS
  <2>1. PICK k \in Bad : \A j \in Bad : k <= j
    BY LeastNumber, Bad \subseteq Nat
  <2>2. CASE k = 0
    <3> DEFINE f == [j \in 1 .. 0 |-> q]
    <3>1. PrintIs(f, q, 0)
      BY DEF PrintIs
    <3> QED
      BY <2>1, <2>2, <3>1
  <2>3. CASE k # 0
    <3>1. k - 1 \in Nat /\ k - 1 \notin Bad
      BY <2>1, <2>3
    <3>2. PICK g : PrintIs(g, q, k - 1)
      BY <3>1
    <3> DEFINE f == [j \in 1 .. k |-> IF j = 1 THEN JsPrintNewline(q, FALSE) ELSE JsPrintNewline(g[j - 1], TRUE)]
    <3>3. ASSUME NEW j \in 1 .. k, j # 1 PROVE f[j - 1] = g[j - 1]
      <4>1. j - 1 \in 1 .. k - 1 /\ j - 1 \in 1 .. k
        BY <3>3
      <4>2. g[j - 1] = IF j - 1 = 1 THEN JsPrintNewline(q, FALSE) ELSE JsPrintNewline(g[(j - 1) - 1], TRUE)
        BY <3>2, <4>1 DEF PrintIs
      <4> QED
        BY <4>1, <4>2
    <3>4. f = [j \in 1 .. k |-> IF j = 1 THEN JsPrintNewline(q, FALSE) ELSE JsPrintNewline(f[j - 1], TRUE)]
      BY <3>3
    <3>5. PrintIs(f, q, k)
      BY <3>4 DEF PrintIs
    <3> QED
      BY <2>1, <3>5
  <2> QED
    BY <2>2, <2>3
<1> QED
  BY <1>1

\* The empty lines of the source open and close no bracket.
LEMMA BlankLinesAre ==
    ASSUME NEW q, NEW n \in Nat, Good(q, n), NEW k, js[k].nl \in Nat, JsMaxPreserve \in Nat \ {0}
    PROVE  Keeps(q, BlankLines(q, k), n)
<1> DEFINE m == Min({js[k].nl, JsMaxPreserve})
           print == CHOOSE f : f = [i \in 1 .. m |-> IF i = 1 THEN JsPrintNewline(q, FALSE)
                                                    ELSE JsPrintNewline(f[i - 1], TRUE)]
<1>1. BlankLines(q, k) = IF js[k].nl > 1 THEN print[m] ELSE q
  BY DEF BlankLines
<1>2. CASE js[k].nl > 1
  <2>1. m \in Nat /\ m >= 1
    <3>1. m \in {js[k].nl, JsMaxPreserve}
      BY <1>2 DEF Min
    <3> QED
      BY <1>2, <3>1
  <2> HIDE DEF m
  <2>2. PrintIs(print, q, m)
    <3>1. \E f : PrintIs(f, q, m)
      BY <2>1, PrintExists
    <3>2. \E f : f = [i \in 1 .. m |-> IF i = 1 THEN JsPrintNewline(q, FALSE) ELSE JsPrintNewline(f[i - 1], TRUE)]
      BY <3>1 DEF PrintIs
    <3>3. print = [i \in 1 .. m |-> IF i = 1 THEN JsPrintNewline(q, FALSE) ELSE JsPrintNewline(print[i - 1], TRUE)]
      BY <3>2
    <3> QED
      BY <3>3 DEF PrintIs
  <2> HIDE DEF print
  <2>3. Keeps(q, q, n) /\ TRUE \in BOOLEAN /\ FALSE \in BOOLEAN
    BY KeepsSelf
  <2> DEFINE Bad == {i \in 1 .. m : ~Keeps(q, print[i], n)}
  <2>4. Bad = {}
    <3> SUFFICES ASSUME Bad # {} PROVE FALSE
      OBVIOUS
    <3>1. PICK i \in Bad : \A j \in Bad : i <= j
      BY LeastNumber, <2>1, Bad \subseteq Nat
    <3>2. print[i] = IF i = 1 THEN JsPrintNewline(q, FALSE) ELSE JsPrintNewline(print[i - 1], TRUE)
      BY <2>2 DEF PrintIs
    <3>3. CASE i = 1
      <4>1. Keeps(q, JsPrintNewline(q, FALSE), n)
        BY <2>3, Steps
      <4> QED
        BY <3>2, <3>3, <4>1
    <3>4. CASE i # 1
      <4>1. i - 1 \in 1 .. m /\ i - 1 \notin Bad
        BY <2>1, <3>1, <3>4
      <4>2. Keeps(q, print[i - 1], n)
        BY <4>1
      <4>3. Keeps(q, JsPrintNewline(print[i - 1], TRUE), n)
        BY <2>3, <4>2, Steps
      <4> QED
        BY <3>2, <3>4, <4>3
    <3> QED
      BY <3>3, <3>4
  <2> QED
    BY <1>1, <1>2, <2>1, <2>4
<1>3. CASE ~(js[k].nl > 1)
  BY <1>1, <1>3, KeepsSelf
<1> QED
  BY <1>2, <1>3

\* What the kinds of tokens are.
LEMMA TokenKinds ==
    ASSUME NEW t \in JsToken
    PROVE  /\ JsTokenType[t] \in JsKind
           /\ JsTokenType[t] = "START_EXPR" => t \in {"(", "["}
           /\ JsTokenType[t] = "END_EXPR" => t \in {")", "]"}
           /\ JsTokenType[t] = "START_BLOCK" => t = "open"
           /\ JsTokenType[t] = "END_BLOCK" => t = "close"
           /\ JsTokenType[t] \notin {"START_EXPR", "END_EXPR", "START_BLOCK", "END_BLOCK"}
                  => t \notin {"(", "[", ")", "]", "open", "close"}
           /\ JsTokenType[t] = "EOF" <=> t = "eof"
<1> DEFINE kind == JsTokenType[t]
<1>1. CASE t \in ReservedWords
  <2>0. t \notin Operators
    BY <1>1 DEF Operators, Positionable, ReservedWords, StatementWords
  <2>1. kind = "RESERVED"
    <3>1. \A x \in {"/**/", "/*..*/", "//", "word", "string", "(", "[", ")", "]", "open", "close", "semicolon",
                     "=", "comma", "."} : t # x
      BY <1>1 DEF ReservedWords, StatementWords
    <3> QED
      BY <1>1, <2>0, <3>1 DEF JsTokenType
  <2>2. t \notin {"(", "[", ")", "]", "open", "close", "eof"}
    BY <1>1 DEF ReservedWords, StatementWords
  <2> QED
    BY <2>1, <2>2 DEF JsKind
<1>2. CASE t \in Operators
  <2>1. t \notin ReservedWords
    BY <1>2 DEF Operators, Positionable, ReservedWords, StatementWords
  <2>2. kind = "OPERATOR" /\ t \notin {"(", "[", ")", "]", "open", "close", "eof"}
    BY <1>2, <2>1 DEF JsTokenType, Operators, Positionable
  <2> QED
    BY <2>2 DEF JsKind
<1>3. CASE t \notin ReservedWords /\ t \notin Operators
  <2>1. t \in CommentTokens \cup {"word", "string", "(", "[", ")", "]", "open", "close", "semicolon", "=", "comma", ".", "eof"}
    BY <1>3 DEF JsToken
  <2>2. CASE t \in CommentTokens
    BY <1>3, <2>2 DEF JsTokenType, CommentTokens, JsKind
  <2>3. CASE t \in {"word", "string", "(", "[", ")", "]"}
    BY <1>3, <2>3 DEF JsTokenType, CommentTokens, JsKind
  <2>4. CASE t \in {"open", "close", "semicolon", "=", "comma", ".", "eof"}
    BY <1>3, <2>4 DEF JsTokenType, CommentTokens, JsKind
  <2> QED
    BY <2>1, <2>2, <2>3, <2>4
<1> QED
  BY <1>1, <1>2, <1>3

\* A token of the script.
LEMMA ScriptTokenAt ==
    ASSUME JsAssumption, js \in JsSource, NEW k \in 1 .. Len(js)
    PROVE  /\ js \in Seq([t : JsToken, nl : Nat]) /\ Len(js) \in Nat
           /\ TextOf(k) \in JsToken /\ TextOf(k) \in JsText /\ js[k].nl \in Nat
           /\ TextOf(k) = "eof" <=> k = Len(js)
<1>1. js \in Seq([t : JsToken, nl : Nat])
  BY DEF JsAssumption
<1>2. js[k] \in [t : JsToken, nl : Nat]
  BY <1>1, ElementOfSeq
<1>3. js[k].t = "eof" <=> k = Len(js)
  BY DEF JsAssumption
<1> QED
  BY <1>1, <1>2, <1>3 DEF TextOf, JsText

\* The token that comes, behind its empty lines.
LEMMA TakenIs ==
    ASSUME JsAssumption, js \in JsSource, NEW k \in 1 .. Len(js), NEW q, NEW n \in Nat, Good(q, n)
    PROVE  /\ Good(Take(q, k), n) /\ Opened(Take(q, k)) = Opened(q)
           /\ Take(q, k).token \in JsToken
<1> DEFINE p == BlankLines(q, k)
           name == /\ TextOf(k) \in ReservedWords /\ Flags(p).mode = "ObjectLiteral"
                   /\ TextOf(NextToken(k)) = ":"
           t == IF name THEN "word" ELSE TextOf(k)
           r == [p EXCEPT !.token = t]
<1>1. Take(q, k) = r
  BY DEF Take
<1>2. Keeps(q, p, n)
  BY ScriptTokenAt, BlankLinesAre DEF JsAssumption
<1>3. t \in JsToken /\ t \in JsText
  BY ScriptTokenAt DEF JsToken, JsText
<1> HIDE DEF p, t
<1>4. p \in JsState
  BY <1>2 DEF Keeps, Good
<1>5. r \in JsState /\ r.flags = p.flags /\ r.lines = p.lines /\ r.token = t
  BY <1>3, <1>4 DEF JsState
<1> HIDE DEF r
<1>6. Good(r, n) /\ Opened(r) = Opened(q)
  BY <1>2, <1>5 DEF Keeps, Good, Opened
<1> QED
  BY <1>1, <1>3, <1>5, <1>6

\* What is kept of a token that was handled.
Remembered(r, k) ==
    IF TextOf(k) \in CommentTokens THEN r
    ELSE [SetFlag(r, [Flags(r) EXCEPT !.last_text = TextOf(k)])
             EXCEPT !.last_last_text = Flags(r).last_text, !.last_type = TokenType(r)]

\* It changes no bracket and no token.
LEMMA RememberedIs ==
    ASSUME NEW k, TextOf(k) \in JsText, NEW r, NEW n \in Nat, Good(r, n), r.token \in JsToken
    PROVE  /\ Good(Remembered(r, k), n) /\ Opened(Remembered(r, k)) = Opened(r)
           /\ Flags(Remembered(r, k)).mode = Flags(r).mode
<1> DEFINE f == [Flags(r) EXCEPT !.last_text = TextOf(k)]
           p == SetFlag(r, f)
           x == Flags(r).last_text
           y == TokenType(r)
           s == [p EXCEPT !.last_last_text = x, !.last_type = y]
<1>1. Remembered(r, k) = IF TextOf(k) \in CommentTokens THEN r ELSE s
  BY DEF Remembered
<1>2. f \in JsFrame /\ f.mode = Flags(r).mode /\ x \in JsText
  <2>1. Flags(r) \in JsFrame
    BY StateParts
  <2> QED
    BY <2>1, FrameText DEF JsFrame
<1>3. y \in JsKind
  BY TokenKinds DEF TokenType
<1> HIDE DEF f, x, y
<1>4. Unwinds(r, p, n) /\ Flags(p) = f
  BY <1>2, SetFlagIs
<1> HIDE DEF p
<1>5. s \in JsState /\ s.flags = p.flags /\ s.lines = p.lines
  BY <1>2, <1>3, <1>4 DEF Unwinds, Keeps, Good, JsState
<1> HIDE DEF s
<1>6. Good(s, n) /\ Opened(s) = Opened(r) /\ Flags(s) = f
  BY <1>4, <1>5 DEF Unwinds, Keeps, Good, Opened, Flags
<1> QED
  BY <1>1, <1>2, <1>6

-----------------------------------------------------------------------------
\* The brackets that are open, by the tokens in turn.
BracketsAre(f, m) ==
    f = [n \in 0 .. m |-> IF n = 0 THEN <<>> ELSE BracketsAfter(f[n - 1], n)]

\* There is such a sequence of brackets.
LEMMA BracketsExist ==
    ASSUME NEW m \in Nat
    PROVE  \E f : BracketsAre(f, m)
<1> DEFINE Bad == {k \in Nat : ~\E f : BracketsAre(f, k)}
<1>1. Bad = {}
  <2> SUFFICES ASSUME Bad # {} PROVE FALSE
    OBVIOUS
  <2>1. PICK k \in Bad : \A j \in Bad : k <= j
    BY LeastNumber, Bad \subseteq Nat
  <2>2. k # 0
    <3> DEFINE g == [n \in 0 .. 0 |-> <<>>]
    <3>1. BracketsAre(g, 0)
      BY DEF BracketsAre
    <3> QED
      BY <3>1, <2>1
  <2>3. k - 1 \in Nat /\ k - 1 \notin Bad
    BY <2>1, <2>2
  <2>4. PICK f : BracketsAre(f, k - 1)
    BY <2>3
  <2> DEFINE g == [n \in 0 .. k |-> IF n = k THEN BracketsAfter(f[k - 1], n) ELSE f[n]]
  <2>5. BracketsAre(g, k)
    BY <2>1, <2>2, <2>3, <2>4 DEF BracketsAre
  <2> QED
    BY <2>5, <2>1
<1> QED
  BY <1>1

\* A token adds itself, takes the last one off, or does neither.
LEMMA OpenBracketsAre ==
    ASSUME JsAssumption, js \in JsSource
    PROVE  /\ OpenBrackets[0] = <<>>
           /\ \A n \in 1 .. Len(js) : OpenBrackets[n] = BracketsAfter(OpenBrackets[n - 1], n)
<1>1. Len(js) \in Nat
  BY DEF JsAssumption
<1>2. \E f : BracketsAre(f, Len(js))
  BY <1>1, BracketsExist
<1>3. \E f : f = [n \in 0 .. Len(js) |-> IF n = 0 THEN <<>> ELSE BracketsAfter(f[n - 1], n)]
  BY <1>2 DEF BracketsAre
<1>4. OpenBrackets = [n \in 0 .. Len(js) |-> IF n = 0 THEN <<>> ELSE BracketsAfter(OpenBrackets[n - 1], n)]
  BY <1>3 DEF OpenBrackets
<1>5. OpenBrackets[0] = <<>>
  <2>1. 0 \in 0 .. Len(js)
    BY <1>1
  <2> QED
    BY <1>4, <2>1
<1>6. ASSUME NEW n \in 1 .. Len(js) PROVE OpenBrackets[n] = BracketsAfter(OpenBrackets[n - 1], n)
  <2>1. n \in 0 .. Len(js) /\ n # 0
    BY <1>1
  <2> QED
    BY <1>4, <2>1
<1> QED
  BY <1>5, <1>6

\* A sequence without its last element.
LEMMA FrontIs ==
    ASSUME NEW S, NEW s \in Seq(S), s # <<>>
    PROVE  Front(s) \in Seq(S) /\ Len(Front(s)) = Len(s) - 1 /\ Len(s) \in Nat
<1>1. Len(s) \in Nat /\ Len(s) >= 1
  OBVIOUS
<1>2. Front(s) = SubSeq(s, 1, Len(s) - 1)
  BY DEF Front
<1>3. SubSeq(s, 1, Len(s) - 1) \in Seq(S) /\ Len(SubSeq(s, 1, Len(s) - 1)) = Len(s) - 1
  <2>1. Len(s) - 1 \in 0 .. Len(s)
    BY <1>1
  <2> QED
    BY <2>1, CutSeq
<1> QED
  BY <1>1, <1>2, <1>3

\* They are a sequence of places.
LEMMA OpenBracketsSeq ==
    ASSUME JsAssumption, js \in JsSource, NEW n \in 0 .. Len(js)
    PROVE  OpenBrackets[n] \in Seq(Nat)
<1> DEFINE Bad == {k \in 0 .. Len(js) : OpenBrackets[k] \notin Seq(Nat)}
<1>1. Len(js) \in Nat
  BY DEF JsAssumption
<1>2. Bad = {}
  <2> SUFFICES ASSUME Bad # {} PROVE FALSE
    OBVIOUS
  <2>1. PICK k \in Bad : \A j \in Bad : k <= j
    BY <1>1, LeastNumber, Bad \subseteq Nat
  <2>2. k # 0
    <3>1. <<>> \in Seq(Nat)
      OBVIOUS
    <3> QED
      BY <2>1, <3>1, OpenBracketsAre
  <2>3. k \in 1 .. Len(js) /\ k - 1 \in 0 .. Len(js) /\ k - 1 \notin Bad /\ k \in Nat
    BY <1>1, <2>1, <2>2
  <2> DEFINE o == OpenBrackets[k - 1]
  <2>4. o \in Seq(Nat)
    BY <2>3
  <2>5. OpenBrackets[k] = BracketsAfter(o, k)
    BY <2>3, OpenBracketsAre
  <2> HIDE DEF o
  <2>6. o # <<>> => Front(o) \in Seq(Nat)
    BY <2>4, FrontIs
  <2>7. BracketsAfter(o, k) \in Seq(Nat)
    BY <2>3, <2>4, <2>6 DEF BracketsAfter
  <2> QED
    BY <2>1, <2>5, <2>7
<1> QED
  BY <1>2

\* As many frames as brackets, and no statement behind the last token.
JsInv ==
    /\ js \in JsSource /\ at \in 0 .. Len(js)
    /\ Good(fmt, Min({at, Len(js) - 1}))
    /\ IsFiniteSet(Opened(fmt)) /\ Cardinality(Opened(fmt)) = 2 + Len(OpenBrackets[at])
    /\ at = Len(js) => Flags(fmt).mode # "Statement"

\* The end of the file is not printed.
LEMMA PrintedTo ==
    ASSUME NEW L \in Nat, NEW a \in Nat
    PROVE  /\ a < L => Min({a, L - 1}) = a
           /\ a = L /\ L >= 1 => Min({a, L - 1}) = L - 1
<1>1. ASSUME a < L PROVE Min({a, L - 1}) = a
  <2>1. \A y \in {a, L - 1} : a <= y
    BY <1>1
  <2>2. \A x \in {a, L - 1} : (\A y \in {a, L - 1} : x <= y) => x = a
    BY <1>1
  <2> QED
    BY <2>1, <2>2 DEF Min
<1>2. ASSUME a = L, L >= 1 PROVE Min({a, L - 1}) = L - 1
  <2>1. \A y \in {a, L - 1} : L - 1 <= y
    BY <1>2
  <2>2. \A x \in {a, L - 1} : (\A y \in {a, L - 1} : x <= y) => x = L - 1
    BY <1>2
  <2> QED
    BY <2>1, <2>2 DEF Min
<1> QED
  BY <1>1, <1>2

\* A script has a token.
LEMMA ScriptLength ==
    ASSUME JsAssumption, js \in JsSource
    PROVE  Len(js) \in Nat /\ Len(js) >= 1
<1>1. js \in Seq([t : JsToken, nl : Nat]) /\ js # <<>>
  BY DEF JsAssumption
<1> QED
  BY <1>1

\* The two frames of the script are two.
LEMMA PairIs == IsFiniteSet({1, 2}) /\ Cardinality({1, 2}) = 2
<1>1. IsFiniteSet({1}) /\ Cardinality({1}) = 1
  BY FS_Singleton
<1>2. IsFiniteSet({1} \cup {2}) /\ Cardinality({1} \cup {2}) = 1 + 1
  BY <1>1, FS_AddElement, 2 \notin {1}
<1>3. {1, 2} = {1} \cup {2}
  OBVIOUS
<1> QED
  BY <1>2, <1>3

\* Nothing is printed and open at first.
LEMMA JsInvInit ==
    ASSUME JsAssumption, JsInit
    PROVE  JsInv
<1>1. js \in JsSource /\ Len(js) \in Nat /\ Len(js) >= 1 /\ at = 0
  BY ScriptLength DEF JsInit, JsBegin
<1>2. Min({at, Len(js) - 1}) = 0
  BY <1>1, PrintedTo
<1>3. /\ fmt.flags = <<NewFlags, NewFlags>> /\ fmt.lines = <<EmptyLine>> /\ fmt \in JsState
  <2>1. NewFlags \in JsFrame /\ EmptyLine \in JsLine
    BY NewFrame, EmptyLineIs
  <2>2. "START_BLOCK" \in JsKind /\ "none" \in JsText /\ FALSE \in BOOLEAN
    BY DEF JsKind, JsText
  <2> DEFINE e == EmptyLine
             f == NewFlags
  <2>3. fmt = [flags |-> <<f, f>>, previous |-> f, lines |-> <<e>>, space |-> FALSE,
               last_type |-> "START_BLOCK", last_last_text |-> "none", token |-> "none"]
    BY DEF JsInit, JsBegin
  <2> HIDE DEF e, f
  <2>4. <<f, f>> \in Seq(JsFrame) /\ <<e>> \in Seq(JsLine)
    BY <2>1 DEF e, f
  <2>5. fmt.flags = <<f, f>> /\ fmt.lines = <<e>> /\ fmt \in JsState
    BY <2>1, <2>2, <2>3, <2>4 DEF JsState, f
  <2> QED
    BY <2>5 DEF e, f
<1>4. /\ Len(fmt.flags) = 2 /\ fmt.flags[1].mode # "Statement" /\ fmt.flags[2].mode # "Statement"
      /\ Len(fmt.lines) = 1 /\ fmt.lines[1].items = <<>> /\ DOMAIN fmt.lines = {1} /\ DOMAIN fmt.flags = {1, 2}
  <2>1. NewFlags.mode # "Statement" /\ EmptyLine.items = <<>>
    BY NewFrame, EmptyLineIs
  <2> QED
    BY <1>3, <2>1
<1>5. PrintsUpTo(fmt.lines, 0)
  <2>1. \A i \in DOMAIN fmt.lines : DOMAIN fmt.lines[i].items = {}
    BY <1>4
  <2>2. 1 .. 0 = {}
    OBVIOUS
  <2> QED
    BY <2>1, <2>2 DEF PrintsUpTo
<1>6. Good(fmt, 0)
  BY <1>3, <1>4, <1>5 DEF Good, Form, EndsInTokens
<1>7. Opened(fmt) = {1, 2}
  BY <1>4 DEF Opened
<1>8. IsFiniteSet(Opened(fmt)) /\ Cardinality(Opened(fmt)) = 2
  BY <1>7, PairIs
<1>9. Len(OpenBrackets[at]) = 0
  BY <1>1, OpenBracketsAre
<1> QED
  BY <1>1, <1>2, <1>6, <1>8, <1>9 DEF JsInv

\* Before a token that comes.
LEMMA Ready ==
    ASSUME JsAssumption, JsInv, at < Len(js)
    PROVE  /\ Coming \in 1 .. Len(js) /\ Coming \in Nat /\ Coming >= 1 /\ Coming - 1 = at /\ at \in Nat
           /\ Good(Taken, Coming - 1) /\ Opened(Taken) = Opened(fmt) /\ Taken.token \in JsToken
           /\ TextOf(Coming) \in JsToken /\ TextOf(Coming) \in JsText
           /\ TextOf(Coming) = "eof" <=> Coming = Len(js)
           /\ OpenBrackets[at] \in Seq(Nat) /\ Len(OpenBrackets[at]) \in Nat
           /\ OpenBrackets[Coming] = BracketsAfter(OpenBrackets[at], Coming)
<1>1. js \in JsSource /\ at \in 0 .. Len(js) /\ Len(js) \in Nat
  BY ScriptLength DEF JsInv
<1>2. Coming \in 1 .. Len(js) /\ Coming \in Nat /\ Coming >= 1 /\ Coming - 1 = at /\ at \in Nat
  BY <1>1 DEF Coming
<1>3. Good(fmt, at)
  BY <1>1, <1>2, PrintedTo DEF JsInv
<1>4. Good(Taken, at) /\ Opened(Taken) = Opened(fmt) /\ Taken.token \in JsToken
  BY <1>1, <1>2, <1>3, TakenIs DEF Taken
<1>5. OpenBrackets[at] \in Seq(Nat)
  BY <1>1, OpenBracketsSeq
<1>6. OpenBrackets[Coming] = BracketsAfter(OpenBrackets[at], Coming)
  BY <1>1, <1>2, OpenBracketsAre
<1>7. TextOf(Coming) \in JsToken /\ TextOf(Coming) \in JsText /\ (TextOf(Coming) = "eof" <=> Coming = Len(js))
  BY <1>1, <1>2, ScriptTokenAt
<1>8. Len(OpenBrackets[at]) \in Nat
  BY <1>5, LenProperties
<1>9. Good(Taken, Coming - 1)
  BY <1>2, <1>4
<1> QED
  BY <1>2, <1>4, <1>5, <1>6, <1>7, <1>8, <1>9

\* What a step makes of what the handler answers.
LEMMA Handled ==
    ASSUME NEW types, NEW r, Handle(types, r)
    PROVE  /\ at < Len(js) /\ JsTokenType[TextOf(Coming)] \in types
           /\ at' = Coming /\ js' = js /\ fmt' = Remembered(r, Coming)
  BY DEF Handle, Remembered

\* Behind a token that is not the last one.
LEMMA NotLast ==
    ASSUME JsAssumption, JsInv, at < Len(js), at' = Coming, js' = js, TextOf(Coming) # "eof",
           NEW r, Good(r, Coming), r.token = Taken.token, fmt' = Remembered(r, Coming),
           IsFiniteSet(Opened(r)), Cardinality(Opened(r)) = 2 + Len(OpenBrackets[Coming])
    PROVE  JsInv'
<1>1. Coming < Len(js) /\ Coming \in Nat /\ Len(js) \in Nat /\ Coming \in 0 .. Len(js)
  <2>1. Coming \in 1 .. Len(js) /\ Coming # Len(js)
    BY Ready
  <2>2. Len(js) \in Nat
    BY ScriptLength DEF JsInv
  <2> QED
    BY <2>1, <2>2
<1>2. Good(fmt', Coming) /\ Opened(fmt') = Opened(r)
  BY Ready, RememberedIs
<1>3. OpenBrackets' = OpenBrackets
  BY DEF OpenBrackets, BracketsAfter, TextOf
<1>4. Min({Coming, Len(js) - 1}) = Coming
  BY <1>1, PrintedTo
<1>5. js' \in JsSource /\ at' \in 0 .. Len(js') /\ at' # Len(js')
  BY <1>1 DEF JsInv
<1>6. Good(fmt, Min({at, Len(js) - 1}))'
  BY <1>2, <1>4 DEF Good
<1>7. Opened(fmt)' = Opened(r)
  BY <1>2 DEF Opened
<1>8. (IsFiniteSet(Opened(fmt)) /\ Cardinality(Opened(fmt)) = 2 + Len(OpenBrackets[at]))'
  BY <1>3, <1>7
<1> QED
  BY <1>5, <1>6, <1>8 DEF JsInv

\* The frames stay, and so do the brackets.
LEMMA KeptStep ==
    ASSUME JsAssumption, JsInv, at < Len(js), at' = Coming, js' = js, TextOf(Coming) # "eof",
           TextOf(Coming) \notin {"(", "[", ")", "]", "open", "close"},
           NEW r, Retains(Taken, r, Coming), fmt' = Remembered(r, Coming)
    PROVE  JsInv'
<1>1. Good(r, Coming) /\ r.token = Taken.token /\ Opened(r) = Opened(fmt)
  BY Ready DEF Retains
<1>2. OpenBrackets[Coming] = OpenBrackets[at]
  BY Ready DEF BracketsAfter
<1> QED
  BY <1>1, <1>2, NotLast DEF JsInv

\* A bracket opens.
LEMMA OpenedStep ==
    ASSUME JsAssumption, JsInv, at < Len(js), at' = Coming, js' = js, TextOf(Coming) \in {"(", "[", "open"},
           NEW r, Opens(Taken, r, Coming), fmt' = Remembered(r, Coming)
    PROVE  JsInv'
<1>1. PICK m \in Nat : m \notin Opened(fmt) /\ Opened(r) = Opened(fmt) \cup {m}
  BY Ready DEF Opens
<1>2. /\ IsFiniteSet(Opened(r)) /\ Cardinality(Opened(r)) = Cardinality(Opened(fmt)) + 1
  BY <1>1, FS_AddElement DEF JsInv
<1> DEFINE o == OpenBrackets[at]
<1>3. o \in Seq(Nat) /\ Coming \in Nat /\ Len(o) \in Nat
  BY Ready
<1>4. OpenBrackets[Coming] = Append(o, Coming)
  BY Ready DEF BracketsAfter
<1>5. Cardinality(Opened(fmt)) = 2 + Len(o)
  BY DEF JsInv
<1> HIDE DEF o
<1>6. Len(OpenBrackets[Coming]) = Len(o) + 1
  BY <1>3, <1>4, AppendProperties
<1>7. Cardinality(Opened(r)) = 2 + Len(OpenBrackets[Coming])
  BY <1>2, <1>3, <1>5, <1>6
<1>8. Good(r, Coming) /\ r.token = Taken.token /\ TextOf(Coming) # "eof"
  BY DEF Opens, Follows
<1> QED
  BY <1>2, <1>7, <1>8, NotLast

\* A bracket closes, if one is open.
LEMMA ClosedStep ==
    ASSUME JsAssumption, JsInv, at < Len(js), at' = Coming, js' = js, TextOf(Coming) \in {")", "]", "close"},
           NEW r, Closes(Taken, r, Coming), fmt' = Remembered(r, Coming)
    PROVE  JsInv'
<1> DEFINE o == OpenBrackets[at]
           C == Opened(fmt)
<1>1. Opened(Taken) = C /\ o \in Seq(Nat) /\ Len(o) \in Nat
  BY Ready
<1>2. /\ 1 \in C /\ 2 \in C
  <2>1. Good(Taken, Coming - 1)
    BY Ready
  <2>2. 1 \in DOMAIN Taken.flags /\ 2 \in DOMAIN Taken.flags
    BY <2>1, StateParts
  <2> QED
    BY <1>1, <2>1, <2>2 DEF Opened, Good
<1>3. IsFiniteSet(C) /\ Cardinality(C) = 2 + Len(o)
  BY DEF JsInv
<1>4. OpenBrackets[Coming] = IF o # <<>> THEN Front(o) ELSE o
  BY Ready DEF BracketsAfter
<1>5. Good(r, Coming) /\ r.token = Taken.token /\ TextOf(Coming) # "eof"
  BY DEF Closes, Follows
<1>6. C = {1, 2} <=> o = <<>>
  <2>1. IsFiniteSet({1, 2}) /\ Cardinality({1, 2}) = 2
    BY PairIs
  <2>2. o = <<>> <=> Len(o) = 0
    BY <1>1, EmptySeq
  <2>3. ASSUME o = <<>> PROVE C = {1, 2}
    BY <1>2, <1>3, <2>1, <2>2, <2>3, FS_Subset
  <2>4. ASSUME C = {1, 2} PROVE o = <<>>
    <3>1. Cardinality(C) = 2
      BY <2>1, <2>4
    <3> HIDE DEF C, o
    <3>2. Len(o) = 0
      BY <1>1, <1>3, <3>1
    <3> QED
      BY <2>2, <3>2
  <2> QED
    BY <2>3, <2>4
<1>7. IsFiniteSet(Opened(r)) /\ Cardinality(Opened(r)) = 2 + Len(OpenBrackets[Coming])
  <2>1. CASE o = <<>>
    BY <1>1, <1>3, <1>4, <1>6, <2>1 DEF Closes
  <2>2. CASE o # <<>>
    <3>1. PICK m \in C : Opened(r) = C \ {m}
      BY <1>1, <1>6, <2>2 DEF Closes
    <3>2. IsFiniteSet(Opened(r)) /\ Cardinality(Opened(r)) = Cardinality(C) - 1
      BY <1>3, <3>1, FS_RemoveElement
    <3>3. Len(OpenBrackets[Coming]) = Len(o) - 1
      BY <1>1, <1>4, <2>2, FrontIs
    <3> HIDE DEF o, C
    <3> QED
      BY <1>1, <1>3, <3>2, <3>3
  <2> QED
    BY <2>1, <2>2
<1> QED
  BY <1>5, <1>7, NotLast

\* The end of the script.
LEMMA EndedStep ==
    ASSUME JsAssumption, JsInv, at < Len(js), at' = Coming, js' = js, TextOf(Coming) = "eof",
           fmt' = Remembered(HandleEof(Taken), Coming)
    PROVE  JsInv'
<1> DEFINE r == HandleEof(Taken)
           n == Coming - 1
<1>1. n \in Nat /\ Good(Taken, n)
  BY Ready
<1>2. Unwinds(Taken, r, n) /\ Flags(r).mode # "Statement"
  BY <1>1, CloseStatementsIs DEF HandleEof
<1> HIDE DEF r
<1>3. Good(r, n) /\ r.token \in JsToken /\ Opened(r) = Opened(fmt)
  BY <1>2, Ready DEF Unwinds, Keeps, Follows
<1>4. Good(fmt', n) /\ Opened(fmt') = Opened(fmt) /\ Flags(fmt').mode # "Statement"
  BY <1>1, <1>2, <1>3, Ready, RememberedIs DEF r
<1>5. OpenBrackets' = OpenBrackets
  BY DEF OpenBrackets, BracketsAfter, TextOf
<1>6. OpenBrackets[Coming] = OpenBrackets[at]
  BY Ready DEF BracketsAfter
<1>7. Coming = Len(js) /\ Len(js) \in Nat /\ Len(js) >= 1
  BY Ready, ScriptLength DEF JsInv
<1>8. Min({Coming, Len(js) - 1}) = n
  BY <1>7, PrintedTo
<1>9. Good(fmt, Min({at, Len(js) - 1}))'
  BY <1>4, <1>8 DEF Good
<1>10. (IsFiniteSet(Opened(fmt)) /\ Cardinality(Opened(fmt)) = 2 + Len(OpenBrackets[at]))'
  <2>1. Opened(fmt)' = Opened(fmt)
    BY <1>4 DEF Opened
  <2> QED
    BY <1>5, <1>6, <2>1 DEF JsInv
<1>11. js' \in JsSource /\ at' \in 0 .. Len(js') /\ (Flags(fmt).mode # "Statement")'
  <2>1. (Flags(fmt).mode # "Statement")'
    BY <1>4 DEF Flags
  <2> QED
    BY <1>7, <2>1 DEF JsInv
<1> QED
  BY <1>9, <1>10, <1>11 DEF JsInv

\* Every handler keeps the invariant.
LEMMA JsInvStep ==
    ASSUME JsAssumption, JsInv, JsNext
    PROVE  JsInv'
<1> DEFINE k == Coming
           q == Taken
<1>1. ASSUME NEW types, NEW r, Handle(types, r), types \subseteq JsKind
      PROVE  /\ at < Len(js) /\ at' = k /\ js' = js /\ fmt' = Remembered(r, k)
             /\ JsTokenType[TextOf(k)] \in types /\ TextOf(k) \in JsToken
             /\ k \in Nat /\ k >= 1 /\ Good(q, k - 1) /\ TextOf(k) \in JsText
  BY <1>1, Handled, Ready
<1> HIDE DEF k, q
<1>2. ASSUME Handle({"START_EXPR"}, HandleStartExpr(q, k)) PROVE JsInv'
  <2>1. Opens(q, HandleStartExpr(q, k), k)
    BY <1>1, <1>2, StartExprIs DEF JsKind
  <2>2. {"START_EXPR"} \subseteq JsKind
    BY DEF JsKind
  <2>3. /\ at < Len(js) /\ at' = k /\ js' = js /\ fmt' = Remembered(HandleStartExpr(q, k), k)
        /\ TextOf(k) \in JsToken /\ JsTokenType[TextOf(k)] = "START_EXPR"
    BY <1>1, <1>2, <2>2
  <2>4. TextOf(k) \in {"(", "[", "open"}
    BY <2>3, TokenKinds
  <2> QED
    BY <2>1, <2>3, <2>4, OpenedStep DEF k, q
<1>3. ASSUME Handle({"END_EXPR"}, HandleEndExpr(q, k)) PROVE JsInv'
  <2>1. Closes(q, HandleEndExpr(q, k), k)
    BY <1>1, <1>3, EndExprIs DEF JsKind
  <2>2. {"END_EXPR"} \subseteq JsKind
    BY DEF JsKind
  <2>3. /\ at < Len(js) /\ at' = k /\ js' = js /\ fmt' = Remembered(HandleEndExpr(q, k), k)
        /\ TextOf(k) \in JsToken /\ JsTokenType[TextOf(k)] = "END_EXPR"
    BY <1>1, <1>3, <2>2
  <2>4. TextOf(k) \in {")", "]", "close"}
    BY <2>3, TokenKinds
  <2> QED
    BY <2>1, <2>3, <2>4, ClosedStep DEF k, q
<1>4. ASSUME Handle({"START_BLOCK"}, HandleStartBlock(q, k)) PROVE JsInv'
  <2>1. Opens(q, HandleStartBlock(q, k), k)
    BY <1>1, <1>4, StartBlockIs DEF JsKind
  <2>2. {"START_BLOCK"} \subseteq JsKind
    BY DEF JsKind
  <2>3. /\ at < Len(js) /\ at' = k /\ js' = js /\ fmt' = Remembered(HandleStartBlock(q, k), k)
        /\ TextOf(k) \in JsToken /\ JsTokenType[TextOf(k)] = "START_BLOCK"
    BY <1>1, <1>4, <2>2
  <2>4. TextOf(k) \in {"(", "[", "open"}
    BY <2>3, TokenKinds
  <2> QED
    BY <2>1, <2>3, <2>4, OpenedStep DEF k, q
<1>5. ASSUME Handle({"END_BLOCK"}, HandleEndBlock(q, k)) PROVE JsInv'
  <2>1. Closes(q, HandleEndBlock(q, k), k)
    BY <1>1, <1>5, EndBlockIs DEF JsKind
  <2>2. {"END_BLOCK"} \subseteq JsKind
    BY DEF JsKind
  <2>3. /\ at < Len(js) /\ at' = k /\ js' = js /\ fmt' = Remembered(HandleEndBlock(q, k), k)
        /\ TextOf(k) \in JsToken /\ JsTokenType[TextOf(k)] = "END_BLOCK"
    BY <1>1, <1>5, <2>2
  <2>4. TextOf(k) \in {")", "]", "close"}
    BY <2>3, TokenKinds
  <2> QED
    BY <2>1, <2>3, <2>4, ClosedStep DEF k, q
\* A token that is no bracket and not the last.
<1>6. ASSUME NEW types, NEW r, Handle(types, r),
             types \subseteq JsKind \ {"START_EXPR", "END_EXPR", "START_BLOCK", "END_BLOCK", "EOF"},
             Keeps(q, r, k) \/ Retains(q, r, k)
      PROVE  JsInv'
  <2>1. /\ at < Len(js) /\ at' = k /\ js' = js /\ fmt' = Remembered(r, k)
        /\ JsTokenType[TextOf(k)] \in types /\ TextOf(k) \in JsToken
    BY <1>1, <1>6
  <2>2. /\ TextOf(k) # "eof" /\ TextOf(k) \notin {"(", "[", ")", "]", "open", "close"}
    BY <1>6, <2>1, TokenKinds
  <2> QED
    BY <1>6, <2>1, <2>2, KeptStep, RetainsSteps DEF k, q
<1>7. ASSUME Handle({"WORD", "RESERVED"}, HandleWord(q, k)) PROVE JsInv'
  <2>1. {"WORD", "RESERVED"} \subseteq JsKind \ {"START_EXPR", "END_EXPR", "START_BLOCK", "END_BLOCK", "EOF"}
    BY DEF JsKind
  <2>2. Retains(q, HandleWord(q, k), k)
    BY <1>1, <1>7, <2>1, WordIs
  <2> QED
    BY <1>6, <1>7, <2>1, <2>2
<1>8. ASSUME Handle({"SEMICOLON"}, HandleSemicolon(q, k)) PROVE JsInv'
  <2>1. {"SEMICOLON"} \subseteq JsKind \ {"START_EXPR", "END_EXPR", "START_BLOCK", "END_BLOCK", "EOF"}
    BY DEF JsKind
  <2>2. Keeps(q, HandleSemicolon(q, k), k)
    BY <1>1, <1>8, <2>1, SemicolonIs
  <2> QED
    BY <1>6, <1>8, <2>1, <2>2
<1>9. ASSUME Handle({"STRING"}, HandleString(q, k)) PROVE JsInv'
  <2>1. {"STRING"} \subseteq JsKind \ {"START_EXPR", "END_EXPR", "START_BLOCK", "END_BLOCK", "EOF"}
    BY DEF JsKind
  <2>2. Keeps(q, HandleString(q, k), k)
    BY <1>1, <1>9, <2>1, StringIs
  <2> QED
    BY <1>6, <1>9, <2>1, <2>2
<1>10. ASSUME Handle({"EQUALS"}, HandleEquals(q, k)) PROVE JsInv'
  <2>1. {"EQUALS"} \subseteq JsKind \ {"START_EXPR", "END_EXPR", "START_BLOCK", "END_BLOCK", "EOF"}
    BY DEF JsKind
  <2>2. Keeps(q, HandleEquals(q, k), k)
    BY <1>1, <1>10, <2>1, EqualsIs
  <2> QED
    BY <1>6, <1>10, <2>1, <2>2
<1>11. ASSUME Handle({"COMMA"}, HandleComma(q, k)) PROVE JsInv'
  <2>1. {"COMMA"} \subseteq JsKind \ {"START_EXPR", "END_EXPR", "START_BLOCK", "END_BLOCK", "EOF"}
    BY DEF JsKind
  <2>2. Keeps(q, HandleComma(q, k), k)
    BY <1>1, <1>11, <2>1, CommaIs
  <2> QED
    BY <1>6, <1>11, <2>1, <2>2
<1>12. ASSUME Handle({"OPERATOR"}, HandleOperator(q, k)) PROVE JsInv'
  <2>1. {"OPERATOR"} \subseteq JsKind \ {"START_EXPR", "END_EXPR", "START_BLOCK", "END_BLOCK", "EOF"}
    BY DEF JsKind
  <2>2. Keeps(q, HandleOperator(q, k), k)
    BY <1>1, <1>12, <2>1, OperatorIs
  <2> QED
    BY <1>6, <1>12, <2>1, <2>2
<1>13. ASSUME Handle({"BLOCK_COMMENT"}, HandleBlockComment(q, k)) PROVE JsInv'
  <2>1. {"BLOCK_COMMENT"} \subseteq JsKind \ {"START_EXPR", "END_EXPR", "START_BLOCK", "END_BLOCK", "EOF"}
    BY DEF JsKind
  <2>2. Keeps(q, HandleBlockComment(q, k), k)
    BY <1>1, <1>13, <2>1, BlockCommentIs
  <2> QED
    BY <1>6, <1>13, <2>1, <2>2
<1>14. ASSUME Handle({"COMMENT"}, HandleComment(q, k)) PROVE JsInv'
  <2>1. {"COMMENT"} \subseteq JsKind \ {"START_EXPR", "END_EXPR", "START_BLOCK", "END_BLOCK", "EOF"}
    BY DEF JsKind
  <2>2. Retains(q, HandleComment(q, k), k)
    BY <1>1, <1>14, <2>1, CommentIs
  <2> QED
    BY <1>6, <1>14, <2>1, <2>2
<1>15. ASSUME Handle({"DOT"}, HandleDot(q, k)) PROVE JsInv'
  <2>1. {"DOT"} \subseteq JsKind \ {"START_EXPR", "END_EXPR", "START_BLOCK", "END_BLOCK", "EOF"}
    BY DEF JsKind
  <2>2. Keeps(q, HandleDot(q, k), k)
    BY <1>1, <1>15, <2>1, DotIs
  <2> QED
    BY <1>6, <1>15, <2>1, <2>2
<1>16. ASSUME Handle({"EOF"}, HandleEof(q)) PROVE JsInv'
  <2>1. {"EOF"} \subseteq JsKind
    BY DEF JsKind
  <2>2. /\ at < Len(js) /\ at' = k /\ js' = js /\ fmt' = Remembered(HandleEof(q), k) /\ TextOf(k) = "eof"
    BY <1>1, <1>16, <2>1, TokenKinds
  <2> QED
    BY <2>2, EndedStep DEF k, q
<1> QED
  BY <1>2, <1>3, <1>4, <1>5, <1>7, <1>8, <1>9, <1>10, <1>11, <1>12, <1>13, <1>14, <1>15, <1>16 DEF JsNext, k, q

\* A step or none.
LEMMA JsInvNext == ASSUME JsAssumption, JsInv, [JsNext]_jsVars PROVE JsInv'
<1>1. CASE JsNext
  BY <1>1, JsInvStep
<1>2. CASE UNCHANGED jsVars
  <2>1. js' = js /\ at' = at /\ fmt' = fmt
    BY <1>2 DEF jsVars
  <2>2. OpenBrackets' = OpenBrackets
    BY <2>1 DEF OpenBrackets, BracketsAfter, TextOf
  <2> QED
    BY <2>1, <2>2 DEF JsInv, Good, Opened, Flags
<1> QED
  BY <1>1, <1>2

\* So it always holds.
LEMMA JsInvStays == ASSUME JsAssumption PROVE JsSpec => []JsInv
<1>1. JsInit => JsInv
  BY JsInvInit
<1>2. JsInv /\ [JsNext]_jsVars => JsInv'
  BY JsInvNext
<1> QED
  BY <1>1, <1>2, PTL DEF JsSpec

\* The invariant has the types in it.
LEMMA JsInvTypes == ASSUME JsInv PROVE JsTypeOK /\ JsPrinted
<1> DEFINE n == Min({at, Len(js) - 1})
<1>1. Good(fmt, n) /\ at \in 0 .. Len(js)
  BY DEF JsInv
<1>2. PrintsUpTo(fmt.lines, n)
  BY <1>1 DEF Good, Form
<1> HIDE DEF n
<1>3. /\ fmt.flags \in Seq(JsFrame) /\ fmt.lines \in Seq(JsLine) /\ fmt.space \in BOOLEAN /\ Len(fmt.flags) >= 2
  BY <1>1, StateParts
<1>4. \A i \in DOMAIN fmt.lines : fmt.lines[i].indent \in {-1} \cup Nat
  BY <1>3, LinePart
<1>5. \A i \in DOMAIN fmt.flags : fmt.flags[i].indentation_level \in Nat
  <2>1. \A i \in DOMAIN fmt.flags : fmt.flags[i] \in JsFrame
    BY <1>3
  <2> QED
    BY <2>1 DEF JsFrame
<1> QED
  BY <1>1, <1>2, <1>3, <1>4, <1>5 DEF JsTypeOK, JsPrinted, n

\* The formatter neither drops, adds nor moves a token of the script: its lines hold the tokens that
\* were handled, each once and in their order, whatever lines were trimmed, taken up again or
\* indented less; and the two frames of the script are never popped (beautify.js 349-376,
\* 519-535, 1700-1768).
THEOREM ScriptTokensKept == JsSpec => [](JsTypeOK /\ JsPrinted)
<1>1. JsInv => JsTypeOK /\ JsPrinted
  BY JsInvTypes
<1> QED
  BY <1>1, JsInvStays, JsAssumption, PTL

\* The frames that are no statements are those of the script and of its open brackets, for every
\* script, whether its brackets match or not: statements end where they are unwound and never with a
\* bracket's frame, a bracket that closes none pops nothing, and behind the last token no statement
\* is open (ModesMatchBrackets; beautify.js 793, 917, 987-1000).
THEOREM FramesMatchBrackets == JsSpec => []ModesMatchBrackets
<1>1. JsInv => ModesMatchBrackets
  BY DEF JsInv, ModesMatchBrackets, Opened
<1> QED
  BY <1>1, JsInvStays, JsAssumption, PTL

-----------------------------------------------------------------------------
(* The newlines of a script.  What is printed stays where it is, so what   *)
(* tells about a token and the one before it holds from when it is printed *)
(* on; and then it does by what the token before it left behind: where it  *)
(* stands, what is remembered of it and the newline behind a comment.      *)

\* Token n and the next one are on one line, or have a blank or a newline between them.
Beside(l, n) == \E i, c, d : IsAt(l, n, i, c) /\ IsAt(l, n + 1, i, d)
Spaced(l, n) == \A i, c, j, d : IsAt(l, n, i, c) /\ IsAt(l, n + 1, j, d) => i # j \/ d > c + 1

\* Token n ends the last line.
Ending(l, n) == l[Len(l)].items # <<>> /\ Last(l[Len(l)].items) = n

\* Tokens that stay stay on one line or apart.
LEMMA PairKept ==
    ASSUME NEW l \in Seq(JsLine), NEW m \in Seq(JsLine), NEW a \in Nat, NEW b \in Nat, a <= b,
           Form(l, a), Form(m, b), Stays(l, m), NEW n \in Nat, n >= 1, n + 1 <= a
    PROVE  /\ Apart(l, n) => Apart(m, n)
           /\ Beside(l, n) => Beside(m, n)
           /\ Spaced(l, n) => Spaced(m, n)
<1>1. n \in 1 .. a /\ n + 1 \in 1 .. a
  OBVIOUS
<1>2. /\ \A i, c : IsAt(m, n, i, c) <=> IsAt(l, n, i, c)
      /\ \A i, c : IsAt(m, n + 1, i, c) <=> IsAt(l, n + 1, i, c)
  BY <1>1, PlaceKept
<1> QED
  BY <1>2 DEF Apart, Beside, Spaced

\* A token is printed at the end of the last line, with a blank before it if one is wanted.
LEMMA PrintedIs ==
    ASSUME NEW q, NEW k \in Nat, k >= 1, Good(q, k - 1)
    PROVE  LET r == JsPrintToken(q, k) IN
           /\ Ending(r.lines, k)
           /\ k >= 2 /\ Ending(q.lines, k - 1) => Beside(r.lines, k - 1)
           /\ k >= 2 /\ q.space => Spaced(r.lines, k - 1)
<1> DEFINE r == JsPrintToken(q, k)
           m == r.lines
           l == q.lines
           L == Len(l)
           last == l[L].items
           b == IF q.space /\ last # <<>> THEN <<Blank>> ELSE <<>>
           o == last \o b \o <<k>>
           n == k - 1
<1>1. /\ Unwinds(q, r, k) /\ Len(m) = L /\ m[Len(m)].items = o
  BY JsPrintTokenIs
<1>2. /\ l \in Seq(JsLine) /\ L \in Nat /\ L >= 1 /\ DOMAIN l = 1 .. L /\ Form(l, n) /\ n \in Nat /\ n + 1 = k
  BY LinesAre
<1>3. last \in Seq(Nat) /\ Len(last) \in Nat /\ DOMAIN last = 1 .. Len(last) /\ (last = <<>> <=> Len(last) = 0)
  <2>1. last \in Seq(Nat)
    BY <1>2, LinePart
  <2> HIDE DEF last
  <2> QED
    BY <2>1
<1>4. Good(r, k) /\ Stays(l, m)
  BY <1>1 DEF Unwinds, Keeps, Follows
<1>5. m \in Seq(JsLine) /\ Form(m, k) /\ DOMAIN m = 1 .. Len(m)
  BY <1>4, LinesAre
<1> HIDE DEF r, l, L
<1>6. /\ Len(o) = Len(last) + Len(b) + 1 /\ Len(b) \in {0, 1} /\ o[Len(o)] = k /\ DOMAIN o = 1 .. Len(o)
      /\ (last # <<>> /\ q.space => Len(b) = 1) /\ (\A i \in 1 .. Len(last) : o[i] = last[i]) /\ o # <<>>
  <2> HIDE DEF last
  <2>1. b \in Seq(Nat) /\ Len(b) \in {0, 1} /\ (last # <<>> /\ q.space => Len(b) = 1)
    BY DEF Blank
  <2> HIDE DEF b
  <2> QED
    BY <1>3, <2>1
<1> HIDE DEF last, b, o
<1>7. IsAt(m, k, L, Len(o))
  BY <1>1, <1>2, <1>3, <1>5, <1>6 DEF IsAt
<1>8. Ending(m, k)
  BY <1>1, <1>6 DEF Ending, Last
<1>9. ASSUME k >= 2, Ending(l, n) PROVE Beside(m, n)
  <2>1. last # <<>> /\ last[Len(last)] = n
    BY <1>9 DEF Ending, Last, last, L
  <2>2. Len(last) \in 1 .. Len(last)
    BY <1>3, <2>1
  <2>3. o[Len(last)] = n /\ Len(last) \in 1 .. Len(o)
    BY <1>3, <1>6, <2>1, <2>2
  <2>4. IsAt(m, n, L, Len(last))
    BY <1>1, <1>2, <1>5, <1>6, <2>3 DEF IsAt
  <2> QED
    BY <1>2, <1>7, <2>4 DEF Beside
<1> HIDE DEF m, n
<1>10. ASSUME k >= 2, q.space PROVE Spaced(m, n)
  <2> SUFFICES ASSUME NEW i, NEW c, NEW j, NEW d, IsAt(m, n, i, c), IsAt(m, n + 1, j, d), i = j
               PROVE  d > c + 1
    BY DEF Spaced
  <2>1. k \in 1 .. k /\ n \in 1 .. n /\ n <= k
    BY <1>2, <1>10
  <2>6. IsAt(m, k, j, d)
    BY <1>2
  <2>2. j = L /\ d = Len(o)
    BY <1>5, <1>7, <2>1, <2>6, PlaceIs
  <2>3. IsAt(l, n, L, c)
    BY <1>2, <1>4, <1>5, <2>1, <2>2, PlaceKept
  <2>4. c \in DOMAIN last
    BY <2>3 DEF IsAt, last
  <2>5. c \in 1 .. Len(last) /\ last # <<>>
    BY <1>3, <2>4
  <2>7. Len(b) = 1
    BY <1>6, <1>10, <2>5
  <2> QED
    BY <1>3, <1>6, <2>2, <2>5, <2>7
<1> QED
  BY <1>8, <1>9, <1>10 DEF r, l, m, n

\* What is told of the frame on top: what was handled last in it, and whether it is a do's or an if's.
Told(q) == <<Flags(q).last_text, Flags(q).do_block, Flags(q).if_block>>

\* A frame marked otherwise tells the same.
LEMMA MarkTells ==
    ASSUME NEW f \in JsFrame, NEW b \in BOOLEAN, NEW n \in Nat
    PROVE  LET Alike(g) == g.last_text = f.last_text /\ g.do_block = f.do_block /\ g.if_block = f.if_block IN
           /\ Alike([f EXCEPT !.multiline_frame = b]) /\ Alike([f EXCEPT !.declaration_statement = b])
           /\ Alike([f EXCEPT !.indentation_level = n])
  BY DEF JsFrame

\* A newline in a statement tells nothing new.
LEMMA NewlineTells ==
    ASSUME NEW q, NEW n \in Nat, Good(q, n), NEW force, NEW k
    PROVE  /\ Told(AddNewLine(q, force)) = Told(q) /\ Told(NewlineInStatement(q)) = Told(q)
           /\ Told(AllowNewline(q, k, force)) = Told(q)
           /\ ~Wanted(k) /\ ~force => AllowNewline(q, k, force) = q
<1>1. ASSUME NEW x PROVE Told(AddNewLine(q, x)) = Told(q)
  <2> DEFINE l == Append(q.lines, EmptyLine)
             r == [q EXCEPT !.lines = l]
             f == [Flags(q) EXCEPT !.multiline_frame = TRUE]
  <2>1. AddNewLine(q, x) \in {q, SetFlag(r, f)}
    BY DEF AddNewLine
  <2>2. q.flags \in Seq(JsFrame) /\ Len(q.flags) \in 1 .. Len(q.flags) /\ Flags(q) \in JsFrame /\ q \in JsState
    BY StateParts DEF Good
  <2>3. r.flags = q.flags
    BY <2>2 DEF JsState
  <2>4. f.last_text = Flags(q).last_text /\ f.do_block = Flags(q).do_block /\ f.if_block = Flags(q).if_block
    BY <2>2, MarkTells, TRUE \in BOOLEAN
  <2> HIDE DEF f
  <2>5. SetFlag(r, f).flags = [q.flags EXCEPT ![Len(q.flags)] = f]
    <3>1. r \in [flags : Seq(JsFrame), previous : JsFrame, lines : {l}, space : BOOLEAN,
                 last_type : JsKind, last_last_text : JsText, token : JsText]
      BY <2>2 DEF JsState
    <3> HIDE DEF r
    <3> QED
      BY <2>3, <3>1 DEF SetFlag
  <2> HIDE DEF r
  <2>6. Flags(SetFlag(r, f)) = f
    BY <2>2, <2>5 DEF Flags, Last
  <2> QED
    BY <2>1, <2>4, <2>6 DEF Told
<1>2. Told(NewlineInStatement(q)) = Told(q)
  BY <1>1 DEF NewlineInStatement
<1> QED
  BY <1>1, <1>2 DEF AllowNewline

\* A frame begun is neither a do's nor an if's, and goes on behind what was handled last.
LEMMA ModeTells ==
    ASSUME NEW q, NEW n \in Nat, Good(q, n), NEW mode \in JsMode
    PROVE  Told(SetMode(q, mode)) = <<Flags(q).last_text, FALSE, FALSE>>
<1> DEFINE top == Flags(q)
           level == IF ~JustAddedNewline(q) /\ top.line_indent_level > top.indentation_level
                    THEN top.line_indent_level ELSE top.indentation_level
           f == [NewFlags EXCEPT !.mode = mode, !.last_text = top.last_text, !.last_word = top.last_word,
                       !.indentation_level = level, !.line_indent_level = top.line_indent_level,
                       !.start_line_index = Len(q.lines)]
           g == Append(q.flags, f)
           r == [q EXCEPT !.previous = top, !.flags = g]
<1>1. SetMode(q, mode) = r
  BY DEF SetMode
<1>2. q.flags \in Seq(JsFrame) /\ q \in JsState
  BY StateParts DEF Good
<1> HIDE DEF top, level
<1>3. f.last_text = top.last_text /\ f.do_block = FALSE /\ f.if_block = FALSE
  BY DEF NewFlags
<1> HIDE DEF f
<1>4. Last(g) = f
  BY <1>2, AppendProperties DEF Last
<1>5. r.flags = g
  BY <1>2 DEF JsState
<1> QED
  BY <1>1, <1>3, <1>4, <1>5 DEF Told, Flags, top

\* Nor does an indentation, nor white space.
LEMMA IndentTells ==
    ASSUME NEW q, NEW n \in Nat, Good(q, n)
    PROVE  /\ Told(Indent(q)) = Told(q) /\ Indent(q).lines = q.lines
           /\ Told(Space(q)) = Told(q) /\ Space(q).lines = q.lines /\ Space(q).space
<1> DEFINE f == [Flags(q) EXCEPT !.indentation_level = Flags(q).indentation_level + 1]
<1>1. Flags(q) \in JsFrame /\ Flags(q).indentation_level + 1 \in Nat
  <2>1. Flags(q) \in JsFrame
    BY StateParts
  <2> QED
    BY <2>1 DEF JsFrame
<1>2. f \in JsFrame /\ f.mode = Flags(q).mode
  BY <1>1, FrameNumber
<1>3. f.last_text = Flags(q).last_text /\ f.do_block = Flags(q).do_block /\ f.if_block = Flags(q).if_block
  BY <1>1, MarkTells
<1>4. Indent(q) = SetFlag(q, f)
  BY DEF Indent
<1> HIDE DEF f
<1>5. Flags(Indent(q)) = f /\ Indent(q).lines = q.lines
  BY <1>2, <1>4, SetFlagIs
<1>6. Space(q).flags = q.flags /\ Space(q).lines = q.lines
  BY FieldsPut, TRUE \in BOOLEAN
<1>7. Space(q).space
  BY DEF Space, Good, JsState
<1> QED
  BY <1>3, <1>5, <1>6, <1>7 DEF Told, Flags

\* A statement goes on behind what was handled last, and on its line unless a newline is wanted.
LEMMA StatementTells ==
    ASSUME NEW q, NEW n \in Nat, Good(q, n), NEW k
    PROVE  LET s == StartOfStatement(q, k) IN
           /\ Flags(s).last_text = Flags(q).last_text
           /\ ~Wanted(k) /\ q.token \notin {"do", "for", "if", "while"} =>
                  /\ s.lines = q.lines
                  /\ StartsStatement(q, k) => ~Flags(s).do_block /\ ~Flags(s).if_block
<1> DEFINE s == StartOfStatement(q, k)
<1>1. CASE ~StartsStatement(q, k)
  BY <1>1 DEF StartOfStatement
<1>2. CASE StartsStatement(q, k)
  <2> DEFINE a == SetMode(q, "Statement")
             p == Indent(a)
             f == [Flags(p) EXCEPT !.declaration_statement = TRUE]
             c == After(q, {"var"}) /\ TokenType(q) = "WORD"
             r == IF c THEN SetFlag(p, f) ELSE p
             force == q.token \in {"do", "for", "if", "while"}
             t == AllowNewline(r, k, force)
  <2>1. s = IF StartOfObjectProperty(r) THEN r ELSE t
    BY <1>2 DEF StartOfStatement
  <2> HIDE DEF c, s
  <2>2. Good(a, n) /\ Told(a) = <<Flags(q).last_text, FALSE, FALSE>> /\ a.lines = q.lines
    BY SetModeIs, ModeTells DEF JsMode
  <2> HIDE DEF a
  <2>3. Good(p, n) /\ Told(p) = Told(a) /\ p.lines = a.lines
    BY <2>2, IndentTells, IndentsAre, GoodKept
  <2> HIDE DEF p
  <2>4. Good(r, n) /\ Told(r) = Told(p) /\ r.lines = p.lines
    <3>1. Flags(p) \in JsFrame /\ TRUE \in BOOLEAN
      BY <2>3, StateParts
    <3>2. f \in JsFrame /\ f.mode = Flags(p).mode
      BY <3>1, FrameSet
    <3>3. f.last_text = Flags(p).last_text /\ f.do_block = Flags(p).do_block /\ f.if_block = Flags(p).if_block
      BY <3>1, MarkTells
    <3> HIDE DEF f
    <3>4. Good(SetFlag(p, f), n) /\ Flags(SetFlag(p, f)) = f /\ SetFlag(p, f).lines = p.lines
      BY <2>3, <3>2, SetFlagIs, GoodKept
    <3> QED
      BY <2>3, <3>3, <3>4 DEF Told
  <2> HIDE DEF r
  <2>5. Told(t) = Told(r) /\ (~Wanted(k) /\ ~force => t = r)
    BY <2>4, NewlineTells
  <2> HIDE DEF t
  <2>6. Told(s) = <<Flags(q).last_text, FALSE, FALSE>> /\ (~Wanted(k) /\ ~force => s.lines = q.lines)
    BY <2>1, <2>2, <2>3, <2>4, <2>5
  <2> HIDE DEF force
  <2> QED
    BY <2>6 DEF Told, s, force
<1> QED
  BY <1>1, <1>2

\* ++ or a sign: on a line of its own if that is wanted, behind a blank if it would join the one before
\* it, and on the line of what is before it otherwise.
LEMMA UnaryShows ==
    ASSUME NEW q, NEW k \in Nat, k >= 2, Good(q, k - 1)
    PROVE  LET r == UnaryOperator(q, k)
               text == Flags(q).last_text
           IN  /\ Wanted(k) /\ q.token = "++" => Apart(r.lines, k - 1)
               /\ q.last_type = "OPERATOR" /\ q.token \in {"++", "+"} /\ text \in {"++", "+"} => Spaced(r.lines, k - 1)
               /\ ~Wanted(k) /\ Ending(q.lines, k - 1) /\ text \notin {"open", "semicolon"} => Beside(r.lines, k - 1)
<1> DEFINE n == k - 1
           o == NewlineInStatement(q)
           a == IF Wanted(k) /\ q.token = "++" THEN o ELSE q
           text == Flags(a).last_text
           both == q.last_type = "OPERATOR" /\ q.token \in {"++", "+"} /\ text \in {"++", "+"}
           before == \/ /\ text = "semicolon" /\ IsExpression(Flags(a).mode)
                        /\ q.last_type \notin {"END_EXPR", "OPERATOR"}
                     \/ q.last_type = "RESERVED"
                     \/ q.last_type = "END_EXPR" /\ ~(text = "]" /\ q.token = "++")
                     \/ both
           u == JsPrintNewline(a, FALSE)
           begins == Flags(a).mode \in {"BlockStatement", "Statement"} /\ text \in {"open", "semicolon"}
           b == IF begins THEN u ELSE a
           v == b.space \/ before
           s == [b EXCEPT !.space = v]
           c == JsPrintToken(s, k)
           w == q.last_type = "OPERATOR" /\ q.token = "+" /\ text = "++"
           r == [c EXCEPT !.space = w]
<1>1. UnaryOperator(q, k) = r
  BY DEF UnaryOperator
<1>2. n \in Nat /\ n >= 1 /\ n + 1 = k /\ Good(q, n) /\ FALSE \in BOOLEAN
  OBVIOUS
<1> HIDE DEF n
<1>3. w \in BOOLEAN /\ v \in BOOLEAN /\ (both => v)
  OBVIOUS
<1> HIDE DEF w, before, v
<1>4. Keeps(q, q, n) /\ Keeps(q, o, n) /\ Good(o, n) /\ JustAddedNewline(o) /\ Told(o) = Told(q)
  BY <1>2, KeepsSelf, Steps, KeepsGood, NewlineAdded, NewlineTells
<1> HIDE DEF o
<1>5. Good(a, n) /\ text = Flags(q).last_text
  BY <1>4, <1>2 DEF Told
<1>6. Keeps(a, b, n)
  BY <1>2, <1>5, KeepsSelf, Steps
<1>7. begins => text \in {"open", "semicolon"}
  OBVIOUS
<1>8. Wanted(k) /\ q.token = "++" => a = o
  OBVIOUS
<1>9. ~Wanted(k) => a = q
  OBVIOUS
<1>17. ~begins => b = a
  OBVIOUS
<1> HIDE DEF a, u, begins, b
<1>10. Keeps(a, s, n) /\ Good(s, n) /\ s.lines = b.lines /\ (v => s.space)
  <2>1. Keeps(a, s, n)
    BY <1>2, <1>3, <1>6, SpaceStep
  <2>2. s.lines = b.lines /\ s.space = v
    BY <1>6 DEF Keeps, Good, JsState
  <2>3. v => s.space
    BY <2>2
  <2> QED
    BY <2>1, <2>2, <2>3, KeepsGood
<1>11. ~begins => s.lines = a.lines
  BY <1>10, <1>17
<1> HIDE DEF s
<1>12. Keeps(a, c, k)
  BY <1>10, TokenStep DEF n
<1>13. Ending(s.lines, n) => Beside(c.lines, n)
  BY <1>10, PrintedIs DEF n
<1>14. v => Spaced(c.lines, n)
  <2>1. s.space => Spaced(c.lines, n)
    BY <1>10, PrintedIs DEF n
  <2> QED
    BY <1>10, <2>1
<1> HIDE DEF c
<1>15. r.lines = c.lines
  BY <1>12 DEF Keeps, Good, JsState
<1>16. ASSUME Wanted(k), q.token = "++" PROVE Apart(c.lines, n)
  <2>1. Fresh(a.lines, n)
    BY <1>2, <1>4, <1>8, <1>16, FreshIs
  <2>2. Good(c, n + 1) /\ Follows(a, c)
    BY <1>2, <1>12 DEF Keeps
  <2> QED
    BY <1>2, <1>5, <2>1, <2>2, FreshApart
<1> HIDE DEF r
<1> QED
  BY <1>1, <1>3, <1>5, <1>7, <1>9, <1>11, <1>13, <1>14, <1>15, <1>16 DEF n

\* handle_operator, for ++ and the signs.
LEMMA SignShows ==
    ASSUME NEW q, NEW k \in Nat, k >= 2, Good(q, k - 1), q.token \in {"++", "+"}
    PROVE  LET r == HandleOperator(q, k)
               text == Flags(q).last_text
               operand == q.token = "++" /\ q.last_type \in {"WORD", "END_EXPR"}
           IN  /\ operand /\ Wanted(k) => Apart(r.lines, k - 1)
               /\ operand /\ ~Wanted(k) /\ Ending(q.lines, k - 1) /\ text \notin {"open", "semicolon"}
                      => Beside(r.lines, k - 1)
               /\ q.last_type = "OPERATOR" /\ text \in {"++", "+"} => Spaced(r.lines, k - 1)
<1> DEFINE n == k - 1
           a == StartOfStatement(q, k)
           b == IF q.last_type = "OPERATOR" THEN AllowNewline(a, k, FALSE) ELSE a
           r == HandleOperator(q, k)
           text == Flags(q).last_text
<1>1. r = IF After(a, SpecialWords) THEN JsPrintToken(Space(a), k)
          ELSE IF q.token = "::" \/ (q.token = "star" /\ q.last_type = "DOT") THEN JsPrintToken(a, k)
          ELSE IF q.token = ":" /\ Flags(b).in_case THEN CaseColon(b, k)
          ELSE IF q.token \in {"++", "!"} \/ IsUnary(b, k) THEN UnaryOperator(b, k)
          ELSE IF q.token \in Positionable THEN BinaryOperator(b, k)
          ELSE Space(JsPrintToken(Space(b), k))
  BY DEF HandleOperator
<1>2. n \in Nat /\ Good(q, n) /\ Keeps(q, q, n) /\ FALSE \in BOOLEAN
  BY KeepsSelf
<1> HIDE DEF n, r, text
<1>3. Keeps(q, a, n) /\ Flags(a).last_text = text
  BY <1>2, StartOfStatementIs, StatementTells DEF text
<1>4. ~Wanted(k) => a.lines = q.lines
  BY <1>2, StatementTells
<1> HIDE DEF a
<1>5. Keeps(q, b, n) /\ Flags(b).last_text = text /\ (~Wanted(k) => b.lines = a.lines)
  <2>1. Good(a, n) /\ Keeps(q, AllowNewline(a, k, FALSE), n)
    BY <1>2, <1>3, KeepsGood, Steps
  <2>2. Told(AllowNewline(a, k, FALSE)) = Told(a) /\ (~Wanted(k) => AllowNewline(a, k, FALSE) = a)
    BY <1>2, <2>1, NewlineTells
  <2> QED
    BY <1>3, <2>1, <2>2 DEF Told
<1> HIDE DEF b
<1>6. b.token = q.token /\ b.last_type = q.last_type /\ a.last_type = q.last_type
  BY <1>3, <1>5 DEF Keeps, Follows
<1>7. ASSUME \/ q.token = "++" /\ q.last_type \in {"WORD", "END_EXPR"}
             \/ q.last_type = "OPERATOR"
      PROVE  r = UnaryOperator(b, k)
  <2>1. ~After(a, SpecialWords) /\ q.token \notin {":", "::", "star"}
    BY <1>6, <1>7 DEF After
  <2>2. q.token = "++" \/ IsUnary(b, k)
    BY <1>6, <1>7 DEF IsUnary
  <2> QED
    BY <1>1, <2>1, <2>2
<1>8. Good(b, k - 1)
  BY <1>5, KeepsGood DEF n
<1>9. /\ Wanted(k) /\ b.token = "++" => Apart(UnaryOperator(b, k).lines, k - 1)
      /\ b.last_type = "OPERATOR" /\ b.token \in {"++", "+"} /\ text \in {"++", "+"}
             => Spaced(UnaryOperator(b, k).lines, k - 1)
      /\ ~Wanted(k) /\ Ending(b.lines, k - 1) /\ text \notin {"open", "semicolon"}
             => Beside(UnaryOperator(b, k).lines, k - 1)
  BY <1>5, <1>8, UnaryShows
<1> QED
  BY <1>4, <1>5, <1>6, <1>7, <1>9 DEF r, text

\* Behind a return, on its line.
Returned(q, k) ==
    /\ q.last_type = "RESERVED" /\ Flags(q).last_text = "return" /\ Ending(q.lines, k - 1)
    /\ ~Wanted(k) /\ q.token \notin {"do", "for", "if", "while"}

\* A statement begins there.
LEMMA ReturnedStatement ==
    ASSUME NEW q, NEW k \in Nat, k >= 2, Good(q, k - 1), Returned(q, k)
    PROVE  LET s == StartOfStatement(q, k) IN
           /\ StartsStatement(q, k) /\ Keeps(q, s, k - 1) /\ Good(s, k - 1)
           /\ Ending(s.lines, k - 1) /\ s.last_type = "RESERVED" /\ s.token = q.token
           /\ Flags(s).last_text = "return" /\ ~Flags(s).do_block /\ ~Flags(s).if_block
<1> DEFINE s == StartOfStatement(q, k)
<1>1. StartsStatement(q, k)
  BY DEF Returned, StartsStatement, After
<1>2. k - 1 \in Nat
  OBVIOUS
<1>3. Keeps(q, s, k - 1)
  BY <1>2, StartOfStatementIs
<1>4. Flags(s).last_text = "return" /\ s.lines = q.lines /\ ~Flags(s).do_block /\ ~Flags(s).if_block
  BY <1>1, <1>2, StatementTells DEF Returned
<1> HIDE DEF s
<1> QED
  BY <1>1, <1>3, <1>4 DEF Keeps, Follows, Returned, s

\* What is printed at the end of the line of the token before it is on that line.
LEMMA PrintedBeside ==
    ASSUME NEW q, NEW k \in Nat, k >= 2, Good(q, k - 1), Ending(q.lines, k - 1)
    PROVE  /\ Good(JsPrintToken(q, k), k) /\ Beside(JsPrintToken(q, k).lines, k - 1)
           /\ Beside(JsPrintToken(Space(q), k).lines, k - 1) /\ Good(JsPrintToken(Space(q), k), k)
           /\ Good(Space(q), k - 1) /\ Ending(Space(q).lines, k - 1)
<1>1. Good(Space(q), k - 1) /\ Space(q).lines = q.lines
  BY FieldsPut, GoodKept, TRUE \in BOOLEAN
<1>2. Unwinds(q, JsPrintToken(q, k), k) /\ Unwinds(Space(q), JsPrintToken(Space(q), k), k)
  <2> DEFINE p == Space(q)
  <2>1. Good(p, k - 1) /\ k >= 1
    BY <1>1
  <2> HIDE DEF p
  <2>2. Unwinds(q, JsPrintToken(q, k), k)
    BY <2>1, JsPrintTokenIs
  <2>3. Unwinds(p, JsPrintToken(p, k), k)
    BY <2>1, JsPrintTokenIs
  <2> QED
    BY <2>2, <2>3 DEF p
<1>3. Good(JsPrintToken(q, k), k) /\ Good(JsPrintToken(Space(q), k), k)
  BY <1>2, GoodKept
<1> QED
  BY <1>1, <1>3, PrintedIs

\* A string, an operator, a bracket and a block that are returned are on the line of the return.
LEMMA ReturnedString ==
    ASSUME NEW q, NEW k \in Nat, k >= 2, Good(q, k - 1), Returned(q, k)
    PROVE  Beside(HandleString(q, k).lines, k - 1)
<1> DEFINE s == StartOfStatement(q, k)
<1>1. StartsStatement(q, k) /\ Good(s, k - 1) /\ Ending(s.lines, k - 1)
  BY ReturnedStatement
<1>2. HandleString(q, k) = JsPrintToken(Space(s), k)
  BY <1>1 DEF HandleString
<1> QED
  BY <1>1, <1>2, PrintedBeside

LEMMA ReturnedOperator ==
    ASSUME NEW q, NEW k \in Nat, k >= 2, Good(q, k - 1), Returned(q, k)
    PROVE  Beside(HandleOperator(q, k).lines, k - 1)
<1> DEFINE s == StartOfStatement(q, k)
<1>1. Good(s, k - 1) /\ Ending(s.lines, k - 1) /\ s.last_type = "RESERVED" /\ Flags(s).last_text = "return"
  BY ReturnedStatement
<1>2. After(s, SpecialWords)
  BY <1>1 DEF After, SpecialWords
<1>3. HandleOperator(q, k) = JsPrintToken(Space(s), k)
  BY <1>2 DEF HandleOperator
<1> QED
  BY <1>1, <1>3, PrintedBeside

LEMMA ReturnedExpr ==
    ASSUME NEW q, NEW k \in Nat, k >= 2, Good(q, k - 1), Returned(q, k)
    PROVE  Beside(HandleStartExpr(q, k).lines, k - 1)
<1> DEFINE s == StartOfStatement(q, k)
           text == Flags(s).last_text
           index == q.token = "[" /\ (q.last_type = "WORD" \/ text = ")")
           mode == IF index THEN "Expression"
                   ELSE IF q.token = "[" THEN "ArrayLiteral"
                   ELSE IF After(s, {"for"}) THEN "ForInitializer"
                   ELSE IF After(s, {"if", "while"}) THEN "Conditional"
                   ELSE "Expression"
           inArray == /\ q.token = "[" /\ Flags(s).mode = "ArrayLiteral"
                      /\ text = "[" \/ (text = "comma" /\ q.last_last_text \in {"]", "close"})
           a == IF inArray THEN JsPrintNewline(s, FALSE) ELSE s
           before == Flags(a).last_text
           b == IF before = "semicolon" \/ q.last_type = "START_BLOCK" THEN JsPrintNewline(a, FALSE)
                ELSE IF q.last_type \in {"END_EXPR", "START_EXPR", "END_BLOCK"} \/ before = "."
                THEN AllowNewline(a, k, FALSE)
                ELSE IF q.last_type \notin {"WORD", "OPERATOR"} /\ ~(q.last_type = "RESERVED" /\ q.token = "(")
                THEN Space(a)
                ELSE IF q.last_type = "RESERVED" /\ Flags(a).last_word = "function" THEN a
                ELSE IF After(a, StatementWords \cup {"catch"}) THEN Space(a)
                ELSE a
           c == IF q.token = "(" /\ q.last_type \in {"EQUALS", "OPERATOR"} THEN PreserveNewline(b, k) ELSE b
           d == IF q.token = "(" /\ q.last_type \notin {"WORD", "RESERVED"}
                THEN AllowNewline(c, k, FALSE) ELSE c
           e == IF index THEN s ELSE d
           m == SetMode(e, mode)
           p == JsPrintToken(m, k)
<1>1. HandleStartExpr(q, k) = Indent(p)
  BY DEF HandleStartExpr
<1>2. mode \in JsMode
  <2> HIDE DEF index, s
  <2> QED
    BY DEF JsMode
<1>3. Good(s, k - 1) /\ Ending(s.lines, k - 1) /\ text = "return" /\ q.last_type = "RESERVED"
  BY ReturnedStatement DEF Returned
<1> HIDE DEF s, mode
<1>4. ~index /\ ~inArray
  BY <1>3
<1>5. a = s
  BY <1>4
<1> HIDE DEF index, inArray, a
<1>6. b \in {s, Space(s)}
  BY <1>3, <1>5
<1> HIDE DEF b
<1>7. c = b
  BY <1>3
<1> HIDE DEF c
<1>8. d = b
  BY <1>3, <1>7
<1> HIDE DEF d
<1>9. e = b
  BY <1>4, <1>8
<1>10. Good(e, k - 1) /\ Ending(e.lines, k - 1)
  BY <1>3, <1>6, <1>9, PrintedBeside
<1> HIDE DEF e
<1>11. Good(m, k - 1) /\ Ending(m.lines, k - 1)
  BY <1>2, <1>10, SetModeIs
<1> HIDE DEF m
<1>12. Good(p, k) /\ Beside(p.lines, k - 1)
  BY <1>11, PrintedBeside
<1> HIDE DEF p
<1>13. Indent(p).lines = p.lines
  BY <1>12, IndentTells
<1> QED
  BY <1>1, <1>12, <1>13

LEMMA ReturnedBlock ==
    ASSUME NEW q, NEW k \in Nat, k >= 2, Good(q, k - 1), Returned(q, k)
    PROVE  Beside(HandleStartBlock(q, k).lines, k - 1)
<1> DEFINE mode == IF OpensObject(q, k) THEN "ObjectLiteral" ELSE "BlockStatement"
           a == SetMode(q, mode)
           b == IF a.previous.mode = "ArrayLiteral" /\ q.last_type \in {"START_EXPR", "COMMA"}
                THEN IF q.last_type = "COMMA" THEN Space(a) ELSE a
                ELSE IF q.last_type \in {"OPERATOR", "START_EXPR"} THEN a
                ELSE IF q.last_type = "START_BLOCK" THEN JsPrintNewline(a, FALSE)
                ELSE Space(a)
           p == JsPrintToken(b, k)
<1>1. HandleStartBlock(q, k) = Indent(p)
  BY DEF HandleStartBlock
<1>2. mode \in JsMode /\ Ending(q.lines, k - 1) /\ q.last_type = "RESERVED"
  BY DEF JsMode, Returned
<1> HIDE DEF mode
<1>3. Good(a, k - 1) /\ Ending(a.lines, k - 1)
  BY <1>2, SetModeIs
<1> HIDE DEF a
<1>4. b = Space(a)
  BY <1>2
<1>5. Good(p, k) /\ Beside(p.lines, k - 1)
  BY <1>3, <1>4, PrintedBeside
<1> HIDE DEF p
<1>6. Indent(p).lines = p.lines
  BY <1>5, IndentTells
<1> QED
  BY <1>1, <1>5, <1>6

\* What is done before a word is printed.
BeforeWord(q, k) == Continued(IfUnwound(DoEnded(WordBegun(q, k)), k), k)

\* A word that is neither of a switch nor a function, nor the while of a do, is printed where it is placed.
LEMMA WordPrinted ==
    ASSUME NEW q, NEW k \in Nat, k >= 1, Good(q, k - 1), TextOf(k) \in JsText, q.token \in {"word", "new", "return"}
    PROVE  LET e == WordPlaced(BeforeWord(q, k), k) IN
           Good(e, k - 1) /\ HandleWord(q, k).lines = JsPrintToken(e, k).lines
<1> DEFINE n == k - 1
           a == WordBegun(q, k)
           o == DoEnded(a)
           b == IfUnwound(o, k)
           c == Continued(b, k)
           e == WordPlaced(c, k)
           t == JsPrintToken(e, k)
           d == WordRemembered(t, k)
           do == Flags(d).do_block \/ q.token = "do"
           if == Flags(d).if_block \/ q.token = "if"
           g == [Flags(d) EXCEPT !.do_block = do, !.if_block = if]
<1>1. HandleWord(q, k) = SetFlag(d, g)
  BY DEF HandleWord
<1>2. n \in Nat /\ Good(q, n)
  OBVIOUS
<1> HIDE DEF n
<1>3. Keeps(q, a, n)
  BY <1>2, WordBegunIs
<1> HIDE DEF a
<1>4. Keeps(q, o, n)
  BY <1>2, <1>3, DoEndedIs
<1> HIDE DEF o
<1>5. Keeps(q, b, n)
  BY <1>2, <1>4, IfUnwoundIs
<1> HIDE DEF b
<1>6. Keeps(q, c, n)
  BY <1>2, <1>5, ContinuedIs
<1> HIDE DEF c
<1>7. Good(e, n)
  BY <1>2, <1>6, WordPlacedIs, RetainsSteps
<1> HIDE DEF e
<1>8. Unwinds(e, t, k)
  BY <1>7, JsPrintTokenIs DEF n
<1>9. Good(t, k) /\ Flags(t) \in JsFrame
  BY <1>8, GoodKept, StateParts
<1> HIDE DEF t
<1>10. Good(d, k) /\ d.lines = t.lines
  <2> DEFINE f == [Flags(t) EXCEPT !.last_word = TextOf(k)]
  <2>1. f \in JsFrame /\ f.mode = Flags(t).mode
    BY <1>9, FrameText
  <2>2. d = SetFlag(t, f)
    BY DEF WordRemembered
  <2> HIDE DEF f, d
  <2> QED
    BY <1>9, <2>1, <2>2, SetFlagIs, GoodKept
<1> HIDE DEF d
<1>11. do \in BOOLEAN /\ if \in BOOLEAN /\ Flags(d) \in JsFrame
  BY <1>10, StateParts
<1> HIDE DEF do, if
<1>12. g \in JsFrame /\ g.mode = Flags(d).mode
  BY <1>11, FrameSetTwo
<1> HIDE DEF g
<1>13. SetFlag(d, g).lines = d.lines
  BY <1>10, <1>12, SetFlagIs
<1> QED
  BY <1>1, <1>7, <1>10, <1>13 DEF e, c, b, o, a, n, t, BeforeWord

\* So it ends its line.
LEMMA WordEnds ==
    ASSUME NEW q, NEW k \in Nat, k >= 1, Good(q, k - 1), TextOf(k) \in JsText, q.token \in {"word", "new", "return"}
    PROVE  Ending(HandleWord(q, k).lines, k)
<1> DEFINE e == WordPlaced(BeforeWord(q, k), k)
<1>1. Good(e, k - 1) /\ HandleWord(q, k).lines = JsPrintToken(e, k).lines
  BY WordPrinted
<1> HIDE DEF e
<1>2. Ending(JsPrintToken(e, k).lines, k)
  BY <1>1, PrintedIs
<1> QED
  BY <1>1, <1>2

\* Nothing is done before a word that is returned.
LEMMA ReturnedBefore ==
    ASSUME NEW q, NEW k \in Nat, k >= 2, Good(q, k - 1), Returned(q, k)
    PROVE  LET s == StartOfStatement(q, k) IN
           /\ WordBegun(q, k) = s /\ DoEnded(s) = s /\ IfUnwound(s, k) = s
           /\ ~JustAddedNewline(s) /\ Continued(s, k) = s
<1> DEFINE s == StartOfStatement(q, k)
<1>1. /\ StartsStatement(q, k) /\ Good(s, k - 1) /\ Ending(s.lines, k - 1) /\ s.last_type = "RESERVED"
      /\ ~Flags(s).do_block /\ ~Flags(s).if_block
  BY ReturnedStatement
<1>2. WordBegun(q, k) = s
  BY <1>1 DEF WordBegun
<1> HIDE DEF s
<1>3. DoEnded(s) = s /\ IfUnwound(s, k) = s /\ Continued(s, k) = s
  BY <1>1 DEF DoEnded, IfUnwound, Continued
<1>4. ~JustAddedNewline(s)
  BY <1>1, StateParts DEF JustAddedNewline, Ending
<1> QED
  BY <1>2, <1>3, <1>4 DEF s

\* A word that is returned is on the line of the return, and so is a function.
LEMMA ReturnedWord ==
    ASSUME NEW q, NEW k \in Nat, k >= 2, Good(q, k - 1), Returned(q, k), TextOf(k) \in JsText,
           q.token \in {"word", "new", "function"}
    PROVE  Beside(HandleWord(q, k).lines, k - 1)
<1> DEFINE s == StartOfStatement(q, k)
<1>1. /\ Good(s, k - 1) /\ Ending(s.lines, k - 1) /\ s.last_type = "RESERVED" /\ Flags(s).last_text = "return"
      /\ s.token = q.token /\ ~Flags(s).do_block
  BY ReturnedStatement
<1>2. /\ WordBegun(q, k) = s /\ DoEnded(s) = s /\ IfUnwound(s, k) = s /\ Continued(s, k) = s
      /\ ~JustAddedNewline(s)
  BY ReturnedBefore
<1> HIDE DEF s
<1>3. Beside(JsPrintToken(Space(s), k).lines, k - 1) /\ Good(JsPrintToken(Space(s), k), k)
  BY <1>1, PrintedBeside
<1>4. CASE q.token \in {"word", "new"}
  <2> DEFINE e == WordPlaced(BeforeWord(q, k), k)
  <2>1. HandleWord(q, k).lines = JsPrintToken(e, k).lines
    BY <1>4, WordPrinted
  <2>2. BeforeWord(q, k) = s
    BY <1>2 DEF BeforeWord
  <2>3. s.token \notin StatementWords
    BY <1>1, <1>4 DEF StatementWords
  <2>4. Prefix(s, k) = "SPACE"
    BY <1>1, <2>3 DEF Prefix
  <2>5. WordPlaced(s, k) = Space(s)
    BY <1>1, <1>4, <2>4 DEF WordPlaced
  <2> QED
    BY <1>3, <2>1, <2>2, <2>5
<1>5. CASE q.token = "function"
  <2>1. FunctionBegun(s, k) = Space(s)
    BY <1>1, <1>2 DEF FunctionBegun, After
  <2>2. Space(s).last_type = "RESERVED"
    BY <1>1 DEF Space, Good, JsState
  <2>3. Continued(Space(s), k) = Space(s)
    BY <2>2 DEF Continued
  <2> DEFINE z == JsPrintToken(Space(s), k)
             f == [Flags(z) EXCEPT !.last_word = TextOf(k)]
  <2>4. HandleWord(q, k) = WordRemembered(z, k)
    BY <1>1, <1>2, <1>5, <2>1, <2>3 DEF HandleWord
  <2>5. WordRemembered(z, k) = SetFlag(z, f)
    BY DEF WordRemembered
  <2> HIDE DEF z
  <2>6. Good(z, k) /\ Flags(z) \in JsFrame
    BY <1>3, StateParts DEF z
  <2>7. f \in JsFrame /\ f.mode = Flags(z).mode
    BY <2>6, FrameText
  <2> HIDE DEF f
  <2>8. SetFlag(z, f).lines = z.lines
    BY <2>6, <2>7, SetFlagIs
  <2> QED
    BY <1>3, <2>4, <2>5, <2>8 DEF z
<1> QED
  BY <1>4, <1>5

\* A bracket that closes ends its line.
LEMMA EndExprEnds ==
    ASSUME NEW q, NEW k \in Nat, k >= 1, Good(q, k - 1)
    PROVE  Ending(HandleEndExpr(q, k).lines, k)
<1> DEFINE n == k - 1
           a == CloseStatements(q)
           force == q.token = "]" /\ Flags(a).mode = "ArrayLiteral"
           b == IF Flags(a).multiline_frame THEN AllowNewline(a, k, force) ELSE a
           r == RestoreMode(b)
           c == JsPrintToken(r, k)
           d == RemoveRedundantIndentation(c, c.previous)
           e == [d EXCEPT !.previous.mode = "Expression"]
           f == [Flags(d) EXCEPT !.do_block = FALSE, !.do_while = FALSE]
<1>1. HandleEndExpr(q, k) = IF Flags(d).do_while /\ d.previous.mode = "Conditional" THEN SetFlag(e, f) ELSE d
  BY DEF HandleEndExpr
<1>2. n \in Nat
  OBVIOUS
<1> HIDE DEF n, force
<1>3. Unwinds(q, a, n)
  BY <1>2, CloseStatementsIs DEF n
<1> HIDE DEF a
<1>4. Unwinds(a, b, n)
  BY <1>2, <1>3, GoodKept, UnwindsSelf, NewlinesAre
<1> HIDE DEF b
<1>5. Good(r, n)
  <2>1. Good(b, n) /\ Len(b.flags) >= 2 /\ Len(b.flags) \in Nat
    BY <1>4, GoodKept, StateParts
  <2>2. CASE Len(b.flags) = 2
    BY <1>2, <2>1, <2>2, RestoreModeIs
  <2>3. CASE Flags(b).mode = "Statement"
    BY <1>2, <2>1, <2>3, RestoreModeIs, GoodKept
  <2>4. CASE Len(b.flags) > 2 /\ Flags(b).mode # "Statement"
    BY <1>2, <2>1, <2>4, RestoreModeIs
  <2>5. Len(b.flags) = 2 \/ Len(b.flags) > 2
    <3> DEFINE L == Len(b.flags)
    <3>1. L \in Nat /\ L >= 2
      BY <2>1
    <3> HIDE DEF L
    <3>2. L = 2 \/ L > 2
      BY <3>1
    <3> QED
      BY <3>2 DEF L
  <2> HIDE DEF r
  <2> QED
    BY <2>2, <2>3, <2>4, <2>5
<1> HIDE DEF r
<1>6. Unwinds(r, c, k) /\ Ending(c.lines, k)
  BY <1>5, JsPrintTokenIs, PrintedIs DEF n
<1> HIDE DEF c
<1>7. Good(c, k) /\ c.previous \in JsFrame
  BY <1>6, GoodKept, StateParts
<1>8. /\ Good(d, k) /\ Len(d.lines) = Len(c.lines)
      /\ \A i \in 1 .. Len(c.lines) : d.lines[i].items = c.lines[i].items
  BY <1>7, RemoveIs, GoodKept
<1> HIDE DEF d
<1>9. Ending(d.lines, k)
  <2>1. Len(c.lines) \in 1 .. Len(c.lines)
    BY <1>7, StateParts
  <2> QED
    BY <1>6, <1>8, <2>1 DEF Ending
<1>10. SetFlag(e, f).lines = d.lines
  BY <1>8 DEF SetFlag, Good, JsState
<1> QED
  BY <1>1, <1>9, <1>10

\* Empty lines behind an operator end no statement.
LEMMA BlankLinesTell ==
    ASSUME NEW q, NEW n \in Nat, Good(q, n), NEW k, js[k].nl \in Nat, JsMaxPreserve \in Nat \ {0},
           q.last_type = "OPERATOR"
    PROVE  Told(BlankLines(q, k)) = Told(q)
<1> DEFINE m == Min({js[k].nl, JsMaxPreserve})
           print == CHOOSE f : f = [i \in 1 .. m |-> IF i = 1 THEN JsPrintNewline(q, FALSE)
                                                    ELSE JsPrintNewline(f[i - 1], TRUE)]
           Alike(r) == Keeps(q, r, n) /\ Told(r) = Told(q)
<1>1. BlankLines(q, k) = IF js[k].nl > 1 THEN print[m] ELSE q
  BY DEF BlankLines
<1>2. ASSUME NEW r, Alike(r), NEW force \in BOOLEAN PROVE Alike(JsPrintNewline(r, force))
  <2>1. Good(r, n) /\ r.last_type = "OPERATOR" /\ Keeps(q, JsPrintNewline(r, force), n)
    BY <1>2, Steps DEF Keeps, Follows
  <2>2. JsPrintNewline(r, force) = AddNewLine(r, force)
    BY <2>1 DEF JsPrintNewline
  <2>3. Told(AddNewLine(r, force)) = Told(r)
    BY <2>1, NewlineTells
  <2> QED
    BY <1>2, <2>1, <2>2, <2>3
<1>3. CASE js[k].nl > 1
  <2>1. m \in Nat /\ m >= 1
    <3>1. m \in {js[k].nl, JsMaxPreserve}
      BY <1>3 DEF Min
    <3> QED
      BY <1>3, <3>1
  <2> HIDE DEF m
  <2>2. PrintIs(print, q, m)
    <3>1. \E f : PrintIs(f, q, m)
      BY <2>1, PrintExists
    <3>2. \E f : f = [i \in 1 .. m |-> IF i = 1 THEN JsPrintNewline(q, FALSE) ELSE JsPrintNewline(f[i - 1], TRUE)]
      BY <3>1 DEF PrintIs
    <3>3. print = [i \in 1 .. m |-> IF i = 1 THEN JsPrintNewline(q, FALSE) ELSE JsPrintNewline(print[i - 1], TRUE)]
      BY <3>2
    <3> QED
      BY <3>3 DEF PrintIs
  <2> HIDE DEF print
  <2>3. Alike(q) /\ TRUE \in BOOLEAN /\ FALSE \in BOOLEAN
    BY KeepsSelf
  <2> HIDE DEF Alike
  <2> DEFINE Bad == {i \in 1 .. m : ~Alike(print[i])}
  <2>4. Bad = {}
    <3> SUFFICES ASSUME Bad # {} PROVE FALSE
      OBVIOUS
    <3>1. PICK i \in Bad : \A j \in Bad : i <= j
      BY LeastNumber, <2>1, Bad \subseteq Nat
    <3>2. print[i] = IF i = 1 THEN JsPrintNewline(q, FALSE) ELSE JsPrintNewline(print[i - 1], TRUE)
      BY <2>2 DEF PrintIs
    <3>3. CASE i = 1
      BY <1>2, <2>3, <3>1, <3>2, <3>3
    <3>4. CASE i # 1
      <4>1. i - 1 \in 1 .. m /\ i - 1 \notin Bad
        BY <2>1, <3>1, <3>4
      <4>2. Alike(print[i - 1])
        BY <4>1
      <4> QED
        BY <1>2, <2>3, <3>1, <3>2, <3>4, <4>2
    <3> QED
      BY <3>3, <3>4
  <2>5. Alike(print[m])
    BY <2>1, <2>4
  <2> QED
    BY <1>1, <1>3, <2>5 DEF Alike
<1>4. CASE ~(js[k].nl > 1)
  BY <1>1, <1>4
<1> QED
  BY <1>3, <1>4

\* A reserved word that names a property: a colon is behind it.
Named(n) == TextOf(n) \in ReservedWords /\ TextOf(NextToken(n)) = ":"

\* What the handler of a token is given, and what the tokens before it left.
LEMMA TakenShows ==
    ASSUME JsAssumption, js \in JsSource, NEW k \in 1 .. Len(js), NEW q, NEW n \in Nat, Good(q, n)
    PROVE  LET p == Take(q, k) IN
           /\ Stays(q.lines, p.lines) /\ Settled(q.lines, p.lines) /\ p.last_type = q.last_type
           /\ p.token = TextOf(k) \/ (p.token = "word" /\ Named(k))
           /\ ~Wanted(k) => p.lines = q.lines /\ Flags(p) = Flags(q)
           /\ q.last_type = "OPERATOR" => Flags(p).last_text = Flags(q).last_text
<1> DEFINE b == BlankLines(q, k)
           name == /\ TextOf(k) \in ReservedWords /\ Flags(b).mode = "ObjectLiteral"
                   /\ TextOf(NextToken(k)) = ":"
           t == IF name THEN "word" ELSE TextOf(k)
           r == [b EXCEPT !.token = t]
<1>1. Take(q, k) = r
  BY DEF Take
<1>2. js[k].nl \in Nat /\ JsMaxPreserve \in Nat \ {0}
  BY ScriptTokenAt DEF JsAssumption
<1>3. Keeps(q, b, n) /\ (q.last_type = "OPERATOR" => Told(b) = Told(q))
  BY <1>2, BlankLinesAre, BlankLinesTell
<1>4. ~Wanted(k) => b = q
  BY <1>2 DEF Wanted, BlankLines
<1>5. t = TextOf(k) \/ (t = "word" /\ Named(k))
  BY DEF Named
<1> HIDE DEF b, t
<1>6. /\ r.flags = b.flags /\ r.lines = b.lines /\ r.token = t /\ r.last_type = b.last_type
  BY <1>3 DEF Keeps, Good, JsState
<1> HIDE DEF r
<1> QED
  BY <1>1, <1>3, <1>4, <1>5, <1>6 DEF Keeps, Follows, Told, Flags

\* What is remembered of a token.
LEMMA RememberedShows ==
    ASSUME NEW k, TextOf(k) \in JsText, NEW r, NEW n \in Nat, Good(r, n), r.token \in JsToken
    PROVE  LET p == Remembered(r, k) IN
           /\ p.lines = r.lines
           /\ TextOf(k) \notin CommentTokens =>
                  Flags(p).last_text = TextOf(k) /\ p.last_type = JsTokenType[r.token]
<1> DEFINE f == [Flags(r) EXCEPT !.last_text = TextOf(k)]
           p == SetFlag(r, f)
           x == Flags(r).last_text
           y == TokenType(r)
           s == [p EXCEPT !.last_last_text = x, !.last_type = y]
<1>1. Remembered(r, k) = IF TextOf(k) \in CommentTokens THEN r ELSE s
  BY DEF Remembered
<1>2. f \in JsFrame /\ f.mode = Flags(r).mode /\ f.last_text = TextOf(k)
  <2>1. Flags(r) \in JsFrame
    BY StateParts
  <2> QED
    BY <2>1, FrameText DEF JsFrame
<1> HIDE DEF f, x, y
<1>3. Unwinds(r, p, n) /\ Flags(p) = f /\ p.lines = r.lines
  BY <1>2, SetFlagIs
<1> HIDE DEF p
<1>4. s.flags = p.flags /\ s.lines = p.lines /\ s.last_type = y
  BY <1>3 DEF Unwinds, Keeps, Good, JsState
<1> HIDE DEF s
<1> QED
  BY <1>1, <1>2, <1>3, <1>4 DEF Flags, y, TokenType

\* The kinds of the tokens the newlines are about.
LEMMA KindsAre ==
    ASSUME NEW t \in JsToken
    PROVE  /\ t \in ReservedWords => JsTokenType[t] = "RESERVED" /\ t \notin CommentTokens
           /\ t \in Operators => JsTokenType[t] = "OPERATOR" /\ t \notin CommentTokens
           /\ t = "word" => JsTokenType[t] = "WORD" /\ t \notin CommentTokens
           /\ t = "string" => JsTokenType[t] = "STRING" /\ t \notin CommentTokens
           /\ t \in {"(", "["} => JsTokenType[t] = "START_EXPR" /\ t \notin CommentTokens
           /\ t \in {")", "]"} => JsTokenType[t] = "END_EXPR" /\ t \notin CommentTokens
           /\ t = "open" => JsTokenType[t] = "START_BLOCK" /\ t \notin CommentTokens
           /\ t = "//" => JsTokenType[t] = "COMMENT"
<1>1. CASE t \in ReservedWords
  <2>1. \A x \in {"/**/", "/*..*/", "//", "word", "string", "(", "[", ")", "]", "open"} : t # x
    BY <1>1 DEF ReservedWords, StatementWords
  <2>2. t \notin Operators
    BY <1>1 DEF Operators, Positionable, ReservedWords, StatementWords
  <2>3. JsTokenType[t] = "RESERVED"
    <3>1. \A x \in {"/**/", "/*..*/", "//", "word", "string", "(", "[", ")", "]", "open", "close", "semicolon",
                     "=", "comma", "."} : t # x
      BY <1>1 DEF ReservedWords, StatementWords
    <3> QED
      BY <1>1, <2>2, <3>1 DEF JsTokenType
  <2> QED
    BY <2>1, <2>2, <2>3 DEF CommentTokens
<1>2. CASE t \in Operators
  <2>1. t \notin ReservedWords
    BY <1>2 DEF Operators, Positionable, ReservedWords, StatementWords
  <2>2. \A x \in {"/**/", "/*..*/", "//", "word", "string", "(", "[", ")", "]", "open"} : t # x
    BY <1>2 DEF Operators, Positionable
  <2>3. JsTokenType[t] = "OPERATOR"
    BY <1>2, <2>1 DEF JsTokenType, Operators, Positionable
  <2> QED
    BY <2>1, <2>2, <2>3 DEF CommentTokens
<1>3. CASE t \notin ReservedWords /\ t \notin Operators
  <2>1. CASE t \in {"word", "string", "(", "["}
    BY <1>3, <2>1 DEF JsTokenType, CommentTokens
  <2>2. CASE t \in {")", "]", "open", "//"}
    BY <1>3, <2>2 DEF JsTokenType, CommentTokens
  <2> QED
    BY <1>3, <2>1, <2>2
<1> QED
  BY <1>1, <1>2, <1>3

\* What answers a token, of the kinds the newlines are about.
Answers(q, k, r) ==
    LET t == TextOf(k) IN
    /\ t \in {"(", "["} => r = HandleStartExpr(q, k)
    /\ t \in {")", "]"} => r = HandleEndExpr(q, k)
    /\ t = "open" => r = HandleStartBlock(q, k)
    /\ t \in ReservedWords \cup {"word"} => r = HandleWord(q, k)
    /\ t = "string" => r = HandleString(q, k)
    /\ t \in Operators => r = HandleOperator(q, k)
    /\ t = "//" => r = HandleComment(q, k)

\* It retains the tokens; and it takes no line back, unless it prints a comment at the end of a line
\* or an else behind its block.
Prints(q, k, r) ==
    /\ Good(r, k) /\ r.token = q.token /\ Stays(q.lines, r.lines)
    /\ \/ Follows(q, r)
       \/ TextOf(k) = "//" /\ ~Wanted(k)
       \/ q.token \in {"else", "catch"}

\* So do all the handlers.
LEMMA JsAnswerIs ==
    ASSUME JsAssumption, JsInv, JsNext
    PROVE  /\ at < Len(js) /\ at' = Coming /\ js' = js
           /\ \E r : /\ fmt' = Remembered(r, Coming) /\ Answers(Taken, Coming, r)
                     /\ TextOf(Coming) # "eof" => Prints(Taken, Coming, r)
                     /\ TextOf(Coming) = "eof" => Keeps(Taken, r, Coming - 1)
<1> DEFINE k == Coming
           q == Taken
           t == TextOf(k)
           Step(r) == /\ at < Len(js) /\ at' = k /\ js' = js /\ fmt' = Remembered(r, k) /\ Answers(q, k, r)
                      /\ t # "eof" => Prints(q, k, r)
                      /\ t = "eof" => Keeps(q, r, k - 1)
<1>1. ASSUME NEW types, NEW r, Handle(types, r)
      PROVE  /\ at < Len(js) /\ at' = k /\ js' = js /\ fmt' = Remembered(r, k)
             /\ JsTokenType[t] \in types /\ t \in JsToken
             /\ k \in Nat /\ k >= 1 /\ Good(q, k - 1) /\ t \in JsText
  BY <1>1, Handled, Ready
<1>2. ASSUME t \in JsToken
      PROVE  /\ JsTokenType[t] = "EOF" <=> t = "eof"
             /\ t \in {"(", "["} => JsTokenType[t] = "START_EXPR"
             /\ t \in {")", "]"} => JsTokenType[t] = "END_EXPR"
             /\ t = "open" => JsTokenType[t] = "START_BLOCK"
             /\ t \in ReservedWords \cup {"word"} => JsTokenType[t] \in {"RESERVED", "WORD"}
             /\ t = "string" => JsTokenType[t] = "STRING"
             /\ t \in Operators => JsTokenType[t] = "OPERATOR"
             /\ t = "//" <=> JsTokenType[t] = "COMMENT"
  <2>1. t # "//" => JsTokenType[t] # "COMMENT"
    BY <1>2 DEF JsTokenType
  <2> QED
    BY <1>2, <2>1, KindsAre, TokenKinds
<1> HIDE DEF k, q, t
<1>3. ASSUME NEW r, Keeps(q, r, k) \/ Opens(q, r, k) \/ Closes(q, r, k) PROVE Prints(q, k, r)
  BY <1>3 DEF Keeps, Opens, Closes, Follows, Prints
<1>4. ASSUME NEW r, Retains(q, r, k), \/ Keeps(q, r, k)
                                      \/ TextOf(k) = "//" /\ ~Wanted(k)
                                      \/ q.token \in {"else", "catch"}
      PROVE  Prints(q, k, r)
  BY <1>4 DEF Keeps, Retains, Prints
<1>5. ASSUME Handle({"START_EXPR"}, HandleStartExpr(q, k)) PROVE Step(HandleStartExpr(q, k))
  <2>1. JsTokenType[t] = "START_EXPR" /\ t \in JsToken
    BY <1>1, <1>5
  <2>2. Prints(q, k, HandleStartExpr(q, k))
    BY <1>1, <1>3, <1>5, StartExprIs
  <2> QED
    BY <1>1, <1>2, <1>5, <2>1, <2>2 DEF Answers, t
<1>6. ASSUME Handle({"END_EXPR"}, HandleEndExpr(q, k)) PROVE Step(HandleEndExpr(q, k))
  <2>1. JsTokenType[t] = "END_EXPR" /\ t \in JsToken
    BY <1>1, <1>6
  <2>2. Prints(q, k, HandleEndExpr(q, k))
    BY <1>1, <1>3, <1>6, EndExprIs
  <2> QED
    BY <1>1, <1>2, <1>6, <2>1, <2>2 DEF Answers, t
<1>7. ASSUME Handle({"START_BLOCK"}, HandleStartBlock(q, k)) PROVE Step(HandleStartBlock(q, k))
  <2>1. JsTokenType[t] = "START_BLOCK" /\ t \in JsToken
    BY <1>1, <1>7
  <2>2. Prints(q, k, HandleStartBlock(q, k))
    BY <1>1, <1>3, <1>7, StartBlockIs
  <2> QED
    BY <1>1, <1>2, <1>7, <2>1, <2>2 DEF Answers, t
<1>8. ASSUME Handle({"END_BLOCK"}, HandleEndBlock(q, k)) PROVE Step(HandleEndBlock(q, k))
  <2>1. JsTokenType[t] = "END_BLOCK" /\ t \in JsToken
    BY <1>1, <1>8
  <2>2. Prints(q, k, HandleEndBlock(q, k))
    BY <1>1, <1>3, <1>8, EndBlockIs
  <2> QED
    BY <1>1, <1>2, <1>8, <2>1, <2>2 DEF Answers, t
<1>9. ASSUME Handle({"WORD", "RESERVED"}, HandleWord(q, k)) PROVE Step(HandleWord(q, k))
  <2>1. JsTokenType[t] \in {"WORD", "RESERVED"} /\ t \in JsToken
    BY <1>1, <1>9
  <2>2. Prints(q, k, HandleWord(q, k))
    BY <1>1, <1>4, <1>9, WordIs DEF t
  <2> QED
    BY <1>1, <1>2, <1>9, <2>1, <2>2 DEF Answers, t
<1>10. ASSUME Handle({"SEMICOLON"}, HandleSemicolon(q, k)) PROVE Step(HandleSemicolon(q, k))
  <2>1. JsTokenType[t] = "SEMICOLON" /\ t \in JsToken
    BY <1>1, <1>10
  <2>2. Prints(q, k, HandleSemicolon(q, k))
    BY <1>1, <1>3, <1>10, SemicolonIs
  <2> QED
    BY <1>1, <1>2, <1>10, <2>1, <2>2 DEF Answers, t
<1>11. ASSUME Handle({"STRING"}, HandleString(q, k)) PROVE Step(HandleString(q, k))
  <2>1. JsTokenType[t] = "STRING" /\ t \in JsToken
    BY <1>1, <1>11
  <2>2. Prints(q, k, HandleString(q, k))
    BY <1>1, <1>3, <1>11, StringIs
  <2> QED
    BY <1>1, <1>2, <1>11, <2>1, <2>2 DEF Answers, t
<1>12. ASSUME Handle({"EQUALS"}, HandleEquals(q, k)) PROVE Step(HandleEquals(q, k))
  <2>1. JsTokenType[t] = "EQUALS" /\ t \in JsToken
    BY <1>1, <1>12
  <2>2. Prints(q, k, HandleEquals(q, k))
    BY <1>1, <1>3, <1>12, EqualsIs
  <2> QED
    BY <1>1, <1>2, <1>12, <2>1, <2>2 DEF Answers, t
<1>13. ASSUME Handle({"COMMA"}, HandleComma(q, k)) PROVE Step(HandleComma(q, k))
  <2>1. JsTokenType[t] = "COMMA" /\ t \in JsToken
    BY <1>1, <1>13
  <2>2. Prints(q, k, HandleComma(q, k))
    BY <1>1, <1>3, <1>13, CommaIs
  <2> QED
    BY <1>1, <1>2, <1>13, <2>1, <2>2 DEF Answers, t
<1>14. ASSUME Handle({"OPERATOR"}, HandleOperator(q, k)) PROVE Step(HandleOperator(q, k))
  <2>1. JsTokenType[t] = "OPERATOR" /\ t \in JsToken
    BY <1>1, <1>14
  <2>2. Prints(q, k, HandleOperator(q, k))
    BY <1>1, <1>3, <1>14, OperatorIs
  <2> QED
    BY <1>1, <1>2, <1>14, <2>1, <2>2 DEF Answers, t
<1>15. ASSUME Handle({"BLOCK_COMMENT"}, HandleBlockComment(q, k)) PROVE Step(HandleBlockComment(q, k))
  <2>1. JsTokenType[t] = "BLOCK_COMMENT" /\ t \in JsToken
    BY <1>1, <1>15
  <2>2. Prints(q, k, HandleBlockComment(q, k))
    BY <1>1, <1>3, <1>15, BlockCommentIs
  <2> QED
    BY <1>1, <1>2, <1>15, <2>1, <2>2 DEF Answers, t
<1>16. ASSUME Handle({"COMMENT"}, HandleComment(q, k)) PROVE Step(HandleComment(q, k))
  <2>1. JsTokenType[t] = "COMMENT" /\ t \in JsToken
    BY <1>1, <1>16
  <2>2. t = "//"
    BY <1>2, <2>1
  <2>3. Prints(q, k, HandleComment(q, k))
    BY <1>1, <1>4, <1>16, <2>2, CommentIs DEF t
  <2> QED
    BY <1>1, <1>2, <1>16, <2>1, <2>3 DEF Answers, t
<1>17. ASSUME Handle({"DOT"}, HandleDot(q, k)) PROVE Step(HandleDot(q, k))
  <2>1. JsTokenType[t] = "DOT" /\ t \in JsToken
    BY <1>1, <1>17
  <2>2. Prints(q, k, HandleDot(q, k))
    BY <1>1, <1>3, <1>17, DotIs
  <2> QED
    BY <1>1, <1>2, <1>17, <2>1, <2>2 DEF Answers, t
<1>18. ASSUME Handle({"EOF"}, HandleEof(q)) PROVE Step(HandleEof(q))
  <2>1. JsTokenType[t] = "EOF" /\ t \in JsToken
    BY <1>1, <1>18
  <2>2. k - 1 \in Nat /\ Good(q, k - 1)
    BY <1>1, <1>18
  <2>3. Keeps(q, HandleEof(q), k - 1)
    BY <2>2, CloseStatementsIs DEF HandleEof, Unwinds
  <2> QED
    BY <1>1, <1>2, <1>18, <2>1, <2>3 DEF Answers, t
<1>19. \E r : Step(r)
  <2> HIDE DEF Step
  <2> QED
    BY <1>5, <1>6, <1>7, <1>8, <1>9, <1>10, <1>11, <1>12, <1>13, <1>14, <1>15, <1>16, <1>17, <1>18
       DEF JsNext, k, q
<1> QED
  BY <1>19 DEF k, q, t

-----------------------------------------------------------------------------
(* What the newlines of a script are to mean, by the lines alone; and what *)
(* a token leaves behind for the next one.                                 *)

\* What NewlinesMeanTheSame asks of token m.
NewlineRule(l, m) ==
    /\ TextOf(m - 1) = "//" => Apart(l, m - 1)
    /\ TextOf(m) = "++" /\ TextOf(m - 1) \in {"word", ")", "]"} =>
           IF Wanted(m) THEN Apart(l, m - 1) ELSE Beside(l, m - 1)
    /\ /\ TextOf(m - 1) = "return" /\ ~Wanted(m)
       /\ TextOf(m) \in {"word", "function", "new", "string", "(", "[", "open", "+", "++", "!"}
       => Beside(l, m - 1)
    /\ TextOf(m - 1) \in {"+", "++"} /\ TextOf(m) \in {"+", "++"} => Spaced(l, m - 1)

\* A comment to the end of its line leaves a new line, what is no comment is remembered, and a token
\* that the next one may have to stay with ends the last line.
LeftAt(q, n) ==
    /\ TextOf(n) = "//" => Fresh(q.lines, n)
    /\ TextOf(n) \notin CommentTokens =>
           /\ Flags(q).last_text = TextOf(n)
           /\ q.last_type = JsTokenType[TextOf(n)] \/ (Named(n) /\ q.last_type = "WORD")
    /\ TextOf(n) \in {"word", ")", "]", "return"} => Ending(q.lines, n)

JsLineInv ==
    /\ JsInv
    /\ \A m \in Printed \ {1} : NewlineRule(fmt.lines, m)
    /\ at >= 1 /\ at < Len(js) => LeftAt(fmt, at)

\* What was right of a token stays right.
LEMMA RuleKept ==
    ASSUME NEW l \in Seq(JsLine), NEW p \in Seq(JsLine), NEW a \in Nat, NEW b \in Nat, a <= b,
           Form(l, a), Form(p, b), Stays(l, p), NEW m \in 2 .. a, NewlineRule(l, m)
    PROVE  NewlineRule(p, m)
<1> DEFINE n == m - 1
<1>1. n \in Nat /\ n >= 1 /\ n + 1 <= a
  OBVIOUS
<1> HIDE DEF n
<1>2. /\ Apart(l, n) => Apart(p, n)
      /\ Beside(l, n) => Beside(p, n)
      /\ Spaced(l, n) => Spaced(p, n)
  BY <1>1, PairKept
<1> QED
  BY <1>2 DEF NewlineRule, n

\* Nothing that newlines are about is the name of something or a comment.
LEMMA PlainTokens ==
    /\ {"word", "string", "(", "[", ")", "]", "open", "+", "++", "!"} \cap ReservedWords = {}
    /\ {"+", "++", "!"} \subseteq Operators
    /\ {"return", "function", "new", "else", "catch"} \subseteq ReservedWords
    /\ {"word", "function", "new", "string", "(", "[", "open", "+", "++", "!", ")", "]", "return", ":"}
           \cap CommentTokens = {}
  BY DEF ReservedWords, StatementWords, Operators, Positionable, CommentTokens

\* What the handler of a token is given, behind the one before it.
LEMMA GivenBehind ==
    ASSUME JsAssumption, JsInv, at < Len(js), at >= 1
    PROVE  LET k == Coming
               q == Taken
           IN  /\ k \in Nat /\ k >= 2 /\ k - 1 = at /\ at \in Nat /\ k \in 2 .. Len(js)
               /\ TextOf(k) \in JsToken /\ TextOf(at) \in JsToken /\ TextOf(k) \in JsText
               /\ Good(fmt, at) /\ Good(q, at)
               /\ Stays(fmt.lines, q.lines) /\ Settled(fmt.lines, q.lines) /\ q.last_type = fmt.last_type
               /\ q.token = TextOf(k) \/ (q.token = "word" /\ Named(k))
               /\ ~Wanted(k) => q.lines = fmt.lines /\ Flags(q) = Flags(fmt)
               /\ fmt.last_type = "OPERATOR" => Flags(q).last_text = Flags(fmt).last_text
<1>1. /\ js \in JsSource /\ Len(js) \in Nat /\ at \in 0 .. Len(js)
  BY ScriptLength DEF JsInv
<1>6. at \in Nat /\ at \in 1 .. Len(js) /\ Min({at, Len(js) - 1}) = at
  BY <1>1, PrintedTo
<1>2. Good(fmt, at) /\ at \in Nat
  BY <1>6 DEF JsInv
<1>3. /\ Coming \in 1 .. Len(js) /\ Coming \in Nat /\ Coming - 1 = at /\ Good(Taken, Coming - 1)
      /\ TextOf(Coming) \in JsToken /\ TextOf(Coming) \in JsText
  BY Ready
<1>4. TextOf(at) \in JsToken
  BY <1>1, <1>6, ScriptTokenAt
<1>5. Coming >= 2 /\ Coming \in 2 .. Len(js)
  BY <1>1, <1>2, <1>3
<1> QED
  BY <1>1, <1>2, <1>3, <1>4, <1>5, TakenShows DEF Taken

\* Nothing stands behind a comment to the end of its line.
LEMMA CommentPair ==
    ASSUME JsAssumption, JsInv, at < Len(js), at >= 1, LeftAt(fmt, at), TextOf(at) = "//", TextOf(Coming) # "eof",
           NEW r, Answers(Taken, Coming, r), Prints(Taken, Coming, r)
    PROVE  Apart(r.lines, at)
<1> DEFINE k == Coming
           q == Taken
<1>1. /\ k \in Nat /\ k >= 2 /\ k - 1 = at /\ at \in Nat /\ k \in 2 .. Len(js) /\ TextOf(k) \in JsText
      /\ Good(fmt, at) /\ Good(q, at) /\ Stays(fmt.lines, q.lines) /\ Settled(fmt.lines, q.lines)
      /\ q.token = TextOf(k) \/ q.token = "word"
  BY GivenBehind
<1>2. at + 1 = k /\ k - 1 >= 1 /\ Good(q, k - 1)
  BY <1>1
<1>3. Fresh(q.lines, at)
  <2>1. at \in 1 .. at /\ at <= at
    BY <1>1
  <2>2. \A i, c : IsAt(q.lines, at, i, c) => IsAt(fmt.lines, at, i, c)
    BY <1>1, <2>1, LinesAre, PlaceKept
  <2>3. Fresh(fmt.lines, at)
    BY DEF LeftAt
  <2> QED
    BY <1>1, <2>2, <2>3 DEF Fresh, Settled
<1>4. Wanted(k)
  <2>1. js \in JsSource /\ (TextOf(k) = "eof" <=> k = Len(js))
    BY Ready DEF JsInv
  <2> QED
    BY <1>1, <2>1 DEF JsAssumption, TextOf, Wanted
<1> HIDE DEF k, q
<1>5. CASE Follows(q, r)
  <2>1. Good(r, at + 1)
    BY <1>2 DEF Prints, k
  <2> QED
    BY <1>1, <1>3, <1>5, <2>1, FreshApart
<1>6. CASE q.token \in {"else", "catch"}
  <2>1. TextOf(k) \in ReservedWords
    BY <1>1, <1>6, PlainTokens
  <2>2. r = HandleWord(q, k)
    BY <2>1 DEF Answers, k, q
  <2>3. Apart(HandleWord(q, k).lines, k - 1)
    BY <1>1, <1>2, <1>6, WordIs
  <2> QED
    BY <1>1, <2>2, <2>3
<1> QED
  BY <1>4, <1>5, <1>6 DEF Prints, k, q

\* ++ stays with its operand or off it, and signs stay apart.
LEMMA SignPair ==
    ASSUME JsAssumption, JsInv, at < Len(js), at >= 1, LeftAt(fmt, at), TextOf(Coming) # "eof",
           NEW r, Answers(Taken, Coming, r), TextOf(Coming) \in {"+", "++"}
    PROVE  /\ TextOf(Coming) = "++" /\ TextOf(at) \in {"word", ")", "]"} =>
                  IF Wanted(Coming) THEN Apart(r.lines, at) ELSE Beside(r.lines, at)
           /\ TextOf(at) \in {"+", "++"} => Spaced(r.lines, at)
<1> DEFINE k == Coming
           q == Taken
           t == TextOf(at)
<1>1. /\ k \in Nat /\ k >= 2 /\ k - 1 = at /\ Good(q, k - 1) /\ t \in JsToken
      /\ q.last_type = fmt.last_type /\ (q.token = TextOf(k) \/ Named(k))
      /\ ~Wanted(k) => q.lines = fmt.lines /\ Flags(q) = Flags(fmt)
      /\ fmt.last_type = "OPERATOR" => Flags(q).last_text = Flags(fmt).last_text
  BY GivenBehind
<1> HIDE DEF k, q
<1>2. q.token = TextOf(k) /\ r = HandleOperator(q, k)
  <2>1. TextOf(k) \notin ReservedWords /\ TextOf(k) \in Operators
    BY PlainTokens DEF k
  <2> QED
    BY <1>1, <2>1 DEF Answers, Named, k, q
<1>3. q.token \in {"++", "+"}
  BY <1>2 DEF k
<1>4. ASSUME t \in {"word", ")", "]", "+", "++"}
      PROVE  /\ Flags(fmt).last_text = t /\ fmt.last_type = JsTokenType[t]
             /\ t \in {"word", ")", "]"} => Ending(fmt.lines, at)
  <2>1. t \notin CommentTokens /\ t \notin ReservedWords
    BY <1>4, PlainTokens
  <2> QED
    BY <2>1 DEF LeftAt, Named, t
<1>5. /\ t = "word" => JsTokenType[t] = "WORD"
      /\ t \in {")", "]"} => JsTokenType[t] = "END_EXPR"
      /\ t \in {"+", "++"} => JsTokenType[t] = "OPERATOR"
  BY <1>1, KindsAre, PlainTokens
<1> HIDE DEF t
<1>6. ASSUME TextOf(k) = "++", t \in {"word", ")", "]"}
      PROVE  IF Wanted(k) THEN Apart(r.lines, at) ELSE Beside(r.lines, at)
  <2>1. q.token = "++" /\ q.last_type \in {"WORD", "END_EXPR"}
    BY <1>1, <1>2, <1>4, <1>5, <1>6
  <2>2. CASE Wanted(k)
    BY <1>1, <1>2, <1>3, <2>1, <2>2, SignShows
  <2>3. CASE ~Wanted(k)
    <3>1. Ending(q.lines, k - 1) /\ Flags(q).last_text \notin {"open", "semicolon"}
      BY <1>1, <1>4, <1>6, <2>3
    <3> QED
      BY <1>1, <1>2, <1>3, <2>1, <2>3, <3>1, SignShows
  <2> QED
    BY <2>2, <2>3
<1>7. ASSUME t \in {"+", "++"} PROVE Spaced(r.lines, at)
  <2>1. q.last_type = "OPERATOR" /\ Flags(q).last_text \in {"++", "+"}
    BY <1>1, <1>4, <1>5, <1>7
  <2> QED
    BY <1>1, <1>2, <1>3, <2>1, SignShows
<1> QED
  BY <1>6, <1>7 DEF k, t

\* The next token is the one behind, if it is no comment.
LEMMA NextIs ==
    ASSUME NEW n \in Nat, n + 1 <= Len(js), Len(js) \in Nat, TextOf(n + 1) \notin CommentTokens
    PROVE  NextToken(n) = n + 1
<1> DEFINE M == {m \in n + 1 .. Len(js) : js[m].t \notin CommentTokens}
<1>1. n + 1 \in M /\ \A y \in M : y \in Nat /\ n + 1 <= y
  BY DEF TextOf
<1> HIDE DEF M
<1>2. \A x \in M : (\A y \in M : x <= y) => x = n + 1
  BY <1>1
<1>3. Min(M) = n + 1
  BY <1>1, <1>2 DEF Min
<1> QED
  BY <1>3 DEF NextToken, M

\* What is returned is on the line of the return.
LEMMA ReturnPair ==
    ASSUME JsAssumption, JsInv, at < Len(js), at >= 1, LeftAt(fmt, at), TextOf(at) = "return",
           ~Wanted(Coming), NEW r, Answers(Taken, Coming, r),
           TextOf(Coming) \in {"word", "function", "new", "string", "(", "[", "open", "+", "++", "!"}
    PROVE  Beside(r.lines, at)
<1> DEFINE k == Coming
           q == Taken
<1>1. /\ k \in Nat /\ k >= 2 /\ k - 1 = at /\ at \in Nat /\ Good(q, k - 1) /\ k \in 2 .. Len(js)
      /\ TextOf(k) \in JsText /\ TextOf(at) \in JsToken
      /\ q.last_type = fmt.last_type /\ (q.token = TextOf(k) \/ (q.token = "word" /\ Named(k)))
      /\ q.lines = fmt.lines /\ Flags(q) = Flags(fmt)
  BY GivenBehind
<1>2. Len(js) \in Nat
  BY ScriptLength DEF JsInv
<1> HIDE DEF k, q
<1>3. ~Named(at)
  <2>1. at + 1 = k /\ at + 1 <= Len(js)
    BY <1>1, <1>2
  <2>2. TextOf(k) \notin CommentTokens /\ TextOf(k) # ":"
    BY PlainTokens DEF k
  <2>3. NextToken(at) = k
    BY <1>1, <1>2, <2>1, <2>2, NextIs
  <2> QED
    BY <2>2, <2>3 DEF Named
<1>4. /\ Flags(fmt).last_text = "return" /\ fmt.last_type = "RESERVED" /\ Ending(fmt.lines, at)
  BY <1>1, <1>3, KindsAre, PlainTokens DEF LeftAt
<1>5. q.token \notin {"do", "for", "if", "while"}
  BY <1>1 DEF k
<1>6. Returned(q, k)
  BY <1>1, <1>4, <1>5 DEF Returned, k
<1>7. /\ TextOf(k) \in {"word", "function", "new"} =>
             r = HandleWord(q, k) /\ q.token \in {"word", "new", "function"}
      /\ TextOf(k) = "string" => r = HandleString(q, k)
      /\ TextOf(k) \in {"(", "["} => r = HandleStartExpr(q, k)
      /\ TextOf(k) = "open" => r = HandleStartBlock(q, k)
      /\ TextOf(k) \in {"+", "++", "!"} => r = HandleOperator(q, k)
  <2>1. TextOf(k) \in {"+", "++", "!"} => TextOf(k) \in Operators
    BY PlainTokens
  <2>2. TextOf(k) \in {"word", "function", "new"} => TextOf(k) \in ReservedWords \cup {"word"}
    BY PlainTokens
  <2> QED
    BY <1>1, <2>1, <2>2 DEF Answers, k, q
<1>8. CASE TextOf(k) \in {"word", "function", "new"}
  BY <1>1, <1>6, <1>7, <1>8, ReturnedWord
<1>9. CASE TextOf(k) = "string"
  BY <1>1, <1>6, <1>7, <1>9, ReturnedString
<1>10. CASE TextOf(k) \in {"(", "["}
  BY <1>1, <1>6, <1>7, <1>10, ReturnedExpr
<1>11. CASE TextOf(k) = "open"
  BY <1>1, <1>6, <1>7, <1>11, ReturnedBlock
<1>12. CASE TextOf(k) \in {"+", "++", "!"}
  BY <1>1, <1>6, <1>7, <1>12, ReturnedOperator
<1> QED
  BY <1>8, <1>9, <1>10, <1>11, <1>12 DEF k

\* So the token that comes is printed right.
LEMMA RuleComes ==
    ASSUME JsAssumption, JsInv, at < Len(js), at >= 1, LeftAt(fmt, at), TextOf(Coming) # "eof",
           NEW r, Answers(Taken, Coming, r), Prints(Taken, Coming, r)
    PROVE  NewlineRule(r.lines, Coming)
<1>1. Coming - 1 = at
  BY Ready
<1> QED
  BY <1>1, CommentPair, SignPair, ReturnPair DEF NewlineRule

\* And it leaves behind what the next one is printed by.
LEMMA LeftComes ==
    ASSUME JsAssumption, JsInv, at < Len(js), TextOf(Coming) # "eof",
           NEW r, Answers(Taken, Coming, r), Prints(Taken, Coming, r)
    PROVE  LeftAt(Remembered(r, Coming), Coming)
<1> DEFINE k == Coming
           q == Taken
           p == Remembered(r, k)
<1>1. /\ k \in 1 .. Len(js) /\ k \in Nat /\ k >= 1 /\ Good(q, k - 1) /\ q.token \in JsToken
      /\ TextOf(k) \in JsText /\ TextOf(k) \in JsToken /\ js \in JsSource
      /\ Good(fmt, at) /\ at \in Nat
  <2>1. js \in JsSource /\ Len(js) \in Nat /\ at \in 0 .. Len(js)
    BY ScriptLength DEF JsInv
  <2>2. at \in Nat
    BY <2>1
  <2>3. Min({at, Len(js) - 1}) = at
    BY <2>1, <2>2, PrintedTo
  <2>4. Good(fmt, at)
    BY <2>3 DEF JsInv
  <2> QED
    BY <2>1, <2>2, <2>4, Ready
<1>2. q.token = TextOf(k) \/ (q.token = "word" /\ Named(k))
  BY <1>1, TakenShows DEF Taken
<1>3. Good(r, k) /\ r.token = q.token
  BY DEF Prints
<1> HIDE DEF k, q
<1>4. /\ p.lines = r.lines
      /\ TextOf(k) \notin CommentTokens => Flags(p).last_text = TextOf(k) /\ p.last_type = JsTokenType[r.token]
  BY <1>1, <1>3, RememberedShows
<1> HIDE DEF p
<1>5. ASSUME TextOf(k) = "//" PROVE Fresh(p.lines, k)
  <2>1. r = HandleComment(q, k)
    BY <1>5 DEF Answers, k, q
  <2>2. JustAddedNewline(r)
    BY <1>1, <2>1, CommentIs
  <2> QED
    BY <1>1, <1>3, <1>4, <2>2, FreshIs
<1>6. ASSUME TextOf(k) \notin CommentTokens
      PROVE  /\ Flags(p).last_text = TextOf(k)
             /\ p.last_type = JsTokenType[TextOf(k)] \/ (Named(k) /\ p.last_type = "WORD")
  <2>1. "word" \in JsToken /\ JsTokenType["word"] = "WORD"
    <3>1. "word" \in JsToken
      BY DEF JsToken
    <3> QED
      BY <3>1, KindsAre
  <2> QED
    BY <1>2, <1>3, <1>4, <1>6, <2>1
<1>7. ASSUME TextOf(k) \in {"word", ")", "]", "return"} PROVE Ending(p.lines, k)
  <2>1. CASE TextOf(k) \in {"word", "return"}
    <3>1. TextOf(k) \in ReservedWords \cup {"word"}
      BY <2>1, PlainTokens
    <3>2. r = HandleWord(q, k) /\ q.token \in {"word", "new", "return"}
      BY <1>2, <2>1, <3>1 DEF Answers, k, q
    <3> QED
      BY <1>1, <1>4, <3>2, WordEnds
  <2>2. CASE TextOf(k) \in {")", "]"}
    <3>1. r = HandleEndExpr(q, k)
      BY <2>2 DEF Answers, k, q
    <3> QED
      BY <1>1, <1>4, <3>1, EndExprEnds
  <2> QED
    BY <1>7, <2>1, <2>2
<1> QED
  BY <1>5, <1>6, <1>7 DEF LeftAt, k, p

\* The tokens that are printed, before the last token is reached and behind it.
LEMMA PrintedAre ==
    ASSUME JsAssumption, js \in JsSource, NEW a \in 0 .. Len(js)
    PROVE  /\ a < Len(js) => Min({a, Len(js) - 1}) = a
           /\ a = Len(js) => Min({a, Len(js) - 1}) = Len(js) - 1
           /\ Len(js) \in Nat /\ a \in Nat
<1>1. Len(js) \in Nat /\ Len(js) >= 1 /\ a \in Nat
  BY ScriptLength
<1> QED
  BY <1>1, PrintedTo

\* A step keeps the newlines of the tokens that are printed, and prints the token that comes right.
LEMMA JsLineRules ==
    ASSUME JsAssumption, JsLineInv, JsNext
    PROVE  /\ js' = js /\ at' = Coming
           /\ \A m \in 2 .. Min({Coming, Len(js) - 1}) : NewlineRule(fmt'.lines, m)
           /\ Coming < Len(js) => LeftAt(fmt', Coming)
<1> DEFINE k == Coming
           q == Taken
<1>1. /\ JsInv /\ at < Len(js) /\ at' = k /\ js' = js
  BY JsAnswerIs DEF JsLineInv
<1>2. PICK r : /\ fmt' = Remembered(r, k) /\ Answers(q, k, r)
               /\ TextOf(k) # "eof" => Prints(q, k, r)
               /\ TextOf(k) = "eof" => Keeps(q, r, k - 1)
  BY <1>1, JsAnswerIs
<1>3. /\ k \in 1 .. Len(js) /\ k \in Nat /\ k - 1 = at /\ at \in Nat /\ Good(q, at)
      /\ TextOf(k) \in JsText /\ q.token \in JsToken /\ (TextOf(k) = "eof" <=> k = Len(js))
      /\ js \in JsSource /\ at \in 0 .. Len(js)
  BY <1>1, Ready DEF JsInv
<1>4. Min({at, Len(js) - 1}) = at /\ Len(js) \in Nat
  BY <1>1, <1>3, PrintedAre
<1>5. /\ Good(fmt, at) /\ Stays(fmt.lines, q.lines)
  <2>1. Good(fmt, at)
    BY <1>1, <1>4 DEF JsInv
  <2> QED
    BY <1>3, <2>1, TakenShows DEF Taken
<1>6. \A m \in 2 .. at : NewlineRule(fmt.lines, m)
  BY <1>3, <1>4 DEF JsLineInv, Printed
<1>7. \A m \in 2 .. at : NewlineRule(q.lines, m)
  BY <1>3, <1>5, <1>6, LinesAre, RuleKept
<1> HIDE DEF k, q
<1>8. ASSUME NEW n \in Nat, at <= n, Good(r, n), Stays(q.lines, r.lines)
      PROVE  \A m \in 2 .. at : NewlineRule(r.lines, m)
  BY <1>3, <1>7, <1>8, LinesAre, RuleKept
<1>9. CASE TextOf(k) # "eof"
  <2>1. Prints(q, k, r) /\ Good(r, k) /\ Stays(q.lines, r.lines) /\ r.token = q.token
    BY <1>2, <1>9 DEF Prints
  <2>2. \A m \in 2 .. at : NewlineRule(r.lines, m)
    <3>1. k \in Nat /\ at <= k
      BY <1>3
    <3> QED
      BY <1>8, <2>1, <3>1
  <2>3. k < Len(js) /\ Min({k, Len(js) - 1}) = k
    <3>1. k < Len(js) /\ k \in 0 .. Len(js)
      BY <1>3, <1>4, <1>9
    <3> QED
      BY <1>3, <3>1, PrintedAre
  <2>4. at >= 1 => NewlineRule(r.lines, k)
    BY <1>1, <1>2, <1>9, <2>1, RuleComes DEF JsLineInv, k, q
  <2>5. \A m \in 2 .. k : NewlineRule(r.lines, m)
    <3> SUFFICES ASSUME NEW m \in 2 .. k PROVE NewlineRule(r.lines, m)
      OBVIOUS
    <3>1. m \in 2 .. at \/ (m = k /\ at >= 1)
      BY <1>3
    <3> QED
      BY <2>2, <2>4, <3>1
  <2>6. fmt'.lines = r.lines
    BY <1>2, <1>3, <2>1, RememberedShows
  <2>7. LeftAt(fmt', k)
    BY <1>1, <1>2, <1>9, <2>1, LeftComes DEF k, q
  <2> QED
    BY <1>1, <2>3, <2>5, <2>6, <2>7 DEF k
<1>10. CASE TextOf(k) = "eof"
  <2>1. Good(r, at) /\ Stays(q.lines, r.lines) /\ r.token = q.token
    BY <1>2, <1>3, <1>10 DEF Keeps, Follows
  <2>5. at \in Nat /\ at <= at
    BY <1>3
  <2>2. \A m \in 2 .. at : NewlineRule(r.lines, m)
    BY <1>8, <2>1, <2>5
  <2>3. k = Len(js) /\ Min({k, Len(js) - 1}) = at
    <3>1. k = Len(js) /\ k \in 0 .. Len(js)
      BY <1>3, <1>4, <1>10
    <3> QED
      BY <1>3, <3>1, PrintedAre
  <2>4. fmt'.lines = r.lines
    BY <1>2, <1>3, <2>1, RememberedShows
  <2> QED
    BY <1>1, <1>4, <2>2, <2>3, <2>4 DEF k
<1> QED
  BY <1>9, <1>10

\* So every step keeps them all.
LEMMA JsLineStep ==
    ASSUME JsAssumption, JsLineInv, [JsNext]_jsVars
    PROVE  JsLineInv'
<1>1. JsInv'
  BY JsInvNext DEF JsLineInv
<1>2. CASE JsNext
  <2>1. /\ js' = js /\ at' = Coming
        /\ \A m \in 2 .. Min({Coming, Len(js) - 1}) : NewlineRule(fmt'.lines, m)
        /\ Coming < Len(js) => LeftAt(fmt', Coming)
    BY <1>2, JsLineRules
  <2>2. Printed' = 1 .. Min({Coming, Len(js) - 1})
    BY <2>1 DEF Printed
  <2>3. \A m \in Printed' \ {1} : NewlineRule(fmt'.lines, m)
    BY <2>1, <2>2
  <2>4. (\A m \in Printed \ {1} : NewlineRule(fmt.lines, m))'
    BY <2>1, <2>3 DEF NewlineRule, TextOf, Wanted
  <2>5. (at >= 1 /\ at < Len(js) => LeftAt(fmt, at))'
    BY <2>1 DEF LeftAt, TextOf, Flags, Named, NextToken
  <2> QED
    BY <1>1, <2>4, <2>5 DEF JsLineInv
<1>3. CASE UNCHANGED jsVars
  <2>1. js' = js /\ at' = at /\ fmt' = fmt
    BY <1>3 DEF jsVars
  <2>2. Printed' = Printed
    BY <2>1 DEF Printed
  <2>3. \A m \in Printed \ {1} : NewlineRule(fmt.lines, m)
    BY DEF JsLineInv
  <2>4. (\A m \in Printed \ {1} : NewlineRule(fmt.lines, m))'
    BY <2>1, <2>2, <2>3 DEF NewlineRule, TextOf, Wanted
  <2>5. (at >= 1 /\ at < Len(js) => LeftAt(fmt, at))'
    BY <2>1 DEF JsLineInv, LeftAt, TextOf, Flags, Named, NextToken
  <2> QED
    BY <1>1, <2>4, <2>5 DEF JsLineInv
<1> QED
  BY <1>2, <1>3

\* Nothing is printed at first.
LEMMA JsLineInit ==
    ASSUME JsAssumption, JsInit
    PROVE  JsLineInv
<1>1. JsInv /\ at = 0 /\ js \in JsSource
  BY JsInvInit DEF JsInit, JsBegin
<1>2. Len(js) \in Nat /\ Len(js) >= 1
  BY <1>1, ScriptLength
<1>3. Printed = 1 .. 0
  BY <1>1, <1>2, PrintedTo DEF Printed
<1> QED
  BY <1>1, <1>3 DEF JsLineInv

\* Where the lines say a token is.
LEMMA LineIs ==
    ASSUME JsInv, NEW n \in 1 .. Min({at, Len(js) - 1}), Min({at, Len(js) - 1}) \in Nat
    PROVE  IsAt(fmt.lines, n, Line(n), Column(n))
<1> DEFINE l == fmt.lines
           N == Min({at, Len(js) - 1})
<1>1. l \in Seq(JsLine) /\ Form(l, N) /\ DOMAIN l = 1 .. Len(l) /\ N \in Nat
  BY LinesAre DEF JsInv
<1> HIDE DEF N
<1>2. n \in 1 .. N
  BY DEF N
<1>3. PICK i \in Nat, c \in Nat : IsAt(l, n, i, c)
  BY <1>1, <1>2, PlaceIs
<1>4. \A j \in DOMAIN l : n \in ToSet(l[j].items) <=> \E d : IsAt(l, n, j, d)
  BY DEF ToSet, IsAt
<1>5. Line(n) \in DOMAIN l /\ n \in ToSet(l[Line(n)].items)
  <2>1. i \in DOMAIN l /\ n \in ToSet(l[i].items)
    BY <1>3, <1>4 DEF IsAt
  <2> QED
    BY <2>1 DEF Line
<1> HIDE DEF l
<1>6. PICK d : IsAt(l, n, Line(n), d)
  BY <1>4, <1>5
<1> DEFINE items == l[Line(n)].items
<1>7. Column(n) = CHOOSE e \in DOMAIN items : items[e] = n
  BY DEF Column, l
<1>8. d \in DOMAIN items /\ items[d] = n
  BY <1>6 DEF IsAt
<1> HIDE DEF items
<1>9. Column(n) \in DOMAIN items /\ items[Column(n)] = n
  BY <1>7, <1>8
<1> QED
  BY <1>5, <1>9 DEF IsAt, items, l

\* Apart is not together, beside is, and spaced is separate.
LEMMA PlacesTell ==
    ASSUME JsAssumption, JsInv, NEW m \in Printed \ {1}
    PROVE  /\ Apart(fmt.lines, m - 1) => ~Together(m)
           /\ Beside(fmt.lines, m - 1) => Together(m)
           /\ Spaced(fmt.lines, m - 1) => Separate(m)
<1> DEFINE N == Min({at, Len(js) - 1})
           n == m - 1
           l == fmt.lines
<1>1. N \in Nat
  <2>1. js \in JsSource /\ at \in 0 .. Len(js)
    BY DEF JsInv
  <2>2. Len(js) \in Nat /\ Len(js) >= 1 /\ at \in Nat
    BY <2>1, ScriptLength
  <2>3. N = at \/ N = Len(js) - 1
    BY <2>1, <2>2, PrintedTo
  <2> HIDE DEF N
  <2> QED
    BY <2>2, <2>3
<1>2. m \in 1 .. N /\ m # 1
  BY DEF Printed
<1> HIDE DEF N
<1>3. n \in 1 .. N /\ n + 1 = m /\ m \in 1 .. N /\ n \in Nat
  BY <1>1, <1>2
<1>4. IsAt(l, n, Line(n), Column(n)) /\ IsAt(l, m, Line(m), Column(m))
  BY <1>1, <1>3, LineIs DEF N
<1>5. l \in Seq(JsLine) /\ Form(l, N)
  BY LinesAre DEF JsInv, N
<1> HIDE DEF n, l
<1>6. \A i, c : IsAt(l, n, i, c) => i = Line(n)
  BY <1>1, <1>3, <1>4, <1>5, PlaceIs
<1>7. \A i, c : IsAt(l, m, i, c) => i = Line(m)
  BY <1>1, <1>3, <1>4, <1>5, PlaceIs
<1>8. Apart(l, n) => Line(n) # Line(m)
  BY <1>3, <1>4 DEF Apart
<1>9. Beside(l, n) => Line(n) = Line(m)
  BY <1>3, <1>6, <1>7 DEF Beside
<1>10. Spaced(l, n) => Line(n) # Line(m) \/ Column(m) > Column(n) + 1
  BY <1>3, <1>4 DEF Spaced
<1> QED
  BY <1>8, <1>9, <1>10 DEF Together, Separate, n, l

\* The rules are what the newlines are to mean.
LEMMA RulesTell == ASSUME JsAssumption, JsLineInv PROVE NewlinesMeanTheSame
<1>1. ASSUME NEW m \in Printed \ {1}
      PROVE  /\ NewlineRule(fmt.lines, m)
             /\ Apart(fmt.lines, m - 1) => ~Together(m)
             /\ Beside(fmt.lines, m - 1) => Together(m)
             /\ Spaced(fmt.lines, m - 1) => Separate(m)
  BY PlacesTell DEF JsLineInv
<1> QED
  BY <1>1 DEF NewlinesMeanTheSame, NewlineRule

\* Where JavaScript asks for newlines the formatted script has those of the source: a comment to the
\* end of its line ends it, ++ behind an operand stays on its line or off it, what is returned stays
\* on the line of its return, and signs that would become another operator stay apart; for every
\* script and every number of newlines in it, whether it is grammatical or not, and wherever it has
\* been read to (NewlinesMeanTheSame, of JsReadsTheSame; beautify.js 961-969, 1116-1130, 1241-1246,
\* 1354-1387, 1467-1477).
THEOREM NewlinesKeptByTheFormatter == JsSpec => []NewlinesMeanTheSame
<1>1. JsInit => JsLineInv
  BY JsLineInit, JsAssumption
<1>2. JsLineInv /\ [JsNext]_jsVars => JsLineInv'
  BY JsLineStep, JsAssumption
<1>3. JsLineInv => NewlinesMeanTheSame
  BY RulesTell, JsAssumption
<1> QED
  BY <1>1, <1>2, <1>3, PTL DEF JsSpec
=============================================================================
