---------------------------- MODULE CssBeautify ----------------------------
(***************************************************************************)
(* The formatter of style sheets (assets/html_beautify/beautify-css.js     *)
(* 63-465), with the options the site's editor gives it (templates/        *)
(* editor.html 239-243): four blanks an indentation, the defaults else.    *)
(*                                                                         *)
(* It goes through the characters; what is pushed as one piece, and a run  *)
(* of characters none of which is special, is one token here, with the     *)
(* white space before it; { } and : : are two, also when read at once.     *)
(***************************************************************************)
EXTENDS Integers, Sequences, FiniteSets, SequencesExt

CONSTANTS CssSource     \* the style sheets

\* Tokens: words (one that ends in &, one that is any other), comments, @{..} and #{..},
\* at-rules, url(..) as a whole, the ( of a url(".."), and the characters with a meaning,
\* the braces { and } being "open" and "close".
\* An at-rule is "@plain_" with its name, which a blank ends, "@plain:" with its name and
\* the colon behind it, or only the @ of a name that is read as a word: one before a newline
\* that is found in the tables ("@page", "@media"), or one that is not found ("@plain").
CssWords  == {"word", "&", "string", "#var", "@var"}
CssAtRule == {"@plain_", "@plain:", "@plain", "@page", "@media"}
CssToken  == CssWords \cup CssAtRule \cup {"/**/", "//", "url()", "url(", "(", ")", "[", "]",
                                           "open", "close", ":", "semicolon", "comma", "="}

\* White space: none, without a newline, ending in one, or ending in one and blanks.
Newlines == {"newline", "indented"}
White    == {"none", "blank"} \cup Newlines

\* A comment, a quoted text or what is in a url(..) may hold a character that has a meaning
\* elsewhere: a {, a ; (or a }), a ( without its ) or a ) without its (.
Texts    == {"string", "/**/", "//", "url()"}
Plain    == "-"
Held     == {Plain, "open", "semicolon", "(", ")"}
CssPiece == [t : CssToken, white : White, holds : Held]

\* What may stand behind the name of a "@plain", with no white space in between.
EndsName == {"comma", "semicolon", "open", "close", "(", ")", "[", "]", "=", "/**/", "//",
             "string"}

\* A sheet begins without blanks, after a comment to the end of the line comes a newline,
\* after a url( that has no content of its own a quoted one or none.
IsSheet(s) ==
    /\ s # <<>> => s[1].white # "blank"
    /\ \A n \in 1 .. Len(s) :
           LET end  == [t |-> "end", white |-> "newline"]
               next == IF n < Len(s) THEN s[n + 1] ELSE end
               then == IF n + 1 < Len(s) THEN s[n + 2] ELSE end
           IN  /\ s[n].holds # Plain => s[n].t \in Texts
               /\ s[n].t = "//" => next.white \in Newlines
               /\ s[n].t = "@plain_" => next.white # "none"
               /\ s[n].t \in {"@plain", "@page", "@media"} => next.t = "word" /\ next.white = "none"
               /\ s[n].t \in {"@page", "@media"} => then.white \in Newlines
               /\ s[n].t = "@plain" => \/ then.white \in Newlines
                                       \/ then.white = "none" /\ then.t \in EndsName
               /\ s[n].t = "url(" => next.t \in {"string", ")"}

ASSUME CssAssumption == \A s \in CssSource : s \in Seq(CssPiece) /\ IsSheet(s)

VARIABLES
    css,            \* the style sheet
    pos,            \* the token read last
    output,         \* what is pushed: tokens by their place, blanks, newlines, indentations
    indentLevel,
    base,           \* indentations in basebaseIndentString
    nestedLevel, parenLevel,
    insideRule, insidePropertyValue, enteringConditionalGroup,
    afterOpening,   \* last_top_ch is a {
    finished        \* whether the formatter has answered

cssModes == <<nestedLevel, parenLevel, insideRule, insidePropertyValue, enteringConditionalGroup>>
cssVars  == <<css, pos, output, indentLevel, base, cssModes, afterOpening, finished>>

CssBegin ==
    /\ pos = 0
    /\ output = <<>>
    /\ indentLevel = 0 /\ base = 0
    /\ nestedLevel = 0 /\ parenLevel = 0
    /\ insideRule = FALSE /\ insidePropertyValue = FALSE /\ enteringConditionalGroup = FALSE
    /\ afterOpening = FALSE /\ finished = FALSE

CssInit == css \in CssSource /\ CssBegin

-----------------------------------------------------------------------------
(* The printer: what the output o becomes.                                 *)

Blank1      == [k |-> "blank", n |-> 1]
Newline     == [k |-> "newline", n |-> 1]
Indented(b) == [k |-> "indent", n |-> b]
Token(n)    == [k |-> "token", n |-> n]

IsWhite(o) == o # <<>> /\ o[Len(o)].k # "token"

\* print.trim
Trim(o) == LET keep == {n \in 1 .. Len(o) : o[n].k = "token"}
           IN  SubSeq(o, 1, IF keep = {} THEN 0 ELSE CHOOSE n \in keep : \A m \in keep : m <= n)

SingleSpace(o) == IF o = <<>> \/ IsWhite(o) THEN o ELSE Append(o, Blank1)

\* print.newLine(true) and print.newLine(), at b indentations.
NewLineKept(o, b) == IF o = <<>> THEN o
                     ELSE o \o <<Newline>> \o (IF b = 0 THEN <<>> ELSE <<Indented(b)>>)
NewLine(o, b) == NewLineKept(IF o = <<>> \/ o[Len(o)] = Newline THEN o ELSE Trim(o), b)

\* print.preserveSingleSpace before a token of that white space.
PreserveSingleSpace(o, white) == IF white = "none" THEN o ELSE SingleSpace(o)

-----------------------------------------------------------------------------
(* Reading ahead.                                                          *)

Here    == css[pos + 1]
Reading(t) == pos < Len(css) /\ Here.t = t
TokenAt(n) == IF n <= Len(css) THEN css[n].t ELSE "end"
At1     == pos + 1

\* isAfterSpace and isAfterNewline: "=" and a url( swallow the white space behind them, and
\* of that behind ( : and a comma the last character is looked at.
WhiteHere ==
    LET behind(t) == pos > 0 /\ css[pos].t \in t
    IN  IF behind({"=", "url("}) THEN "none"
        ELSE IF behind({"(", ":", "comma"}) /\ Here.white = "indented" THEN "blank"
        ELSE Here.white
OnNewline == WhiteHere \in Newlines

\* The sheet by its tokens, and by the characters with a meaning, wherever they stand.
Tokens     == [n \in 1 .. Len(css) |-> css[n].t]
Characters == [n \in 1 .. Len(css) |-> IF css[n].t \in {"#var", "@var"} THEN "open"
                                        ELSE IF css[n].holds # Plain THEN css[n].holds
                                        ELSE css[n].t]

\* Whether behind the n-th of s a { comes before ; and } and the ) of a ( from outside.
BlockFollows(s, n) ==
    \E e \in n + 1 .. Len(css) :
        /\ s[e] = "open"
        /\ \A m \in n + 1 .. e - 1 :
               /\ s[m] \notin {"open", "semicolon", "close"}
               /\ s[m] = ")" =>
                      LET upTo(t) == Cardinality({k \in n + 1 .. m : s[k] \in t})
                      IN  upTo({")"}) <= upTo({"(", "url("})

\* Mutant: the first ) ends the search, that of a ( on the way, too.
FoundBeforeParen ==
    \E e \in At1 + 1 .. Len(css) :
        /\ Characters[e] = "open"
        /\ \A m \in At1 + 1 .. e - 1 : Characters[m] \notin {"open", "semicolon", "close", ")"}

\* foundNestedPseudoClass goes through the characters.
FoundNestedPseudoClass == BlockFollows(Characters, At1)

Read(n) ==
    /\ pos' = pos + n
    /\ afterOpening' = (Here.t = "open")
    /\ UNCHANGED <<css, finished>>

Indentation == UNCHANGED <<indentLevel, base>>

-----------------------------------------------------------------------------
\* /* .. */: on a line of its own after a newline or outside of all rules.
CssComment ==
    /\ Reading("/**/")
    /\ LET header == indentLevel = 0
           o == IF OnNewline \/ header THEN NewLine(output, base) ELSE output
           p == NewLine(Append(o, Token(At1)), base)
       IN  output' = IF header THEN NewLineKept(p, base) ELSE p
    /\ Read(1) /\ Indentation /\ UNCHANGED cssModes

\* // ..: behind what is on its line.
CssLineComment ==
    /\ Reading("//")
    /\ LET o == IF ~OnNewline /\ ~afterOpening THEN Trim(output) ELSE output
       IN  output' = NewLine(Append(SingleSpace(o), Token(At1)), base)
    /\ Read(1) /\ Indentation /\ UNCHANGED cssModes

\* An at-rule.  Up to a blank or a colon the name is pushed and a blank after it, and it
\* is looked up in the tables without its @ and not found.  Else only the @ is pushed, and
\* what is looked up is the name with the character that ends it: found before a newline.
CssAtRuleRead ==
    /\ pos < Len(css) /\ Here.t \in CssAtRule
    /\ LET o == Append(PreserveSingleSpace(output, WhiteHere), Token(At1))
       IN  output' = IF Here.t \in {"@plain_", "@plain:"} THEN SingleSpace(o) ELSE o
    /\ nestedLevel' = IF Here.t \in {"@page", "@media"} THEN nestedLevel + 1 ELSE nestedLevel
    /\ enteringConditionalGroup' = (enteringConditionalGroup \/ Here.t = "@media")
    /\ Read(1) /\ Indentation
    /\ UNCHANGED <<parenLevel, insideRule, insidePropertyValue>>

\* { right before }: both at once.
CssEmptyBlock ==
    /\ Reading("open") /\ TokenAt(pos + 2) = "close"
    /\ LET o == NewLine(SingleSpace(output) \o <<Token(At1), Token(At1 + 1)>>, base)
       IN  output' = IF indentLevel = 0 THEN NewLineKept(o, base) ELSE o
    /\ Read(2) /\ Indentation /\ UNCHANGED cssModes

\* {: whether declarations or only rule sets may follow depends on the groups around.
CssOpen ==
    /\ Reading("open") /\ TokenAt(pos + 2) # "close"
    /\ indentLevel' = indentLevel + 1
    /\ base' = base + 1
    /\ output' = NewLine(Append(SingleSpace(output), Token(At1)), base')
    /\ enteringConditionalGroup' = FALSE
    /\ insideRule' = IF enteringConditionalGroup THEN indentLevel' > nestedLevel
                     ELSE indentLevel' >= nestedLevel
    /\ Read(1)
    /\ UNCHANGED <<nestedLevel, parenLevel, insidePropertyValue>>

\* Mutant: the string is cut although the level has come back from below zero.
OutdentByLevel == /\ indentLevel' = indentLevel - 1
                  /\ base' = IF indentLevel' < 0 THEN 0 ELSE indentLevel'

\* outdent: the level may fall below zero, the string cannot get shorter than nothing.
Outdent == /\ indentLevel' = indentLevel - 1
           /\ base' = IF base = 0 THEN 0 ELSE base - 1

CssClose ==
    /\ Reading("close")
    /\ Outdent
    /\ LET o == NewLine(Append(NewLine(output, base'), Token(At1)), base')
       IN  output' = IF indentLevel' = 0 THEN NewLineKept(o, base') ELSE o
    /\ insideRule' = FALSE /\ insidePropertyValue' = FALSE
    /\ nestedLevel' = IF nestedLevel = 0 THEN 0 ELSE nestedLevel - 1
    /\ Read(1)
    /\ UNCHANGED <<parenLevel, enteringConditionalGroup>>

\* Directly behind a &, and directly before what follows (lookBack looks at one character).
BehindParent == /\ pos > 0 /\ css[pos].t = "&" /\ Here.white = "none"
                /\ pos + 2 <= Len(css) => css[pos + 2].white = "none"

DelimitsProperty == /\ insideRule \/ enteringConditionalGroup
                    /\ ~(BehindParent \/ FoundNestedPseudoClass)

\* : of a declaration or of a condition.
CssPropertyColon ==
    /\ Reading(":") /\ DelimitsProperty
    /\ insidePropertyValue' = TRUE
    /\ output' = SingleSpace(Append(output, Token(At1)))
    /\ Read(1) /\ Indentation
    /\ UNCHANGED <<nestedLevel, parenLevel, insideRule, enteringConditionalGroup>>

\* : of a pseudo-class, :: of a pseudo-element; white space between the two is dropped.
CssPseudoColon ==
    /\ Reading(":") /\ ~DelimitsProperty
    /\ LET two == TokenAt(pos + 2) = ":"
       IN  /\ output' = output \o (IF two THEN <<Token(At1), Token(At1 + 1)>> ELSE <<Token(At1)>>)
           /\ Read(IF two THEN 2 ELSE 1)
    /\ Indentation /\ UNCHANGED cssModes

CssSemicolon ==
    /\ Reading("semicolon")
    /\ insidePropertyValue' = FALSE
    /\ output' = NewLine(Append(output, Token(At1)), base)
    /\ Read(1) /\ Indentation
    /\ UNCHANGED <<nestedLevel, parenLevel, insideRule, enteringConditionalGroup>>

\* The ( behind url and what is in it, or that ( alone if a quote or a ) follows: it is
\* not counted, though the ) that follows is.
CssUrl ==
    /\ pos < Len(css) /\ Here.t \in {"url()", "url("}
    /\ output' = Append(PreserveSingleSpace(output, WhiteHere), Token(At1))
    /\ Read(1) /\ Indentation /\ UNCHANGED cssModes

Paren(level) ==
    /\ parenLevel' = level
    /\ Read(1) /\ Indentation
    /\ UNCHANGED <<nestedLevel, insideRule, insidePropertyValue, enteringConditionalGroup>>

CssOpenParen ==
    /\ Reading("(")
    /\ output' = Append(PreserveSingleSpace(output, WhiteHere), Token(At1))
    /\ Paren(parenLevel + 1)

CssCloseParen ==
    /\ Reading(")")
    /\ output' = Append(output, Token(At1))
    /\ Paren(parenLevel - 1)

\* A comma breaks the line of a selector, outside of parentheses.
CssComma ==
    /\ Reading("comma")
    /\ LET o == Append(output, Token(At1))
       IN  output' = IF ~insidePropertyValue /\ parenLevel < 1 THEN NewLine(o, base)
                     ELSE SingleSpace(o)
    /\ Read(1) /\ Indentation /\ UNCHANGED cssModes

\* ] and =, before which white space is dropped.
CssTight ==
    /\ Reading("]") \/ Reading("=")
    /\ output' = Append(output, Token(At1))
    /\ Read(1) /\ Indentation /\ UNCHANGED cssModes

\* Anything else, with one blank for the white space before it.
CssWord ==
    /\ pos < Len(css) /\ Here.t \in CssWords \cup {"["}
    /\ output' = Append(PreserveSingleSpace(output, WhiteHere), Token(At1))
    /\ Read(1) /\ Indentation /\ UNCHANGED cssModes

\* The end of the sheet: the output, with the indentations of what is still open put
\* before it, and without the white space at its end.
CssEnd ==
    /\ pos = Len(css) /\ ~finished
    /\ finished' = TRUE
    /\ output' = (IF base = 0 THEN <<>> ELSE <<Indented(base)>>) \o Trim(output)
    /\ UNCHANGED <<css, pos, indentLevel, base, cssModes, afterOpening>>

CssNext == \/ CssComment \/ CssLineComment \/ CssAtRuleRead
           \/ CssEmptyBlock \/ CssOpen \/ CssClose
           \/ CssPropertyColon \/ CssPseudoColon \/ CssSemicolon
           \/ CssUrl \/ CssOpenParen \/ CssCloseParen \/ CssComma
           \/ CssTight \/ CssWord \/ CssEnd

CssSpec == CssInit /\ [][CssNext]_cssVars

-----------------------------------------------------------------------------
\* The types: a token pushed is one of the sheet's.
CssTypeOK ==
    /\ pos \in 0 .. Len(css)
    /\ \A o \in 1 .. Len(output) : /\ output[o].k \in {"token", "blank", "newline", "indent"}
                                  /\ output[o].k = "token" => output[o].n \in 1 .. Len(css)
    /\ indentLevel \in Int /\ parenLevel \in Int
    /\ base \in Nat /\ nestedLevel \in Nat
    /\ {insideRule, insidePropertyValue, enteringConditionalGroup, afterOpening, finished} \subseteq BOOLEAN

\* The places in the output of the tokens pushed.
Pushed == {o \in 1 .. Len(output) : output[o].k = "token"}

\* The sheet is printed as far as it is read, each token once and in its order, whatever
\* white space was trimmed in between (beautify-css.js 257-261).
CssPrinted ==
    /\ {output[o].n : o \in Pushed} = 1 .. pos
    /\ \A o, p \in Pushed : o < p => output[o].n < output[p].n

\* The blocks open after n tokens, by the braces alone.
Depth(n) == Cardinality({m \in 1 .. n : css[m].t = "open"})
            - Cardinality({m \in 1 .. n : css[m].t = "close"})

\* By how much braces have closed what none has opened.
Excess(n) == Max({-Depth(m) : m \in 0 .. n})

\* The indentation follows the braces, and where a brace closes what none has opened the
\* level falls below zero but the string cannot: from then on everything stands that much
\* further to the right, and the level tells outside from inside wrongly
\* (beautify-css.js 208-216).
IndentMatchesBraces ==
    /\ indentLevel = Depth(pos)
    /\ base = Depth(pos) + Excess(pos)
    /\ \A o \in 1 .. Len(output) : output[o].k = "indent" =>
           \E n \in 1 .. pos : output[o].n = Depth(n) + Excess(n)

Type(o) == css[output[o].n].t

\* Two tokens next to each other in the output: whether white space parts them there, and
\* whether it does in the source.
Neighbours(o, p) == o < p /\ \A q \in Pushed : q <= o \/ q >= p
PartedInSource(p) == css[output[p].n].white # "none"

\* The colon n is one of a selector: what follows opens a block.  A text before the { that
\* holds a ; or a ) hides it from who goes through the characters.
OfSelector(n) == BlockFollows(Tokens, n)
Hidden(n)     == \E m \in n + 1 .. Len(css) : /\ css[m].holds \in {"semicolon", ")"}
                                             /\ \A e \in n + 1 .. m - 1 : css[e].t # "open"

\* Where white space is dropped, and where it is put in.
DroppedBetween(o, p) ==
    \/ Type(p) \in {":", "semicolon", "comma", ")", "]", "=", "/**/"}
    \/ Type(o) \in {"=", "url("}
    \/ Type(o) = "open" /\ Type(p) = "close"
PutBetween(o, p) ==
    \/ Type(o) \in {"open", "close", "semicolon", "comma", "/**/", "//", "@plain_", "@plain:"}
    \/ Type(p) \in {"open", "close", "/**/", "//"}
    \/ Type(o) = ":" /\ (OfSelector(output[o].n) => Hidden(output[o].n))

\* Which white space the formatter touches: a comment to the end of its line ends there;
\* what stood apart still does, except before : ; , ) ] = and a comment, behind = and url(
\* and in an empty block; what stood together still does, except where a block, a
\* declaration, a comment or an at-rule begins or ends, and behind the colon of a
\* declaration: none is put in behind one of a selector unless a text on the way hides what
\* it is.  That is not to say that a sheet means the same: before a selector's colon
\* white space is dropped though it may part two selectors (beautify-css.js 181-199, 219-444).
WhiteSpaceOfSheets ==
    /\ \A o \in Pushed : Type(o) = "//" =>
           IF o < Len(output) THEN output[o + 1] = Newline ELSE finished
    /\ \A o, p \in Pushed : Neighbours(o, p) =>
           /\ PartedInSource(p) /\ p = o + 1 => DroppedBetween(o, p)
           /\ ~PartedInSource(p) /\ p > o + 1 => PutBetween(o, p)
=============================================================================
