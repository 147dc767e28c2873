---------------------------- MODULE HtmlBeautify ----------------------------
(***************************************************************************)
(* The formatter of pages (assets/html_beautify/beautify-html.js 87-985)   *)
(* with the options the site's editor gives it (templates/editor.html      *)
(* 239-243); no handlebars, lines shorter than the wrap.                   *)
(*                                                                         *)
(* A page is a sequence of pieces, each with the newlines before it.  The  *)
(* parser takes the text up to a tag and the tag in turn, records in a     *)
(* table at what indentation elements were opened, and prints.             *)
(***************************************************************************)
EXTENDS Integers, Sequences, FiniteSets, TLC, SequencesExt

CONSTANTS HtmlSource,           \* the pages
          Name,                 \* names of elements that are indented; "script", "style" too
          ExtraLiner,           \* those that a newline goes before
          MaxPreserveNewlines

\* Start and end tags, among them an <a> whose first child is a tag formatted on a line of
\* its own (an <a> of anything else is unformatted); the start of a script or a style
\* sheet, and its code; a void element of a block (hr), one of a line (img) or an
\* unformatted element as a whole, up to its end; a comment; a word of text.
HtmlTags == {"start", "end", "script", "void", "inline", "comment"}
HtmlPiece == [t : HtmlTags \cup {"code", "text"}, name : Name \cup {"-"}, white : Int]

\* White space before a piece: none, some without newlines (0), or so many newlines.
NoWhite == -1

ASSUME HtmlAssumption ==
    /\ MaxPreserveNewlines \in Nat /\ ExtraLiner \subseteq Name /\ "parent" \notin Name
    /\ HtmlSource \subseteq Seq(HtmlPiece)
    /\ \A h \in HtmlSource : \A n \in 1 .. Len(h) :
           /\ h[n].white >= NoWhite
           /\ h[n].t \in {"start", "end", "script"} <=> h[n].name \in Name
           /\ h[n].t = "start" /\ h[n].name = "a" =>
                  n < Len(h) /\ h[n + 1].t \notin {"inline", "text", "comment"}
           /\ h[n].t = "code" => n > 1 /\ h[n - 1].t = "script"
           /\ h[n].t = "script" /\ n < Len(h) => h[n + 1].t \in {"code", "end"}
           /\ h[n].t = "code" /\ n < Len(h) => h[n + 1].t = "end"
           /\ h[n].t = "end" /\ n > 1 => /\ h[n - 1].t = "script" => h[n].name = h[n - 1].name
                                         /\ h[n - 1].t = "code" => h[n].name = h[n - 2].name

VARIABLES
    html, read,         \* the page, and how many of its pieces are read
    eaten,              \* whether the white space before the next piece is, too
    current_mode, last_token,
    last_text,          \* whether the content read last was not empty
    newlines, indent_level,
    tags,               \* tag and its count -> indentation and parent
    tagcount,           \* tag -> count
    parent,             \* tags.parent
    printed,            \* output
    misled              \* history: whether the table missed an end tag because of an element
                        \* of that name left open

htmlTable == <<tags, tagcount, parent, misled>>
htmlVars  == <<html, read, eaten, current_mode, last_token, last_text, newlines,
               indent_level, htmlTable, printed>>

Root == <<"parent", 1>>

MinOf(S) == CHOOSE n \in S : \A m \in S : n <= m
MaxOf(S) == CHOOSE n \in S : \A m \in S : m <= n

HtmlBegin ==
    /\ read = 0 /\ eaten = FALSE
    /\ current_mode = "CONTENT" /\ last_token = "" /\ last_text = FALSE
    /\ newlines = 0 /\ indent_level = 0
    /\ tags = [k \in {} |-> 0] /\ tagcount = [n \in Name |-> 0] /\ parent = Root
    /\ printed = <<>>
    /\ misled = FALSE

HtmlInit == html \in HtmlSource /\ HtmlBegin

-----------------------------------------------------------------------------
(* Printing: what the output o becomes.                                    *)

HtmlBlank     == [k |-> "blank", n |-> 1]
HtmlNewline   == [k |-> "newline", n |-> 1]
Levels(l)     == [k |-> "indent", n |-> l]
HtmlIndent(l) == IF l = 0 THEN <<>> ELSE <<Levels(l)>>
PieceAt(n)    == [k |-> "piece", n |-> n]

EndsIn(o, k) == o # <<>> /\ o[Len(o)].k = k

\* Mutant: what stands last is taken for white space.
RTrimAnything(o) == IF o = <<>> THEN o ELSE Front(o)

\* rtrim and ltrim of a text; a text has no two blanks side by side, and of an indentation,
\* a text for each level, rtrim empties the last.
RTrim(o) == IF EndsIn(o, "blank") THEN Front(o)
            ELSE IF EndsIn(o, "indent") THEN Append(Front(o), Levels(Last(o).n - 1))
            ELSE o
LTrim(o) == IF o # <<>> /\ Head(o).k = "blank" THEN Tail(o) ELSE o

\* print_newline(force, o)
PrintNewline(o, force) ==
    IF o = <<>> \/ (~force /\ EndsIn(o, "newline")) THEN o
    ELSE Append(IF EndsIn(o, "newline") THEN o ELSE RTrim(o), HtmlNewline)

\* The newlines that came with a token.
PrintNewlines(o, n) ==
    IF n = 0 \/ o = <<>> THEN o
    ELSE PrintNewline(o, FALSE) \o [m \in 1 .. n - 1 |-> HtmlNewline]

\* Nothing but white space at the beginning is not printed, and its newlines stay.
Skipped(o, text) == o = <<>> /\ \A n \in DOMAIN text : text[n].k = "blank"

\* print_token_raw
PrintRaw(o, text, n) == PrintNewlines(o \o (IF n > 0 THEN RTrim(text) ELSE text), n)

\* print_token
PrintToken(o, text, n, level) ==
    IF Skipped(o, text) THEN o
    ELSE IF text # <<>> /\ EndsIn(o, "newline")
    THEN PrintRaw(o \o HtmlIndent(level), LTrim(text), n)
    ELSE PrintRaw(o, text, n)

-----------------------------------------------------------------------------
(* The table of tags.                                                      *)

\* The start tags open behind piece n, by the page alone, an end tag closing the innermost
\* of its name and what is open in that; open is what was open before it.
OpenAfter(open, n) ==
    LET same == {i \in DOMAIN open : html[open[i]].name = html[n].name}
    IN  IF html[n].t \in {"start", "script"} THEN Append(open, n)
        ELSE IF html[n].t = "end" /\ same # {} THEN SubSeq(open, 1, MaxOf(same) - 1)
        ELSE open
OpenBehind[n \in 0 .. Len(html)] == IF n = 0 THEN <<>> ELSE OpenAfter(OpenBehind[n - 1], n)

\* Whether an element of that name is open around the next piece.
Encloses(t) == \E i \in DOMAIN OpenBehind[read] : html[OpenBehind[read][i]].name = t

TagKey(t) == <<t, tagcount[t]>>

\* The open tags the table knows of, those met from tags.parent on from parent to parent:
\* they are in every set that has tags.parent and the parents of its members.
LeadsUp(up) == \A k \in {parent} \cup {tags[j].parent : j \in up} : k \in DOMAIN tags => k \in up
Ancestors == {k \in DOMAIN tags : \A up \in SUBSET DOMAIN tags : LeadsUp(up) => k \in up}

\* record_tag
RecordTag(t) ==
    LET key == <<t, tagcount[t] + 1>> IN
    /\ tagcount' = [tagcount EXCEPT ![t] = @ + 1]
    /\ tags' = [k \in DOMAIN tags \cup {key} |->
                    IF k = key THEN [level |-> indent_level, parent |-> parent] ELSE tags[k]]
    /\ parent' = key
    /\ UNCHANGED misled

\* Mutant: the element closed stays the parent.
RetrieveTagKeepingParent(t) ==
    /\ IF tagcount[t] = 0 THEN UNCHANGED <<tags, tagcount, parent, indent_level>>
       ELSE /\ indent_level' = IF TagKey(t) \in Ancestors THEN tags[TagKey(t)].level ELSE indent_level
            /\ parent' = parent
            /\ tags' = [k \in DOMAIN tags \ {TagKey(t)} |-> tags[k]]
            /\ tagcount' = [tagcount EXCEPT ![t] = @ - 1]
    /\ misled' = (misled \/ (Encloses(t) /\ TagKey(t) \notin Ancestors))

\* retrieve_tag: the last of that name the table holds, if it is an ancestor, gives its
\* indentation back and its parent becomes the parent; it goes from the table in any case.
\* Elements left open in between stay there.
RetrieveTag(t) ==
    /\ IF tagcount[t] = 0 THEN UNCHANGED <<tags, tagcount, parent, indent_level>>
       ELSE /\ IF TagKey(t) \in Ancestors
               THEN /\ indent_level' = tags[TagKey(t)].level
                    /\ parent' = tags[TagKey(t)].parent
               ELSE UNCHANGED <<indent_level, parent>>
            /\ tags' = [k \in DOMAIN tags \ {TagKey(t)} |-> tags[k]]
            /\ tagcount' = [tagcount EXCEPT ![t] = @ - 1]
    /\ misled' = (misled \/ (Encloses(t) /\ TagKey(t) \notin Ancestors))

-----------------------------------------------------------------------------
(* Reading.                                                                *)

NextPiece == html[read + 1]
WhiteBefore(n) == IF n = read + 1 /\ eaten THEN NoWhite ELSE html[n].white
Counted(w) == IF w > MaxPreserveNewlines THEN MaxPreserveNewlines + 1 ELSE w

InCode == last_token = "SCRIPT_START"

\* The text from the next piece to piece n: a blank for white space, and the words.
ContentTo[n \in read .. Len(html)] ==
    IF n = read THEN <<>>
    ELSE ContentTo[n - 1] \o (IF WhiteBefore(n) = NoWhite THEN <<>> ELSE <<HtmlBlank>>)
                          \o (IF html[n].t = "text" THEN <<PieceAt(n)>> ELSE <<>>)

\* get_content: the text before the next tag.  The newlines kept are those of the white
\* space read last, wherever in the text that was.
GetContent ==
    /\ current_mode = "CONTENT" /\ ~InCode
    /\ LET tag == {n \in read + 1 .. Len(html) : html[n].t # "text"}
           end == IF tag = {} THEN Len(html) ELSE MinOf(tag) - 1
           upTo == IF tag = {} THEN end ELSE end + 1
           whites == {n \in read + 1 .. upTo : WhiteBefore(n) # NoWhite}
           text == ContentTo[upTo]
           n == IF whites = {} THEN newlines
                ELSE Counted(html[MaxOf(whites)].white)
       IN  /\ text # <<>> \/ tag # {}
           /\ read' = end
           /\ eaten' = TRUE
           /\ last_text' = (text # <<>>)
           /\ printed' = PrintToken(printed, text, n, indent_level)
           /\ newlines' = IF Skipped(printed, text) THEN n ELSE 0
    /\ current_mode' = "TAG" /\ last_token' = "CONTENT"
    /\ UNCHANGED <<html, indent_level, htmlTable>>

\* traverse_whitespace after a tag: its newlines, and whether a blank goes to the tag.
BlankAfter == read + 2 <= Len(html) /\ html[read + 2].white # NoWhite
NewlinesAfter == IF BlankAfter THEN Counted(html[read + 2].white) ELSE newlines
TagText(blank) == <<PieceAt(read + 1)>> \o (IF blank THEN <<HtmlBlank>> ELSE <<>>)

AtTag(t) == current_mode = "TAG" /\ read < Len(html) /\ NextPiece.t = t

Took(tokenType) ==
    /\ read' = read + 1
    /\ last_token' = tokenType
    /\ last_text' = TRUE
    /\ UNCHANGED html

\* The line before a head, a body and the end of a page.
ExtraLine(o, liner) ==
    IF ~liner THEN o
    ELSE LET p == PrintNewline(o, FALSE) IN
         IF Len(p) > 0 /\ (Len(p) = 1 \/ p[Len(p) - 1].k # "newline") THEN PrintNewline(p, TRUE) ELSE p

\* get_tag and TK_TAG_START: recorded, printed on a line of its own; what is in it goes
\* one indentation further to the right.
StartTag ==
    /\ AtTag("start")
    /\ RecordTag(NextPiece.name)
    /\ LET o == PrintNewline(ExtraLine(printed, NextPiece.name \in ExtraLiner), FALSE)
       IN  printed' = PrintToken(o, TagText(BlankAfter), NewlinesAfter, indent_level)
    /\ indent_level' = IF NextPiece.name = "html" THEN indent_level ELSE indent_level + 1
    /\ newlines' = 0
    /\ eaten' = TRUE
    /\ current_mode' = "CONTENT"
    /\ Took("START")

\* The name in what was printed last, if that is a start tag or an element as a whole.
LastIs(o, t) == /\ o # <<>>
                /\ LET p == IF EndsIn(o, "blank") THEN Front(o) ELSE o IN
                   /\ EndsIn(p, "piece") /\ html[p[Len(p)].n].t \in t
LastName(o) == html[(IF EndsIn(o, "blank") THEN o[Len(o) - 1] ELSE o[Len(o)]).n].name

\* get_tag and TK_TAG_END: back to where the start tag was; on a line of its own unless
\* its element is empty, or ends in text or in something unformatted.
EndTag ==
    /\ AtTag("end")
    /\ RetrieveTag(NextPiece.name)
    /\ LET o == ExtraLine(printed, NextPiece.name = "html")
           alone == /\ last_token = "CONTENT" /\ ~last_text
                    /\ ~(LastIs(o, {"start", "script"}) /\ LastName(o) \in {NextPiece.name, "a"})
                    /\ ~LastIs(o, {"inline"})
       IN  printed' = PrintToken(IF alone THEN PrintNewline(o, FALSE) ELSE o,
                                 TagText(BlankAfter), NewlinesAfter, indent_level')
    /\ newlines' = 0
    /\ eaten' = TRUE
    /\ current_mode' = "CONTENT"
    /\ Took("END")

\* TK_TAG_SCRIPT and TK_TAG_STYLE: the content is not indented for them.
ScriptTag ==
    /\ AtTag("script")
    /\ RecordTag(NextPiece.name)
    /\ UNCHANGED indent_level
    /\ printed' = PrintToken(PrintNewline(printed, FALSE), TagText(FALSE), newlines, indent_level)
    /\ newlines' = 0
    /\ eaten' = FALSE
    /\ current_mode' = "CONTENT"
    /\ Took("SCRIPT_START")

\* TK_SCRIPT and TK_STYLE: the code between the tags, formatted by its own formatter, which
\* makes nothing of white space in a script, and in a style sheet an indentation, then
\* emptied by rtrim.
Code ==
    /\ InCode /\ read < Len(html)
    /\ IF NextPiece.t = "code"
       THEN /\ printed' = PrintNewline(PrintRaw(PrintNewline(printed, FALSE),
                                                <<PieceAt(read + 1)>>, newlines), TRUE)
            /\ newlines' = 0
            /\ read' = read + 1
       ELSE /\ printed' = IF NextPiece.white = NoWhite THEN printed
                          ELSE PrintNewline(printed, FALSE)
                               \o (IF html[read].name = "style" THEN <<Levels(0), HtmlNewline>> ELSE <<>>)
            /\ UNCHANGED <<newlines, read>>
    /\ current_mode' = "TAG" /\ last_token' = "SCRIPT"
    /\ last_text' = TRUE
    /\ eaten' = TRUE
    /\ UNCHANGED <<html, indent_level, htmlTable>>

\* Mutant: a newline goes before every single tag.
SingleTagBroken ==
    /\ AtTag("void") \/ AtTag("inline")
    /\ UNCHANGED indent_level
    /\ printed' = PrintToken(PrintNewline(printed, FALSE), TagText(FALSE), newlines, indent_level)
    /\ newlines' = 0
    /\ eaten' = FALSE
    /\ current_mode' = "CONTENT"
    /\ Took("SINGLE")
    /\ UNCHANGED htmlTable

\* TK_TAG_SINGLE: a void element, or one that is not formatted and stays in its line.
SingleTag ==
    /\ AtTag("void") \/ AtTag("inline")
    /\ UNCHANGED indent_level
    /\ printed' = PrintToken(IF NextPiece.t = "inline" THEN printed ELSE PrintNewline(printed, FALSE),
                             TagText(FALSE), newlines, indent_level)
    /\ newlines' = 0
    /\ eaten' = FALSE
    /\ current_mode' = "CONTENT"
    /\ Took("SINGLE")
    /\ UNCHANGED htmlTable

\* get_comment: a single tag, the white space after it read with it and no blank kept.
Comment ==
    /\ AtTag("comment")
    /\ UNCHANGED indent_level
    /\ printed' = PrintToken(PrintNewline(printed, FALSE), TagText(FALSE), NewlinesAfter, indent_level)
    /\ newlines' = 0
    /\ eaten' = TRUE
    /\ current_mode' = "CONTENT"
    /\ Took("SINGLE")
    /\ UNCHANGED htmlTable

HtmlNext == GetContent \/ StartTag \/ EndTag \/ ScriptTag \/ Code \/ SingleTag \/ Comment

HtmlSpec == HtmlInit /\ [][HtmlNext]_htmlVars
-----------------------------------------------------------------------------
HtmlTypeOK ==
    /\ read \in 0 .. Len(html) /\ eaten \in BOOLEAN
    /\ current_mode \in {"CONTENT", "TAG"} /\ last_text \in BOOLEAN /\ misled \in BOOLEAN
    /\ last_token \in {"", "CONTENT", "START", "END", "SCRIPT_START", "SCRIPT", "SINGLE"}
    /\ newlines \in 0 .. MaxPreserveNewlines + 1 /\ indent_level \in Nat
    /\ tagcount \in [Name -> Nat]
    /\ DOMAIN tags \subseteq Name \X Nat
    /\ \A k \in DOMAIN tags : k[2] \in 1 .. tagcount[k[1]] /\ tags[k].level \in Nat
    /\ \A i \in DOMAIN printed : printed[i].k \in {"piece", "blank", "newline", "indent"}

\* The pieces printed, in their places.
Places == {i \in DOMAIN printed : printed[i].k = "piece"}
Piece(i) == html[printed[i].n]

\* The page is printed as far as it is read, each piece once and in its order.
HtmlPrinted ==
    /\ {printed[i].n : i \in Places} = 1 .. read
    /\ \A i, j \in Places : i < j => printed[i].n < printed[j].n

\* How many elements a piece stands in that are indented for, an end tag in those its
\* element stands in.
IndentIn(open) == Cardinality({i \in DOMAIN open : /\ html[open[i]].t = "start"
                                                  /\ html[open[i]].name # "html"})
Nesting(n) == IndentIn(IF html[n].t = "end" THEN OpenBehind[n] ELSE OpenBehind[n - 1])

\* Whatever begins a line is indented by the elements it stands in, start tags and end tags
\* by the same, also when elements are left open or closed without being open.  Only an
\* element left open spoils it for one of the same name around it: the table still holds
\* the inner one when the outer one's end tag comes (beautify-html.js 312-332).
IndentShowsNesting ==
    ~misled =>
        /\ indent_level = IndentIn(OpenBehind[read])
        /\ \A i \in Places :
               Piece(i).t # "code" /\ i > 1 /\ printed[i - 1].k \in {"newline", "indent"} =>
                   Nesting(printed[i].n) = IF printed[i - 1].k = "indent" THEN printed[i - 1].n ELSE 0

\* The words and elements of a line: where white space parts two of them it still does;
\* where none does, some is put in only when a newline came earlier in the same text, or
\* before the page's first element: newlines are printed behind the piece they are found
\* with (beautify-html.js 209-226, 243-281, 761-816).
LinesMeanTheSame ==
    \A i, j \in Places :
        /\ i < j /\ \A k \in i + 1 .. j - 1 : k \notin Places
        /\ Piece(i).t \in {"text", "inline"} /\ Piece(j).t \in {"text", "inline"}
        => IF Piece(j).white # NoWhite THEN j > i + 1
           ELSE j > i + 1 =>
                    \/ printed[i].n = 1 /\ html[1].white > 0
                    \/ /\ Piece(i).t = "text" /\ Piece(j).t = "inline"
                       /\ \E m \in 1 .. printed[i].n :
                              /\ html[m].white > 0
                              /\ \A k \in m .. printed[i].n : html[k].t = "text"
=============================================================================
