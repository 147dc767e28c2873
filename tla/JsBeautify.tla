----------------------------- MODULE JsBeautify -----------------------------
(***************************************************************************)
(* The formatter of scripts (assets/html_beautify/beautify.js 234-1720),   *)
(* with the options the site's editor gives it (templates/editor.html      *)
(* 239-243): braces collapsed, newlines preserved, an operator before the  *)
(* newline, no wrapping.                                                   *)
(*                                                                         *)
(* A script is a sequence of tokens, each with the newlines before it; the *)
(* words of modules, of accessors and of generators are left out.  A token *)
(* is handled by one handler, and a handler calls others in an order that  *)
(* matters, so what they work on is one record and they are functions of   *)
(* it; a step handles a token.                                             *)
(***************************************************************************)
EXTENDS Integers, Sequences, FiniteSets, SequencesExt, FiniteSetsExt

CONSTANTS JsSource,     \* the scripts
          JsMaxPreserve \* opt.max_preserve_newlines

\* Words by what is asked of them: "starter" is a line starter of no other use (break,
\* continue, try, switch), "var" is let and const too, "catch" finally.  "+" is one sign,
\* "star" the *, "*" any other operator with an operand on either side that may stand at a
\* newline, "+=" any that may not; "open" and "close" are braces.
StatementWords == {"var", "return", "starter", "if", "case", "default", "for", "while", "function"}
ReservedWords  == StatementWords \cup {"do", "else", "catch", "new"}
SpecialWords   == {"case", "return", "do", "if", "else"}
Positionable   == {"+", "*", "star", "?", ":"}
Operators      == Positionable \cup {"++", "!", "=>", "+=", "::"}
CommentTokens  == {"/**/", "/*..*/", "//"}

JsToken == ReservedWords \cup Operators \cup CommentTokens
           \cup {"word", "string", "(", "[", ")", "]", "open", "close", "semicolon", "=", "comma", ".", "eof"}

JsTokenType == [t \in JsToken |->
    CASE t \in ReservedWords      -> "RESERVED"
      [] t \in Operators          -> "OPERATOR"
      [] t \in {"/**/", "/*..*/"} -> "BLOCK_COMMENT"
      [] t = "//"                 -> "COMMENT"
      [] t = "word"               -> "WORD"
      [] t = "string"             -> "STRING"
      [] t \in {"(", "["}         -> "START_EXPR"
      [] t \in {")", "]"}         -> "END_EXPR"
      [] t = "open"               -> "START_BLOCK"
      [] t = "close"              -> "END_BLOCK"
      [] t = "semicolon"          -> "SEMICOLON"
      [] t = "="                  -> "EQUALS"
      [] t = "comma"              -> "COMMA"
      [] t = "."                  -> "DOT"
      [] OTHER                    -> "EOF"]

\* The last token is the end of the file, and a comment to the end of its line ends there.
ASSUME JsAssumption ==
    /\ JsMaxPreserve \in Nat \ {0}
    /\ JsSource \subseteq Seq([t : JsToken, nl : Nat])
    /\ \A s \in JsSource :
           /\ s # <<>> /\ \A n \in 1 .. Len(s) : s[n].t = "eof" <=> n = Len(s)
           /\ \A n \in 2 .. Len(s) : s[n - 1].t = "//" => s[n].nl > 0 \/ n = Len(s)

VARIABLES
    js, at,     \* the script, and the token handled last
    fmt         \* what the formatter keeps: flag_store with flags on top and its parent
                \* at the bottom, previous_flags, the output's lines and space_before_token,
                \* last_type, last_last_text and current_token

jsVars == <<js, at, fmt>>

TextOf(n) == js[n].t
TokenType(q) == JsTokenType[q.token]
Wanted(n) == js[n].nl > 0
NextToken(n) == Min({m \in n + 1 .. Len(js) : js[m].t \notin CommentTokens})
CommentsBefore(n) == n > 1 /\ js[n - 1].t \in CommentTokens

-----------------------------------------------------------------------------
(* The output.                                                             *)

EmptyLine == [indent |-> -1, items |-> <<>>]
Blank == 0                              \* a line is made of tokens, by place, and blanks

Flags(q) == Last(q.flags)
JustAddedNewline(q) == Last(q.lines).items = <<>>
JustAddedBlankline(q) == /\ JustAddedNewline(q)
                         /\ Len(q.lines) > 1 => q.lines[Len(q.lines) - 1].items = <<>>

SetFlag(q, f) == [q EXCEPT !.flags[Len(q.flags)] = f]
Space(q) == [q EXCEPT !.space = TRUE]
NoSpace(q) == [q EXCEPT !.space = FALSE]

\* add_new_line, at the beginning of print_newline's result; no newline on start of file.
AddNewLine(q, force) ==
    IF JustAddedNewline(q) /\ (Len(q.lines) = 1 \/ ~force) THEN q
    ELSE SetFlag([q EXCEPT !.lines = Append(@, EmptyLine)], [Flags(q) EXCEPT !.multiline_frame = TRUE])

\* remove_redundant_indentation, of the lines after the one the frame began in.
RemoveRedundantIndentation(q, frame) ==
    IF frame.multiline_frame \/ frame.mode \in {"ForInitializer", "Conditional"} THEN q
    ELSE LET first == Min({frame.start_line_index, Len(q.lines)})
             less(line) == IF line.indent > 0 THEN [line EXCEPT !.indent = @ - 1] ELSE line
         IN  [q EXCEPT !.lines = SubSeq(@, 1, first)
                                 \o [i \in 1 .. Len(@) - first |-> less(@[first + i])]]

\* print_token: indents a line it begins, except the first.
JsPrintToken(q, n) ==
    LET level == IF Len(q.lines) > 1 THEN Flags(q).indentation_level ELSE 0
        begun == IF ~JustAddedNewline(q) THEN q
                 ELSE LET p == [q EXCEPT !.lines[Len(q.lines)].indent = level]
                      IN  IF Len(q.lines) = 1 THEN p
                          ELSE SetFlag(p, [Flags(p) EXCEPT !.line_indent_level = level])
        blank == IF q.space /\ ~JustAddedNewline(q) THEN <<Blank>> ELSE <<>>
    IN  [begun EXCEPT !.lines[Len(q.lines)].items = @ \o blank \o <<n>>, !.space = FALSE]

\* trim(true): the blank at the end, and the empty lines.
JsTrim(q) ==
    LET trimmed(line) == IF line.items # <<>> /\ Last(line.items) = Blank
                         THEN [line EXCEPT !.items = Front(@)] ELSE line
        kept == {i \in DOMAIN q.lines : i = 1 \/ trimmed(q.lines[i]).items # <<>>}
    IN  LET n == Max(kept) IN [q EXCEPT !.lines = Append(SubSeq(@, 1, n - 1), trimmed(@[n]))]

-----------------------------------------------------------------------------
(* The frames.                                                             *)

NewFlags == [mode |-> "BlockStatement", last_text |-> "none", last_word |-> "none",
             declaration_statement |-> FALSE, declaration_assignment |-> FALSE,
             multiline_frame |-> FALSE, if_block |-> FALSE, else_block |-> FALSE,
             do_block |-> FALSE, do_while |-> FALSE, in_case_statement |-> FALSE,
             in_case |-> FALSE, case_body |-> FALSE, indentation_level |-> 0,
             line_indent_level |-> 0, start_line_index |-> 1, ternary_depth |-> 0]

Parent(q) == q.flags[Len(q.flags) - 1]

\* set_mode with create_flags: a frame begun within a line takes the line's indentation.
SetMode(q, mode) ==
    LET base == Flags(q)
        level == IF ~JustAddedNewline(q) /\ base.line_indent_level > base.indentation_level
                 THEN base.line_indent_level ELSE base.indentation_level
    IN  [q EXCEPT !.previous = base,
                  !.flags = Append(@, [NewFlags EXCEPT
                       !.mode = mode, !.last_text = base.last_text, !.last_word = base.last_word,
                       !.indentation_level = level, !.line_indent_level = base.line_indent_level,
                       !.start_line_index = Len(q.lines)])]

\* restore_mode: the root stays.
RestoreMode(q) ==
    IF Len(q.flags) = 2 THEN q
    ELSE LET p == [q EXCEPT !.flags = Front(@), !.previous = Flags(q)]
         IN  IF Flags(q).mode = "Statement" THEN RemoveRedundantIndentation(p, Flags(q)) ELSE p

\* The statements on top end, or only those that are neither of an if nor of a do.
CloseTop(q, simple) ==
    IF /\ Flags(q).mode = "Statement"
       /\ simple => ~Flags(q).if_block /\ ~Flags(q).do_block
    THEN RestoreMode(q) ELSE q
CloseWhile(q, simple) ==
    LET close[n \in 0 .. Len(q.flags)] == IF n = 0 THEN q ELSE CloseTop(close[n - 1], simple)
    IN  close[Len(q.flags)]
CloseStatements(q) == CloseWhile(q, FALSE)
CloseSimple(q)     == CloseWhile(q, TRUE)

\* print_newline(force), and print_newline(false, true).
JsPrintNewline(q, force) ==
    AddNewLine(IF Flags(q).last_text \notin {"semicolon", "comma", "="} /\ q.last_type # "OPERATOR"
               THEN CloseSimple(q) ELSE q, force)
NewlineInStatement(q) == AddNewLine(q, FALSE)

\* allow_wrap_or_preserved_newline: operators are before the newline, so it is preserved
\* at any token.
AllowNewline(q, n, force) ==
    IF Wanted(n) \/ force THEN NewlineInStatement(q) ELSE q

Indent(q) == SetFlag(q, [Flags(q) EXCEPT !.indentation_level = @ + 1])
Deindent(q) == IF Flags(q).indentation_level > Parent(q).indentation_level
               THEN SetFlag(q, [Flags(q) EXCEPT !.indentation_level = @ - 1]) ELSE q

IsExpression(mode) == mode \in {"Expression", "ForInitializer", "Conditional"}
After(q, words) == q.last_type = "RESERVED" /\ Flags(q).last_text \in words

AfterPropertyColon(q) == Flags(q).last_text = ":" /\ Flags(q).ternary_depth = 0

StartOfObjectProperty(q) ==
    /\ Parent(q).mode = "ObjectLiteral" /\ Flags(q).mode = "Statement"
    /\ AfterPropertyColon(q)

\* A newline in the source before the token, unless it begins a property's value.
PreserveNewline(q, n) ==
    IF StartOfObjectProperty(q) THEN q ELSE AllowNewline(q, n, FALSE)

\* start_of_statement: whether it is one, and what is done then.
StartsStatement(q, n) ==
    \/ After(q, {"var"}) /\ TokenType(q) = "WORD"
    \/ After(q, {"do"})
    \/ After(q, {"return"}) /\ ~Wanted(n)
    \/ After(q, {"else"}) /\ q.token # "if"
    \/ q.last_type = "END_EXPR" /\ q.previous.mode \in {"ForInitializer", "Conditional"}
    \/ /\ q.last_type = "WORD" /\ Flags(q).mode = "BlockStatement" /\ ~Flags(q).in_case
       /\ q.token # "++" /\ q.last_last_text # "function"
       /\ TokenType(q) \notin {"WORD", "RESERVED"}
    \/ Flags(q).mode = "ObjectLiteral" /\ AfterPropertyColon(q)

StartOfStatement(q, n) ==
    IF ~StartsStatement(q, n) THEN q
    ELSE LET p == Indent(SetMode(q, "Statement"))
             r == IF After(q, {"var"}) /\ TokenType(q) = "WORD"
                  THEN SetFlag(p, [Flags(p) EXCEPT !.declaration_statement = TRUE]) ELSE p
         IN  IF StartOfObjectProperty(r) THEN r
             ELSE AllowNewline(r, n, q.token \in {"do", "for", "if", "while"})

-----------------------------------------------------------------------------
(* The handlers: what they make of q at token n.                           *)

\* handle_start_expr
HandleStartExpr(q, n) ==
    LET s == StartOfStatement(q, n)
        text == Flags(s).last_text
        index == q.token = "[" /\ (q.last_type = "WORD" \/ text = ")")
        mode == IF index THEN "Expression"
                ELSE IF q.token = "[" THEN "ArrayLiteral"
                ELSE IF After(s, {"for"}) THEN "ForInitializer"
                ELSE IF After(s, {"if", "while"}) THEN "Conditional"
                ELSE "Expression"
        inArray == /\ q.token = "[" /\ Flags(s).mode = "ArrayLiteral"
                   /\ text = "[" \/ (text = "comma" /\ q.last_last_text \in {"]", "close"})
        a == IF inArray THEN JsPrintNewline(s, FALSE) ELSE s
        before == Flags(a).last_text
        b == IF before = "semicolon" \/ q.last_type = "START_BLOCK" THEN JsPrintNewline(a, FALSE)
             ELSE IF q.last_type \in {"END_EXPR", "START_EXPR", "END_BLOCK"} \/ before = "."
             THEN AllowNewline(a, n, FALSE)
             ELSE IF q.last_type \notin {"WORD", "OPERATOR"} /\ ~(q.last_type = "RESERVED" /\ q.token = "(")
             THEN Space(a)
             ELSE IF q.last_type = "RESERVED" /\ Flags(a).last_word = "function" THEN a
             ELSE IF After(a, StatementWords \cup {"catch"}) THEN Space(a)
             ELSE a
        c == IF q.token = "(" /\ q.last_type \in {"EQUALS", "OPERATOR"} THEN PreserveNewline(b, n) ELSE b
        d == IF q.token = "(" /\ q.last_type \notin {"WORD", "RESERVED"}
             THEN AllowNewline(c, n, FALSE) ELSE c
    IN  Indent(JsPrintToken(SetMode(IF index THEN s ELSE d, mode), n))

\* handle_end_expr
HandleEndExpr(q, n) ==
    LET a == CloseStatements(q)
        b == IF Flags(a).multiline_frame
             THEN AllowNewline(a, n, q.token = "]" /\ Flags(a).mode = "ArrayLiteral") ELSE a
        c == JsPrintToken(RestoreMode(b), n)
        d == RemoveRedundantIndentation(c, c.previous)
    IN  IF Flags(d).do_while /\ d.previous.mode = "Conditional"
        THEN SetFlag([d EXCEPT !.previous.mode = "Expression"],
                     [Flags(d) EXCEPT !.do_block = FALSE, !.do_while = FALSE])
        ELSE d

\* Whether a { opens an object: by what is in it, or by what is before it.
OpensObject(q, n) ==
    LET next == NextToken(n) IN
    \/ /\ TextOf(next) # "eof" /\ TextOf(NextToken(next)) \in {":", "comma"}
       /\ JsTokenType[TextOf(next)] \in {"STRING", "WORD", "RESERVED"}
    \/ /\ Flags(q).last_text # "=>"
       /\ \/ q.last_type \in {"EQUALS", "START_EXPR", "COMMA", "OPERATOR"}
          \/ After(q, {"return"})

\* handle_start_block
HandleStartBlock(q, n) ==
    LET a == SetMode(q, IF OpensObject(q, n) THEN "ObjectLiteral" ELSE "BlockStatement")
        b == IF a.previous.mode = "ArrayLiteral" /\ q.last_type \in {"START_EXPR", "COMMA"}
             THEN IF q.last_type = "COMMA" THEN Space(a) ELSE a
             ELSE IF q.last_type \in {"OPERATOR", "START_EXPR"} THEN a
             ELSE IF q.last_type = "START_BLOCK" THEN JsPrintNewline(a, FALSE)
             ELSE Space(a)
    IN  Indent(JsPrintToken(b, n))

\* Mutant: the statements in a block stay open when it closes.
HandleEndBlockKeepingStatements(q, n) ==
    JsPrintToken(RestoreMode(IF q.last_type = "START_BLOCK" THEN q ELSE JsPrintNewline(q, FALSE)), n)

\* handle_end_block
HandleEndBlock(q, n) ==
    LET a == CloseStatements(q)
        b == IF q.last_type = "START_BLOCK" THEN a ELSE JsPrintNewline(a, FALSE)
    IN  JsPrintToken(RestoreMode(b), n)

\* A word that begins no statement, at a newline of the source.
WordBegun(q, n) ==
    IF StartsStatement(q, n) THEN StartOfStatement(q, n)
    ELSE IF /\ Wanted(n) /\ ~IsExpression(Flags(q).mode)
            /\ q.last_type = "OPERATOR" => Flags(q).last_text = "++"
            /\ q.last_type # "EQUALS"
    THEN JsPrintNewline(q, FALSE) ELSE q

\* Something else than while behind the block of a do.
DoEnded(q) ==
    IF ~Flags(q).do_block \/ Flags(q).do_while THEN q
    ELSE LET p == JsPrintNewline(q, FALSE) IN SetFlag(p, [Flags(p) EXCEPT !.do_block = FALSE])

\* The word behind an if, its first else apart, unwinds the statements.
IfUnwound(q, n) ==
    IF ~Flags(q).if_block THEN q
    ELSE IF ~Flags(q).else_block /\ q.token = "else"
    THEN SetFlag(q, [Flags(q) EXCEPT !.else_block = TRUE])
    ELSE LET p == CloseStatements(q)
         IN  SetFlag(p, [Flags(p) EXCEPT !.if_block = FALSE, !.else_block = FALSE])

\* case, and the default of a switch.
CaseWord(q, n) ==
    LET a == JsPrintNewline(q, FALSE)
        b == IF ~Flags(a).case_body THEN a
             ELSE LET p == Deindent(a) IN SetFlag(p, [Flags(p) EXCEPT !.case_body = FALSE])
        c == JsPrintToken(b, n)
    IN  SetFlag(c, [Flags(c) EXCEPT !.in_case = TRUE, !.in_case_statement = TRUE])

\* A function stands behind an empty line, or behind what it is a value for.
FunctionBegun(q, n) ==
    LET text == Flags(q).last_text
        a == IF /\ \/ text \in {"close", "semicolon"}
                   \/ JustAddedNewline(q) /\ text \notin {"[", "open", ":", "=", "comma"}
                /\ ~JustAddedBlankline(q) /\ ~CommentsBefore(n)
             THEN JsPrintNewline(JsPrintNewline(q, FALSE), TRUE) ELSE q
    IN  IF q.last_type \in {"RESERVED", "WORD"}
        THEN IF After(a, {"new", "return"}) THEN Space(a) ELSE JsPrintNewline(a, FALSE)
        ELSE IF q.last_type = "OPERATOR" \/ Flags(a).last_text = "=" THEN Space(a)
        ELSE IF ~Flags(a).multiline_frame
                /\ (IsExpression(Flags(a).mode) \/ Flags(a).mode = "ArrayLiteral") THEN a
        ELSE JsPrintNewline(a, FALSE)

\* Behind a comma, a bracket or an operator a newline is preserved.
Continued(q, n) ==
    IF q.last_type \in {"COMMA", "START_EXPR", "EQUALS", "OPERATOR"} THEN PreserveNewline(q, n) ELSE q

\* prefix
Prefix(q, n) ==
    LET mode == Flags(q).mode
        text == Flags(q).last_text
    IN  IF q.token \in StatementWords /\ text # ")"
        THEN IF text = "else" THEN "SPACE" ELSE "NEWLINE"
        ELSE CASE q.last_type = "END_BLOCK" -> IF q.token \in {"else", "catch"} THEN "SPACE" ELSE "NEWLINE"
               [] q.last_type = "SEMICOLON" -> IF mode = "BlockStatement" THEN "NEWLINE"
                                               ELSE IF IsExpression(mode) THEN "SPACE" ELSE "NONE"
               [] q.last_type \in {"RESERVED", "WORD"} -> "SPACE"
               [] q.last_type \in {"STRING", "START_BLOCK", "END_EXPR"} -> "NEWLINE"
               [] OTHER -> "NONE"

\* else and catch: behind the block they follow, if that ends the line.
ElseWord(q) ==
    IF q.last_type = "END_BLOCK" /\ q.previous.mode = "BlockStatement"
    THEN LET p == JsTrim(q)
             last == Last(Last(p.lines).items)
         IN  Space(IF TextOf(last) = "close" THEN p ELSE JsPrintNewline(p, FALSE))
    ELSE JsPrintNewline(q, FALSE)

\* The white space before a word by its prefix.
WordPlaced(q, n) ==
    LET text == Flags(q).last_text
        p == IF q.last_type = "END_EXPR" THEN Space(q) ELSE q
    IN  IF q.token \in {"else", "catch"} THEN ElseWord(p)
        ELSE IF Prefix(q, n) = "NEWLINE"
        THEN IF After(p, SpecialWords) THEN Space(p)
             ELSE IF q.last_type = "END_EXPR"
             THEN IF q.token \in StatementWords /\ text # ")" THEN JsPrintNewline(p, FALSE) ELSE p
             ELSE IF text # ":" /\ ~(q.last_type = "START_EXPR" /\ q.token = "var")
             THEN JsPrintNewline(p, FALSE) ELSE p
        ELSE IF Flags(p).multiline_frame /\ Flags(p).mode = "ArrayLiteral" /\ text = "comma"
                /\ q.last_last_text = "close" THEN JsPrintNewline(p, FALSE)
        ELSE IF Prefix(q, n) = "SPACE" THEN Space(p)
        ELSE p

WordRemembered(q, n) == SetFlag(q, [Flags(q) EXCEPT !.last_word = TextOf(n)])

\* handle_word
HandleWord(q, n) ==
    LET a == WordBegun(q, n)
        b == IfUnwound(DoEnded(a), n)
        c == Continued(IF q.token = "function" THEN FunctionBegun(b, n) ELSE b, n)
        d == WordRemembered(JsPrintToken(WordPlaced(c, n), n), n)
    IN  IF Flags(a).do_block /\ ~Flags(a).do_while /\ q.token = "while"
        THEN LET w == Space(JsPrintToken(Space(a), n))
             IN  SetFlag(w, [Flags(w) EXCEPT !.do_while = TRUE])
        ELSE IF q.token = "case" \/ (q.token = "default" /\ Flags(b).in_case_statement)
        THEN CaseWord(b, n)
        ELSE IF q.token = "function" THEN WordRemembered(JsPrintToken(c, n), n)
        ELSE SetFlag(d, [Flags(d) EXCEPT !.do_block = (@ \/ q.token = "do"),
                                         !.if_block = (@ \/ q.token = "if")])

\* handle_semicolon
HandleSemicolon(q, n) ==
    LET a == IF StartsStatement(q, n) THEN NoSpace(StartOfStatement(q, n)) ELSE q
    IN  JsPrintToken(CloseSimple(a), n)

\* handle_string
HandleString(q, n) ==
    JsPrintToken(
        IF StartsStatement(q, n) THEN Space(StartOfStatement(q, n))
        ELSE IF q.last_type \in {"RESERVED", "WORD"} THEN Space(q)
        ELSE IF q.last_type \in {"COMMA", "START_EXPR", "EQUALS", "OPERATOR"} THEN PreserveNewline(q, n)
        ELSE JsPrintNewline(q, FALSE), n)

\* handle_equals
HandleEquals(q, n) ==
    LET a == StartOfStatement(q, n)
        b == SetFlag(a, [Flags(a) EXCEPT !.declaration_assignment = (@ \/ Flags(a).declaration_statement)])
    IN  Space(JsPrintToken(Space(b), n))

\* handle_comma: declarations with a value and an object's properties get lines of their own.
HandleComma(q, n) ==
    LET a == Space(JsPrintToken(q, n))
        declared == SetFlag(a, [Flags(a) EXCEPT !.declaration_assignment = FALSE])
        closed == IF Flags(a).mode = "Statement" THEN RestoreMode(a) ELSE a
    IN  IF Flags(a).declaration_statement
        THEN IF Flags(a).declaration_assignment /\ ~IsExpression(Parent(a).mode)
             THEN NewlineInStatement(declared) ELSE declared
        ELSE IF Flags(a).mode = "ObjectLiteral"
                \/ (Flags(a).mode = "Statement" /\ Parent(a).mode = "ObjectLiteral")
        THEN JsPrintNewline(closed, FALSE)
        ELSE a

\* The colon of a case.
CaseColon(q, n) ==
    LET a == Indent(SetFlag(q, [Flags(q) EXCEPT !.case_body = TRUE]))
        b == JsPrintNewline(JsPrintToken(a, n), FALSE)
    IN  SetFlag(b, [Flags(b) EXCEPT !.in_case = FALSE])

\* An operator with operands on either side, or a colon of an object.
BinaryOperator(q, n) ==
    LET depth == Flags(q).ternary_depth
        ternary == depth > 0
        a == SetFlag(q, [Flags(q) EXCEPT !.ternary_depth =
                 IF q.token = "?" THEN depth + 1
                 ELSE IF q.token = ":" /\ ternary THEN depth - 1 ELSE depth])
        b == JsPrintToken([a EXCEPT !.space = (q.token # ":" \/ ternary)], n)
    IN  Space(IF q.token # ":" \/ ternary THEN AllowNewline(b, n, FALSE) ELSE b)

IsUnary(q, n) == /\ q.token = "+"
                 /\ \/ q.last_type \in {"START_BLOCK", "START_EXPR", "EQUALS", "OPERATOR"}
                    \/ Flags(q).last_text \in StatementWords \cup {"comma"}

\* Mutant: a newline before ++ is dropped like any other.
UnaryOperatorJoined(q, n) ==
    LET text == Flags(q).last_text
        before == \/ /\ text = "semicolon" /\ IsExpression(Flags(q).mode)
                     /\ q.last_type \notin {"END_EXPR", "OPERATOR"}
                  \/ q.last_type = "RESERVED"
                  \/ q.last_type = "END_EXPR" /\ ~(text = "]" /\ q.token = "++")
                  \/ q.last_type = "OPERATOR" /\ q.token \in {"++", "+"} /\ text \in {"++", "+"}
        b == IF Flags(q).mode \in {"BlockStatement", "Statement"} /\ text \in {"open", "semicolon"}
             THEN JsPrintNewline(q, FALSE) ELSE q
        c == JsPrintToken([b EXCEPT !.space = (@ \/ before)], n)
    IN  [c EXCEPT !.space = (q.last_type = "OPERATOR" /\ q.token = "+" /\ text = "++")]

\* An operator with one operand: a newline before ++ is preserved, and two that would
\* become one are kept apart.
UnaryOperator(q, n) ==
    LET a == IF Wanted(n) /\ q.token = "++" THEN NewlineInStatement(q) ELSE q
        text == Flags(a).last_text
        before == \/ /\ text = "semicolon" /\ IsExpression(Flags(a).mode)
                     /\ q.last_type \notin {"END_EXPR", "OPERATOR"}
                  \/ q.last_type = "RESERVED"
                  \/ q.last_type = "END_EXPR" /\ ~(text = "]" /\ q.token = "++")
                  \/ q.last_type = "OPERATOR" /\ q.token \in {"++", "+"} /\ text \in {"++", "+"}
        b == IF Flags(a).mode \in {"BlockStatement", "Statement"} /\ text \in {"open", "semicolon"}
             THEN JsPrintNewline(a, FALSE) ELSE a
        c == JsPrintToken([b EXCEPT !.space = (@ \/ before)], n)
    IN  [c EXCEPT !.space = (q.last_type = "OPERATOR" /\ q.token = "+" /\ text = "++")]

\* handle_operator
HandleOperator(q, n) ==
    LET a == StartOfStatement(q, n)
        b == IF q.last_type = "OPERATOR" THEN AllowNewline(a, n, FALSE) ELSE a
    IN  IF After(a, SpecialWords) THEN JsPrintToken(Space(a), n)
        ELSE IF q.token = "::" \/ (q.token = "star" /\ q.last_type = "DOT") THEN JsPrintToken(a, n)
        ELSE IF q.token = ":" /\ Flags(b).in_case THEN CaseColon(b, n)
        ELSE IF q.token \in {"++", "!"} \/ IsUnary(b, n) THEN UnaryOperator(b, n)
        ELSE IF q.token \in Positionable THEN BinaryOperator(b, n)
        ELSE Space(JsPrintToken(Space(b), n))

\* handle_block_comment: in its line, or on lines of its own.
HandleBlockComment(q, n) ==
    IF q.token = "/**/" /\ ~Wanted(n) THEN Space(JsPrintToken(Space(q), n))
    ELSE NewlineInStatement(JsPrintToken(NewlineInStatement(q), n))

\* handle_comment: at the end of the line before unless it has its own.
HandleComment(q, n) ==
    NewlineInStatement(JsPrintToken(Space(IF Wanted(n) THEN NewlineInStatement(q) ELSE JsTrim(q)), n))

\* handle_dot
HandleDot(q, n) ==
    LET a == StartOfStatement(q, n)
    IN  JsPrintToken(IF After(a, SpecialWords) THEN Space(a) ELSE AllowNewline(a, n, FALSE), n)

\* handle_eof: no statement stays open.
HandleEof(q) == CloseStatements(q)

-----------------------------------------------------------------------------
(* The tokens in turn.                                                     *)

JsBegin ==
    /\ at = 0
    /\ fmt = [flags |-> <<NewFlags, NewFlags>>, previous |-> NewFlags,
              lines |-> <<EmptyLine>>, space |-> FALSE,
              last_type |-> "START_BLOCK", last_last_text |-> "none", token |-> "none"]

JsInit == js \in JsSource /\ JsBegin

\* Empty lines of the source, as many as are preserved.
BlankLines(q, n) ==
    LET lines == Min({js[n].nl, JsMaxPreserve})
        print[k \in 1 .. lines] ==
            IF k = 1 THEN JsPrintNewline(q, FALSE) ELSE JsPrintNewline(print[k - 1], TRUE)
    IN  IF js[n].nl > 1 THEN print[lines] ELSE q

\* handle_token; a reserved word that names a property is a word.
Take(q, n) ==
    LET p == BlankLines(q, n)
        name == /\ TextOf(n) \in ReservedWords /\ Flags(p).mode = "ObjectLiteral"
                /\ TextOf(NextToken(n)) = ":"
    IN  [p EXCEPT !.token = IF name THEN "word" ELSE TextOf(n)]

\* The next token, and what its handler is given.
Coming == at + 1
Taken  == Take(fmt, Coming)

\* A token of one of the types, and what its handler answers; a comment is not remembered.
Handle(types, answer) ==
    /\ at < Len(js)
    /\ JsTokenType[TextOf(Coming)] \in types
    /\ at' = Coming
    /\ LET q == answer
           p == SetFlag(q, [Flags(q) EXCEPT !.last_text = TextOf(Coming)])
       IN  fmt' = IF TextOf(Coming) \in CommentTokens THEN q
                  ELSE [p EXCEPT !.last_last_text = Flags(q).last_text, !.last_type = TokenType(q)]
    /\ UNCHANGED js

JsNext ==
    \/ Handle({"START_EXPR"}, HandleStartExpr(Taken, Coming))
    \/ Handle({"END_EXPR"}, HandleEndExpr(Taken, Coming))
    \/ Handle({"START_BLOCK"}, HandleStartBlock(Taken, Coming))
    \/ Handle({"END_BLOCK"}, HandleEndBlock(Taken, Coming))
    \/ Handle({"WORD", "RESERVED"}, HandleWord(Taken, Coming))
    \/ Handle({"SEMICOLON"}, HandleSemicolon(Taken, Coming))
    \/ Handle({"STRING"}, HandleString(Taken, Coming))
    \/ Handle({"EQUALS"}, HandleEquals(Taken, Coming))
    \/ Handle({"COMMA"}, HandleComma(Taken, Coming))
    \/ Handle({"OPERATOR"}, HandleOperator(Taken, Coming))
    \/ Handle({"BLOCK_COMMENT"}, HandleBlockComment(Taken, Coming))
    \/ Handle({"COMMENT"}, HandleComment(Taken, Coming))
    \/ Handle({"DOT"}, HandleDot(Taken, Coming))
    \/ Handle({"EOF"}, HandleEof(Taken))

JsSpec == JsInit /\ [][JsNext]_jsVars

-----------------------------------------------------------------------------
\* The tokens of the lines are 1 .. n, each once and in this order.
PrintsUpTo(lines, n) ==
    /\ \A i \in DOMAIN lines : \A c \in DOMAIN lines[i].items : lines[i].items[c] \in 0 .. n
    /\ \A m \in 1 .. n : \E i \in DOMAIN lines : \E c \in DOMAIN lines[i].items : lines[i].items[c] = m
    /\ \A i, j \in DOMAIN lines : \A c \in DOMAIN lines[i].items, d \in DOMAIN lines[j].items :
           /\ i < j \/ (i = j /\ c < d)
           /\ lines[i].items[c] # Blank /\ lines[j].items[d] # Blank
           => lines[i].items[c] < lines[j].items[d]

\* The script is printed as far as it is read, its end apart.
JsPrinted == PrintsUpTo(fmt.lines, Min({at, Len(js) - 1}))

JsTypeOK ==
    /\ at \in 0 .. Len(js)
    /\ Len(fmt.flags) >= 2 /\ fmt.space \in BOOLEAN
    /\ \A i \in DOMAIN fmt.lines : fmt.lines[i].indent \in {-1} \cup Nat
    /\ \A i \in DOMAIN fmt.flags : fmt.flags[i].indentation_level \in Nat

\* The brackets open behind token n, by the script alone; one that closes none is passed by.
BracketsAfter(open, n) ==
    IF TextOf(n) \in {"(", "[", "open"} THEN Append(open, n)
    ELSE IF TextOf(n) \in {")", "]", "close"} /\ open # <<>> THEN Front(open)
    ELSE open
OpenBrackets[n \in 0 .. Len(js)] == IF n = 0 THEN <<>> ELSE BracketsAfter(OpenBrackets[n - 1], n)

\* What is open besides statements is the script and its open brackets, and behind the last
\* token no statement is: statements are unwound when they end, those in brackets when the
\* brackets close, whatever was begun in them (beautify.js 793, 917).
ModesMatchBrackets ==
    /\ Cardinality({i \in DOMAIN fmt.flags : fmt.flags[i].mode # "Statement"})
           = 2 + Len(OpenBrackets[at])
    /\ at = Len(js) => Flags(fmt).mode # "Statement"

\* Where a token is in the output.
Line(n) == CHOOSE i \in DOMAIN fmt.lines : n \in ToSet(fmt.lines[i].items)
Column(n) == LET items == fmt.lines[Line(n)].items IN CHOOSE i \in DOMAIN items : items[i] = n
Printed == 1 .. Min({at, Len(js) - 1})

InParens(n) == LET open == OpenBrackets[n] IN open # <<>> /\ TextOf(Last(open)) # "open"

\* Tokens on one line, and tokens with something between them.
Together(n) == Line(n - 1) = Line(n)
Separate(n) == ~Together(n) \/ Column(n) > Column(n - 1) + 1

\* The newlines mean what they did, and the signs: a comment to the end of its line ends it; ++
\* behind an operand stays on its line or off it; what is returned stays on the line of the
\* return; and signs that would become another operator stay apart (beautify.js 961-969,
\* 1116-1130, 1241-1246, 1354-1387, 1467-1477).
NewlinesMeanTheSame ==
    \A n \in Printed \ {1} :
        LET before == TextOf(n - 1)
        IN  /\ before = "//" => ~Together(n)
            /\ TextOf(n) = "++" /\ before \in {"word", ")", "]"} => (Together(n) <=> ~Wanted(n))
            /\ /\ before = "return" /\ ~Wanted(n)
               /\ TextOf(n) \in {"word", "function", "new", "string", "(", "[", "open", "+", "++", "!"}
               => Together(n)
            /\ before \in {"+", "++"} /\ TextOf(n) \in {"+", "++"} => Separate(n)

\* So do the words: a label stays on the line of its break; a statement that begins on a line
\* of its own still does, outside of parentheses; words stay apart (beautify.js 623-657,
\* 1116-1130).
WordsMeanTheSame ==
    \A n \in Printed \ {1} :
        LET before == TextOf(n - 1)
            word == TextOf(n) \in ReservedWords \cup {"word"}
        IN  /\ before = "starter" /\ TextOf(n) = "word" /\ ~Wanted(n) => Together(n)
            /\ /\ word /\ TextOf(n) \notin {"else", "catch", "while"} /\ Wanted(n)
               /\ before \in {"word", "string", ")", "]", "close", "semicolon"} /\ ~InParens(n - 1)
               => ~Together(n)
            /\ word /\ before \in ReservedWords \cup {"word", "string"} => Separate(n)

\* The script means what it did, where JavaScript asks for newlines or white space.
JsMeansTheSame == NewlinesMeanTheSame /\ WordsMeanTheSame

\* "If there is a newline between -- or ++ and anything else we should preserve it"
\* (beautify.js 1360-1361).
IncrementStaysOffTheLine ==
    \A n \in Printed \ {1} : TextOf(n) = "++" /\ Wanted(n) => Line(n - 1) # Line(n)

\* The if that an else belongs to: the last one of the same block with as many ifs as elses
\* in between.
Within(m, n, t) == {k \in m + 1 .. n - 1 : TextOf(k) = t /\ OpenBrackets[k] = OpenBrackets[n]}
IfOf(n) == Max({m \in Within(0, n, "if") :
                    Cardinality(Within(m, n, "if")) = Cardinality(Within(m, n, "else"))})

\* An else on a line of its own stands under its if: the statements of an if are unwound
\* when a word comes that is no else of it, "need to unwind the modes correctly: if (a) if (b)
\* c(); else d(); else e();" (beautify.js 987-1000).  Two ifs are unwound only, one that
\* stands alone in the block and one with no if in it: an if in between and an else if give
\* their elses to the one around.
ElseUnderItsIf ==
    at = Len(js) =>
        \A n \in Printed :
            /\ TextOf(n) = "else" /\ Column(n) = 1 /\ Within(0, n, "if") # {}
            /\ IfOf(n) > 1 => \/ TextOf(IfOf(n) - 1) \in {"semicolon", "open", "close"}
                              \/ Within(IfOf(n), n, "if") = {} /\ TextOf(IfOf(n) - 1) # "else"
            => fmt.lines[Line(n)].indent = fmt.lines[Line(IfOf(n))].indent

\* The script reads the same: to JavaScript, by its white space and newlines (beautify.js
\* 1354-1387), and to a reader, by the if an else stands under (beautify.js 987-1000).
JsReadsTheSame == JsMeansTheSame /\ ElseUnderItsIf
=============================================================================
