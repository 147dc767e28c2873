----------------------------- MODULE MCFormatter -----------------------------
(***************************************************************************)
(* The small instances of the formatters.                                  *)
(***************************************************************************)
EXTENDS Formatters

\* No sheet, and no page.
MCNothing == {<<>>}

-----------------------------------------------------------------------------
(* Style sheets: two pieces and an end, or three short ones and an end.    *)

Css(t, white, holds) == <<[t |-> t, white |-> white, holds |-> holds]>>
C(t)  == Css(t, "none", Plain)
CB(t) == Css(t, "blank", Plain)
CN(t) == Css(t, "newline", Plain)
CI(t) == Css(t, "indented", Plain)

CssPieces ==
    {C("word"), CB("word"), CN("word"), CB("open"), CN("close"), C("close"), C(":"), CB(":"),
     C("semicolon"), C("open"), C("comma"), CB("/**/"), CN("/**/"), CB("//") \o CN("word"), CN("//") \o CN("close"),
     C("(") \o CB("word") \o CB(")"), CB("url(") \o CB("string") \o CB(")"), C("url()"),
     C("[") \o C("word") \o CB("=") \o CB("word") \o CB("]"),
     C("@media") \o C("word") \o CN("open"), C("@plain_") \o CB("word"), C("@plain:"),
     C("@plain") \o C("word") \o C("comma"), CN("@page") \o C("word") \o CN("open"),
     CN("@media") \o C("word") \o CN("word") \o C("open") \o C("word") \o C(":") \o C("word"),
     C("&"), C("#var"), CB("@var"), CI("/**/"), CI("//") \o CI("word"),
     Css("string", "none", "open"), Css("url()", "none", ")"), Css("/**/", "blank", "semicolon"),
     C("word") \o C("open") \o C("word") \o C(":") \o C("word") \o C("("),
     C(":") \o CB(":") \o C("word"), C("open") \o CB("close"),
     C("word") \o C("open") \o C("word") \o C(":") \o C("word") \o C("semicolon") \o C("close")}
CssShort == {CB("word"), C("open"), CN("close"), C(":"), C("semicolon"), CB("open"), C("comma"),
             CB("//"), CN("/**/")}
CssEnds  == {<<>>, CB("close"), CN("//"), CB(":") \o C("word") \o CB("open"), C(")") \o CB("open")}

MCSheets == MCNothing \cup
    {s \in {a \o b \o d : a, b \in CssPieces, d \in CssEnds}
           \cup {a \o b \o c \o d : a, b, c \in CssShort,
                   d \in {C("close") \o CB("open"), CN("word"), CB("word") \o C("close")}}
           : IsSheet(s)}

-----------------------------------------------------------------------------
(* Pages: the same of elements, left open and closed in any order.         *)

H(t, name, white) == <<[t |-> t, name |-> name, white |-> white]>>
X(w)  == H("start", "x", w)
Xe(w) == H("end", "x", w)
Y(w)  == H("start", "y", w)
Ye(w) == H("end", "y", w)
T(w)  == H("text", "-", w)
I(w)  == H("inline", "-", w)

HtmlPieces ==
    {X(-1), X(0), X(1), X(2), Xe(-1), Xe(0), Xe(1), Y(-1), Y(1), Ye(-1), Ye(2),
     T(-1), T(0), T(1), I(-1), I(0), I(2),
     H("void", "-", -1), H("void", "-", 1), H("comment", "-", 0), H("comment", "-", 7),
     H("script", "script", -1) \o H("code", "-", 0) \o H("end", "script", -1),
     H("script", "script", 1) \o H("code", "-", 1) \o H("end", "script", 1),
     H("script", "script", -1) \o H("end", "script", -1),
     H("script", "script", 0) \o H("end", "script", 1),
     H("script", "style", -1) \o H("code", "-", 1) \o H("end", "style", -1),
     H("script", "style", 0) \o H("end", "style", 0),
     H("start", "a", 0) \o X(1) \o H("end", "a", 0),
     H("start", "html", -1), H("end", "html", 1), H("start", "body", 0), H("end", "body", -1)}
HtmlShort == {X(-1), Xe(-1), Y(1), Ye(1), T(1), T(-1), I(-1), I(0)}

MCPages == MCNothing
    \cup {a \o b \o d : a, b \in HtmlPieces,
                   d \in {<<>>, T(0), Xe(0) \o I(-1), Y(-1) \o T(-1) \o Xe(-1)}}
    \cup {a \o b \o c \o e \o d : a, b, c, e \in HtmlShort, d \in {<<>>, Xe(-1)}}

MCName  == {"x", "y", "script", "style", "html", "a", "body"}
MCExtra == {"body"}

-----------------------------------------------------------------------------
(* Scripts: two pieces and an end, grammatical or not; and statements in   *)
(* one another to a depth of three.                                        *)

W(t) == <<[t |-> t, nl |-> 0]>>
N(t) == <<[t |-> t, nl |-> 1]>>
B(t) == <<[t |-> t, nl |-> 3]>>
Eof  == W("eof")
Cond == W("(") \o W("word") \o W(")")

JsPieces ==
    {W("word"), N("word"), B("word"), W("semicolon"), W("=") \o W("word"), W("=") \o N("word"),
     W("++"), N("++"), W("+"), N("+"), W("*"), W("+="), W("!"), W("::"), W("star"), W(".") \o W("star"), W("string"), N("string"),
     W("comma"), W("."), N("."), W("("), N("("), W(")"), N(")"), W("["), W("]"), N("]"),
     W("open"), W("close"), W("open") \o W("close"), W("open") \o W("word") \o W(":"),
     W("?") \o W("word") \o W(":"), W("var") \o W("word"), W("return"), N("return"),
     N("starter"), W("if") \o Cond, N("if") \o Cond, W("else"), N("else"), W("do"),
     W("while") \o Cond, W("for") \o Cond, W("function") \o W("("),
     W("function") \o W("word") \o W("(") \o W(")"), W("case") \o W("word") \o W(":"),
     W("default") \o W(":"), N("catch") \o Cond, W("new"), W("=>"),
     W("/**/"), N("/**/"), N("/*..*/"), W("//"), N("//")}
JsEnds == {<<>>, W("word"), N("word"), W("semicolon"), W("open"), W("close"), N("close"), W(")")}

Statement(inner, alternative) ==
    {W("if") \o Cond \o x : x \in inner} \cup {W("open") \o x \o W("close") : x \in inner}
    \cup {W("if") \o Cond \o x \o W("else") \o y : x \in inner, y \in alternative}
    \cup {W("while") \o Cond \o x : x \in inner}
    \cup {W("do") \o W("open") \o x \o W("close") \o W("while") \o Cond \o W("semicolon") : x \in inner}
Calls1 == {W("word") \o W("(") \o W(")") \o W("semicolon")}
Nest1  == Calls1 \cup Statement(Calls1, Calls1)
Nest2  == Nest1 \cup Statement(Nest1, Nest1)
Nested == Nest2 \cup Statement(Nest2, Calls1)

MCScripts == {NoScript} \cup
    {s \in {a \o b \o c \o Eof : a, b \in JsPieces, c \in JsEnds}
           : \A n \in 2 .. Len(s) - 1 : s[n - 1].t = "//" => s[n].nl > 0}
    \cup {x \o W("word") \o Eof : x \in Nested}

\* What is returned begins with ++, on the line of the return or on the next.
MCReturns == {NoScript} \cup {W("return") \o one \o W("word") \o Eof : one \in {W("++"), N("++")}}

=============================================================================
