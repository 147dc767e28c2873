----------------------------- MODULE Formatters -----------------------------
(***************************************************************************)
(* The three formatters side by side: a behaviour formats one text and     *)
(* leaves the other formatters as they begin.                              *)
(***************************************************************************)
EXTENDS CssBeautify, HtmlBeautify, JsBeautify

VARIABLE part

\* A script of nothing but its end.
NoScript == <<[t |-> "eof", nl |-> 0]>>

formatVars == <<part, cssVars, htmlVars, jsVars>>

FormatInit ==
    /\ part \in {"css", "html", "js"}
    /\ IF part = "css" THEN css \in CssSource ELSE css = <<>>
    /\ IF part = "html" THEN html \in HtmlSource ELSE html = <<>>
    /\ IF part = "js" THEN js \in JsSource ELSE js = NoScript
    /\ CssBegin /\ HtmlBegin /\ JsBegin

FormatNext ==
    /\ UNCHANGED part
    /\ \/ part = "css"  /\ CssNext  /\ UNCHANGED <<htmlVars, jsVars>>
       \/ part = "html" /\ HtmlNext /\ UNCHANGED <<cssVars, jsVars>>
       \/ part = "js"   /\ JsNext   /\ UNCHANGED <<cssVars, htmlVars>>

FormatSpec == FormatInit /\ [][FormatNext]_formatVars

FormatTypeOK ==
    /\ part = "css" => CssTypeOK
    /\ part = "html" => HtmlTypeOK
    /\ part = "js" => JsTypeOK

\* Every formatter keeps its types, and what it has read of its source stands in its output,
\* each piece once and in its order, whatever white space it has taken back in between: the
\* printers trim their output from its end (beautify-css.js 257-261, beautify-html.js 762-773,
\* beautify.js 1564-1570, 1690-1703), and no piece goes with it.
EveryPieceOnce ==
    /\ FormatTypeOK
    /\ part = "css" => CssPrinted
    /\ part = "html" => HtmlPrinted
    /\ part = "js" => JsPrinted
=============================================================================
