------------------------------ MODULE MCClient ------------------------------
(***************************************************************************)
(* The small instances of the parts of the pages' scripts.                 *)
(***************************************************************************)
EXTENDS Client, SequencesExt

CONSTANTS b1, b2, i1, i2, i3, e1, e2

\* The formatters, as the editor's button names them.
MCSource == <<"beautify.js", "beautify-css.js", "beautify-html.js">>
MCIsScript(name) == name \in ToSet(MCSource)

\* i1 and i2 are made of one textarea, i3 of something else.
MCElementOf(nic) == IF nic = i3 THEN e2 ELSE e1

\* Texts of up to two blocks: every block alone, and every block behind a whole one, one
\* with a character out of the alphabet, and one with padding.
MCBlock == [1 .. 4 -> {0, 27, 63, PADCHAR, BAD}]
MCFirst == {<<63, 0, 27, 36>>, <<36, BAD, 0, 0>>, <<27, 63, PADCHAR, PADCHAR>>}
MCText  == {<<>>, <<27>>, <<27, 36>>, <<0, 63, 27>>} \cup MCBlock
           \cup {first \o block : first \in MCFirst, block \in MCBlock}
=============================================================================
