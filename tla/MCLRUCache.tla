----------------------------- MODULE MCLRUCache -----------------------------
(* Small instances of LRUCache for TLC. *)
EXTENDS LRUCache, TLC

CONSTANTS k1, k2, k3, v1, v2, p1

MCKey     == {k1, k2, k3}
\* k1 is also used as an expression: absent it matches itself and k2, as the
\* string "1--" would match the key "11--".
MCPattern == {k1, p1}
MCMatchedBy == (k1 :> {k1, k2}) @@ (p1 :> {k2, k3})
MCTTL     == {-1, 1}
=============================================================================
