----------------------------- MODULE MCListField -----------------------------
(* Two struct values a and b, two element values, lengths up to 3 (so a   *)
(* slice grows 0 -> 1 -> 2 -> 4) and up to 4 backing arrays.               *)
EXTENDS ListField

CONSTANTS a, b, d1, d2

MCVars == {a, b}
MCElems == {d1, d2}
=============================================================================
