----------------------- MODULE MCScientificSnapshots -----------------------
(* Two days of two hours; two weekly captures, two linkers and three cells:*)
(* the second mask has a cell more, the second batch lacks a cell.         *)
EXTENDS ScientificSnapshots

CONSTANTS c1, c2, c3

WeekMasks == <<{c1, c2}, {c1, c2, c3}>>
WeekBatches == <<{c1, c2}, {c1, c3}, {c1, c2, c3}>>
=============================================================================
