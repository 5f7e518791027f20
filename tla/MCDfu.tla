------------------------------- MODULE MCDfu -------------------------------
(***************************************************************************)
(* Two firmware images of two pages with two cells each, sent in writes of *)
(* up to three cells, so that a write may end inside a page, at its end or *)
(* in the next page.                                                       *)
(***************************************************************************)
EXTENDS Dfu, TLC

CONSTANTS x, y

MCImages == {x, y}
ImageSymmetry == Permutations(MCImages)
Flight == {"commissioned", "blank", "factory"}
Baseband == {"commissioned"}
=============================================================================
