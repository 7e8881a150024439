----------------------------- MODULE MCTabPanes -----------------------------
(* Sizes at which halves of halves still have room, a shrink meets the     *)
(* least size of a split and an even number of rows has unequal halves.    *)
EXTENDS TabPanes

MCStart == [cols |-> 7, rows |-> 4]
MCSizes == {MCStart, [cols |-> 5, rows |-> 4], [cols |-> 10, rows |-> 6]}
MCDeltas == {-2, 3}

(* Panes but the first are interchangeable: no property tells them apart.  *)
Symmetry == Permutations(Panes \ {First})
=============================================================================
