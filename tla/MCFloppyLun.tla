----------------------------- MODULE MCFloppyLun -----------------------------
(* FloppyLun for TLC: two image files, one of them not writable.           *)
EXTENDS FloppyLun, TLC

Symmetry == Permutations(Writers)
=============================================================================
