-------------------------- MODULE MCGadgetController --------------------------
(* GadgetController for TLC: two images, one of them undersize.            *)
EXTENDS GadgetController, TLC

Symmetry == Permutations(Requests)
===============================================================================
