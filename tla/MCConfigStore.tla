----------------------------- MODULE MCConfigStore -----------------------------
(* ConfigStore for TLC: inodes are interchangeable.                         *)
EXTENDS ConfigStore, TLC

Symmetry == Permutations(Inodes)
================================================================================
