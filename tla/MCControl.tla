----------------------------- MODULE MCControl -----------------------------
(***************************************************************************)
(* Instances of Control.  Pins and settings are interchangeable.           *)
(***************************************************************************)
EXTENDS Control, TLC

Symmetry == Permutations(Pins) \cup Permutations(Configs)
=============================================================================
