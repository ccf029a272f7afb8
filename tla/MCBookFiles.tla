----------------------------- MODULE MCBookFiles -----------------------------
(* BookFiles for TLC.  The specification treats all formats alike and all names *)
(* alike: what CHOOSE chooses in UpdateRows is determined by its condition.     *)
EXTENDS BookFiles, TLC

Symmetry == Permutations(Formats) \cup Permutations(Names)
=============================================================================
