----------------------------- MODULE MCFTSIndex -----------------------------
(* Formats k1, k2 and k3, files c1 and c2 with different texts, c3 with the *)
(* text of c1 (only the markup differs) and, where the model has it, c4 with  *)
(* no text at all (a comic, a scan).                                          *)
EXTENDS FTSIndex, TLC

CONSTANTS k1, k2, k3, c1, c2, c3, c4, t1, t2

TextOfFile == [c \in {c1, c2, c3, c4} |-> CASE c \in {c1, c3} -> t1
                                            [] c = c2 -> t2
                                            [] c = c4 -> EmptyText]

TextOfContents == [c \in Contents |-> TextOfFile[c]]

\* c1 and c3 differ in nothing the model can tell.
Symmetry == Permutations({c1, c3})

\* Bound: one change, restart or switch.  None of them has to be made, so what is
\* cut off takes nothing from what the threads do after it.
OneDisturbance == changes + restarts + (gen - 1) <= 1
=============================================================================
