----------------------------- MODULE MCAIRouter -----------------------------
(* Small instances of AIRouter for TLC.                                    *)
EXTENDS AIRouter, TLC

\* The questions differ in nothing but their name, and so do the keys.
Symmetry == Permutations(Requests) \cup Permutations(Keys)
=============================================================================
