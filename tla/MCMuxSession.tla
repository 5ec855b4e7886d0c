---------------------------- MODULE MCMuxSession ----------------------------
(* Instances of MuxSession for TLC. Ids and Entries are model values, and    *)
(* nothing tells two of them apart: the safety runs use their symmetry.      *)
EXTENDS MuxSession, TLC

Symmetry == Permutations(Ids) \cup Permutations(Entries)
=============================================================================
