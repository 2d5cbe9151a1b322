--------------------------- MODULE MCSubtitleDedupe ---------------------------
(* SubtitleDedupe with interchangeable files.                                *)
EXTENDS SubtitleDedupe, TLC

MCSymmetry == Permutations(Files)
=============================================================================
