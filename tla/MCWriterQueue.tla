--------------------------- MODULE MCWriterQueue ---------------------------
(***************************************************************************)
(* WriterQueue for TLC.  Paths are interchangeable, which the safety runs  *)
(* use as a symmetry.                                                      *)
(***************************************************************************)
EXTENDS WriterQueue, TLC

PathSymmetry == Permutations(Paths)
=============================================================================
