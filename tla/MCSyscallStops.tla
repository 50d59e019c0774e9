--------------------------- MODULE MCSyscallStops ---------------------------
(***************************************************************************)
(* SyscallStops for TLC.  Directories are interchangeable.                 *)
(***************************************************************************)
EXTENDS SyscallStops, TLC

DirSymmetry == Permutations(Dirs)
=============================================================================
