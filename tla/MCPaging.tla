------------------------------ MODULE MCPaging ------------------------------
(***************************************************************************)
(* Paging with frames and disk frames as interchangeable model values.     *)
(***************************************************************************)
EXTENDS Paging, TLC

FrameSymmetry == Permutations(Frames) \cup Permutations(DiskFrames)
=============================================================================
