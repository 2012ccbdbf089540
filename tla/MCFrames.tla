------------------------------- MODULE MCFrames -------------------------------
(* Frames with the sizes of the buffers as interchangeable model values.       *)
EXTENDS Frames, TLC

Symmetry == Permutations(Modes)
===============================================================================
