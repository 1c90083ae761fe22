--------------------------- MODULE MCSegmentPipe ---------------------------
(***************************************************************************)
(* SegmentPipe on two chunks of two frames, frames of three blocks, a raw  *)
(* pipe shorter than a frame and an encoder pipe of one frame.             *)
(***************************************************************************)
EXTENDS SegmentPipe
=============================================================================
