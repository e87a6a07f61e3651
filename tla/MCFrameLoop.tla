----------------------------- MODULE MCFrameLoop -----------------------------
(***************************************************************************)
(* A bounded instance of FrameLoop: a ring and a queue of two events each, *)
(* a batch of one, three platform events in a behaviour, so that either    *)
(* queue drops; two controllers for one free handle; two contacts for one  *)
(* finger slot.                                                            *)
(***************************************************************************)
EXTENDS FrameLoop

CONSTANTS k, b, c1, c2, x
=============================================================================
