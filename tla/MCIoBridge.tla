----------------------------- MODULE MCIoBridge ----------------------------
(***************************************************************************)
(* A bounded instance of IoBridge.  Two timer slots and a queue of one     *)
(* event make the table and the queue fill, slots be reused and            *)
(* completions be refused with three operations, and all of them may carry *)
(* the same user_data.  A duration of 15 wraps as soon as the clock is 1.  *)
(***************************************************************************)
EXTENDS IoBridge

CONSTANT ud1

OneUserData   == {ud1}
ShortOffsets  == {0, 1}
WrapOffsets   == {1, 15}
FiniteWaits   == {1}
OnlyForever   == {Forever}
=============================================================================
