---------------------------- MODULE MCEventQueue ---------------------------
(***************************************************************************)
(* A ring of four slots, three events of two types: small enough to be     *)
(* exhaustive, large enough to wrap, to fill and to flush a middle event.  *)
(***************************************************************************)
EXTENDS EventQueue

CONSTANTS e1, e2, e3, tIo, tKey

MCEvent     == {e1, e2, e3}
MCEventType == {tIo, tKey}
MCTypeOf    == [e \in MCEvent |-> IF e = e3 THEN tKey ELSE tIo]
=============================================================================
