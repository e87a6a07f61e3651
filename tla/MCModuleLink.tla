---------------------------- MODULE MCModuleLink ---------------------------
(***************************************************************************)
(* Bounded instances of ModuleLink: three slots, two service entries,      *)
(* three handles and a stack of two host calls let every table fill, a     *)
(* start function load and join within a join, and slots and handles be    *)
(* used again.                                                             *)
(***************************************************************************)
EXTENDS ModuleLink

CONSTANTS k1, k2

OneKey          == {k1}
TwoKeys         == {k1, k2}
ModuleAndOther  == {"module", "other"}
=============================================================================
