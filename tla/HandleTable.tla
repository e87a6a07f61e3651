---------------------------- MODULE HandleTable ----------------------------
(***************************************************************************)
(* The host's handle table (wapi_host.h:442-486): one array of typed       *)
(* entries shared by every capability, with a roving index next_handle     *)
(* from which the search for a free entry starts.  The module holds the    *)
(* table's state and what an allocation or a release does to it; the       *)
(* modules of the capabilities extend it.                                  *)
(***************************************************************************)
EXTENDS Naturals

CONSTANTS First,       \* the first handle that is ever allocated (4)
          Limit,       \* WAPI_MAX_HANDLES
          HandleType   \* the types of entries the instance uses

ASSUME HandleAssumption ==
    /\ First \in Nat \ {0}
    /\ Limit \in Nat
    /\ First < Limit
    /\ "free" \notin HandleType

VARIABLES htype,       \* handles[].type
          next         \* next_handle

Handle == First .. Limit - 1

HandleInit ==
    /\ htype = [h \in Handle |-> "free"]
    /\ next = First

FreeIn(a, b) == {h \in a .. b - 1 : htype[h] = "free"}
TableFull    == FreeIn(next, Limit) = {} /\ FreeIn(First, next) = {}

Lowest(S, x) == x \in S /\ \A y \in S : x <= y

(* From the roving index to the end, then from the first handle up to it.  *)
Found(h) == IF FreeIn(next, Limit) # {} THEN Lowest(FreeIn(next, Limit), h)
                                        ELSE Lowest(FreeIn(First, next), h)

(* Mutant: the entry at the roving index is taken as it is.                *)
HandleAlloc_blind(h, t) ==
    /\ h = IF next < Limit THEN next ELSE First
    /\ htype' = [htype EXCEPT ![h] = t]
    /\ next' = h + 1

HandleAlloc(h, t) ==
    /\ Found(h)
    /\ htype' = [htype EXCEPT ![h] = t]
    /\ next' = h + 1

HandleFree(h) ==
    /\ htype' = [htype EXCEPT ![h] = "free"]
    /\ UNCHANGED next

HandleTypeOK ==
    /\ htype \in [Handle -> HandleType \cup {"free"}]
    /\ next \in First .. Limit
=============================================================================
