----------------------------- MODULE EventFifo -----------------------------
(***************************************************************************)
(* What the host's unified event queue promises its callers: a bounded     *)
(* FIFO.  A push either appends or is refused with false; a pop returns    *)
(* the oldest event or false; a flush removes every event of one type and  *)
(* keeps the others in order.  EventQueue implements it by a ring.         *)
(***************************************************************************)
EXTENDS BoundedFifo

CONSTANTS Event,       \* the 128-byte event records
          EventType,   \* the values of the type field of an event
          AllTypes,    \* the argument 0 of flush
          TypeOf       \* the type field of each event

VARIABLES contents,    \* the queued events, oldest first
          ret          \* what the last call returned

vars == <<contents, ret>>

Init ==
    /\ contents = << >>
    /\ ret = [op |-> "none"]

Push(e) ==
    /\ contents' = Offer(contents, e)
    /\ ret' = [op |-> "push", ok |-> Accepts(contents)]

PopSome ==
    /\ contents # << >>
    /\ contents' = Tail(contents)
    /\ ret' = [op |-> "pop", ok |-> TRUE, ev |-> Head(contents)]

PopNone ==
    /\ contents = << >>
    /\ ret' = [op |-> "pop", ok |-> FALSE]
    /\ UNCHANGED contents

FlushAll ==
    /\ contents' = << >>
    /\ ret' = [op |-> "flush", type |-> AllTypes]

FlushType(t) ==
    /\ IsSelection(contents', contents,
                   {i \in 1..Len(contents) : TypeOf[contents[i]] # t})
    /\ ret' = [op |-> "flush", type |-> t]

Next ==
    \/ \E e \in Event : Push(e)
    \/ PopSome
    \/ PopNone
    \/ FlushAll
    \/ \E t \in EventType : FlushType(t)

Spec == Init /\ [][Next]_vars
=============================================================================
