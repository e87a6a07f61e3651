----------------------------- MODULE EventQueue ----------------------------
(***************************************************************************)
(* g_rt.event_queue of runtime/desktop/src/wapi_host.h: a ring of Size     *)
(* event records with head, tail and count, all on the host's one thread.  *)
(* Each action is one call.  ret records what the call returned, so that   *)
(* the refinement of EventFifo compares results as well as contents.       *)
(***************************************************************************)
EXTENDS Naturals, Sequences

CONSTANTS Size,        \* WAPI_EVENT_QUEUE_SIZE
          Event,       \* the 128-byte event records
          EventType,   \* the values of the type field of an event
          AllTypes,    \* the argument 0 of flush
          TypeOf,      \* the type field of each event
          Zeroed       \* the content of a record never written

VARIABLES events,      \* events[0 .. Size-1]
          head, tail, count,
          ret          \* what the last call returned

ASSUME SizeAssumption == Size \in Nat \ {0}

ASSUME EventAssumption ==
    /\ TypeOf \in [Event -> EventType]
    /\ AllTypes \notin EventType
    /\ Zeroed \notin Event

vars == <<events, head, tail, count, ret>>

Index == 0 .. Size - 1

(* The queued events, oldest first, as the ring holds them.                *)
At(k)    == events[(head + k - 1) % Size]
Contents == [k \in 1..count |-> At(k)]

Fifo == INSTANCE EventFifo WITH contents <- Contents

Init ==
    /\ events = [i \in Index |-> Zeroed]
    /\ head = 0
    /\ tail = 0
    /\ count = 0
    /\ ret = [op |-> "none"]

PushRefused(e) ==
    /\ count >= Size
    /\ ret' = [op |-> "push", ok |-> FALSE]
    /\ UNCHANGED <<events, head, tail, count>>

(* Mutant: the bound is tested one too late.                               *)
PushStored_late(e) ==
    /\ count <= Size
    /\ events' = [events EXCEPT ![tail] = e]
    /\ tail' = (tail + 1) % Size
    /\ count' = count + 1
    /\ ret' = [op |-> "push", ok |-> TRUE]
    /\ UNCHANGED head

PushStored(e) ==
    /\ count < Size
    /\ events' = [events EXCEPT ![tail] = e]
    /\ tail' = (tail + 1) % Size
    /\ count' = count + 1
    /\ ret' = [op |-> "push", ok |-> TRUE]
    /\ UNCHANGED head

Push(e) == PushRefused(e) \/ PushStored(e)

(* Mutant: the record is copied after head has advanced.                   *)
PopSome_advanced ==
    /\ count # 0
    /\ head' = (head + 1) % Size
    /\ count' = count - 1
    /\ ret' = [op |-> "pop", ok |-> TRUE, ev |-> events[head']]
    /\ UNCHANGED <<events, tail>>

PopSome ==
    /\ count # 0
    /\ head' = (head + 1) % Size
    /\ count' = count - 1
    /\ ret' = [op |-> "pop", ok |-> TRUE, ev |-> events[head]]
    /\ UNCHANGED <<events, tail>>

PopNone ==
    /\ count = 0
    /\ ret' = [op |-> "pop", ok |-> FALSE]
    /\ UNCHANGED <<events, head, tail, count>>

(* Mutant: only the count is reset.                                        *)
FlushAll_countOnly ==
    /\ count' = 0
    /\ ret' = [op |-> "flush", type |-> AllTypes]
    /\ UNCHANGED <<events, head, tail>>

FlushAll ==
    /\ head' = 0
    /\ tail' = 0
    /\ count' = 0
    /\ ret' = [op |-> "flush", type |-> AllTypes]
    /\ UNCHANGED events

Survives(k, t) == TypeOf[At(k)] # t

(* Popping everything leaves head where the pops stopped; the survivors,   *)
(* held in the local array temp, are then pushed again from tail on.       *)
FlushType(t) ==
    \E n \in 0..count :
      \E pos \in [1..n -> 1..count] :
        LET temp == [k \in 1..n |-> At(pos[k])]
        IN  /\ Fifo!Enumerates(pos, n, {k \in 1..count : Survives(k, t)})
            /\ head' = (head + count) % Size
            /\ events' = [i \in Index |->
                            IF \E k \in 1..n : i = (tail + k - 1) % Size
                            THEN temp[CHOOSE k \in 1..n :
                                        i = (tail + k - 1) % Size]
                            ELSE events[i]]
            /\ tail' = (tail + n) % Size
            /\ count' = n
            /\ ret' = [op |-> "flush", type |-> t]

Next ==
    \/ \E e \in Event : Push(e)
    \/ PopSome
    \/ PopNone
    \/ FlushAll
    \/ \E t \in EventType : FlushType(t)

Spec == Init /\ [][Next]_vars

-----------------------------------------------------------------------------
Results ==
    [op : {"none"}]
      \cup [op : {"push", "pop"}, ok : BOOLEAN]
      \cup [op : {"pop"}, ok : {TRUE}, ev : Event]
      \cup [op : {"flush"}, type : EventType \cup {AllTypes}]

(* The variables keep their ranges; in particular a pop never returns a    *)
(* record that was never written.                                          *)
TypeOK ==
    /\ events \in [Index -> Event \cup {Zeroed}]
    /\ head \in Index
    /\ tail \in Index
    /\ count \in 0..Size
    /\ ret \in Results

(* The redundant third counter agrees with the other two, and every slot   *)
(* between head and tail holds an event that was pushed.                   *)
RingOK ==
    /\ tail = (head + count) % Size
    /\ \A k \in 1..count : At(k) \in Event

(* Every call of the ring is a call of the bounded FIFO with the same      *)
(* result -- a flush by type, written with pops and pushes through a local *)
(* array, leaves exactly the events of other types in their order, wherever*)
(* in the ring it starts: wapi_event_queue_push / _pop / _flush            *)
(* (wapi_host.h:580-618).                                                  *)
RefinesFifo == Fifo!Spec
=============================================================================
