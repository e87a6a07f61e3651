---------------------------- MODULE BoundedFifo ----------------------------
(***************************************************************************)
(* Operators on a bounded first-in first-out queue of events, represented  *)
(* as a sequence.  They say what one call on g_rt.event_queue of           *)
(* wapi_host.h does to the sequence of queued events, and are shared by    *)
(* the abstract queue (EventFifo) and by the modules in which the queue is *)
(* one part among others (IoBridge, FrameLoop).                            *)
(***************************************************************************)
EXTENDS Naturals, Sequences

CONSTANT Size          \* WAPI_EVENT_QUEUE_SIZE

ASSUME SizeAssumption == Size \in Nat \ {0}

(* wapi_event_queue_push refuses the newest event, it never overwrites.    *)
Accepts(q)  == Len(q) < Size

(* Mutant: the result of the test is ignored.                              *)
Offer_unbounded(q, e) == Append(q, e)

Offer(q, e) == IF Accepts(q) THEN Append(q, e) ELSE q

(* The events of a sequence offered one after the other: the first that    *)
(* fit are taken, the others refused.                                      *)
Fitting(q, evs) == IF Len(q) + Len(evs) <= Size THEN Len(evs) ELSE Size - Len(q)

(* Mutant: all of them are taken.                                          *)
OfferAll_unbounded(q, evs) == q \o evs

OfferAll(q, evs) == q \o SubSeq(evs, 1, Fitting(q, evs))
Refused(q, evs) == SubSeq(evs, Fitting(q, evs) + 1, Len(evs))

(* An enumeration, in increasing order, of the set Keep of indices.  There *)
(* is exactly one; it is stated by its defining property rather than by    *)
(* recursion so that it can be reasoned about.                             *)
Enumerates(pos, n, Keep) ==
    /\ \A i, j \in 1..n : i < j => pos[i] < pos[j]
    /\ \A i \in 1..n : pos[i] \in Keep
    /\ \A k \in Keep : \E i \in 1..n : pos[i] = k

(* r is q without the elements whose indices are not in Keep, in order.    *)
IsSelection(r, q, Keep) ==
    \E n \in 0..Len(q) :
      \E pos \in [1..n -> 1..Len(q)] :
        /\ Enumerates(pos, n, Keep)
        /\ r = [i \in 1..n |-> q[pos[i]]]
=============================================================================
