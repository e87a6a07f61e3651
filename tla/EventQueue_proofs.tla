-------------------------- MODULE EventQueue_proofs ------------------------
(***************************************************************************)
(* The ring of EventQueue keeps its type and ring invariants, and          *)
(* implements the bounded FIFO of EventFifo, for every ring size and every *)
(* set of events.                                                          *)
(***************************************************************************)
EXTENDS EventQueue, SequenceTheorems, TLAPS

-----------------------------------------------------------------------------
(* Arithmetic modulo the size of the ring, for the sums that occur.        *)

(* One subtraction reduces a sum of two indices.                           *)
LEMMA ModOnce ==
    ASSUME NEW x \in Nat, x < 2 * Size
    PROVE  x % Size = IF x < Size THEN x ELSE x - Size
<1> USE SizeAssumption
<1>1. CASE x < Size
  BY <1>1
<1>2. CASE ~(x < Size)
  <2> DEFINE y == x - Size
  <2>1. y \in Nat /\ y < Size /\ x = y + Size
    BY <1>2
  <2>2. y % Size = y
    BY <2>1
  <2>3. (y + Size) % Size = y % Size
    BY <2>1, SMTT(30)
  <2> QED BY <1>2, <2>1, <2>2, <2>3
<1> QED BY <1>1, <1>2

(* Stepping b slots from a slot stays in the ring, wrapping at most once.  *)
LEMMA ModStep ==
    ASSUME NEW m \in Index, NEW b \in 0..Size
    PROVE  /\ (m + b) % Size = IF m + b < Size THEN m + b ELSE m + b - Size
           /\ (m + b) % Size \in Index
<1> USE SizeAssumption DEF Index
<1>1. m + b \in Nat /\ m + b < 2 * Size
  OBVIOUS
<1>2. (m + b) % Size = IF m + b < Size THEN m + b ELSE m + b - Size
  BY <1>1, ModOnce
<1> QED BY <1>1, <1>2

(* Counting from a counted slot is counting from the first one.            *)
LEMMA ModShift ==
    ASSUME NEW h \in Index, NEW a \in 0..Size, NEW b \in 0..Size,
           a + b <= Size
    PROVE  (((h + a) % Size) + b) % Size = (h + (a + b)) % Size
<1> USE SizeAssumption DEF Index
<1>1. PICK m \in Index : m = (h + a) % Size
  BY ModStep
<1>2. m = IF h + a < Size THEN h + a ELSE h + a - Size
  BY <1>1, ModStep
<1>3. (m + b) % Size = IF m + b < Size THEN m + b ELSE m + b - Size
  BY ModStep
<1>4. a + b \in 0..Size
  OBVIOUS
<1>5. (h + (a + b)) % Size
        = IF h + (a + b) < Size THEN h + (a + b) ELSE h + (a + b) - Size
  BY <1>4, ModStep
<1>6. (m + b) % Size = (h + (a + b)) % Size
  BY <1>2, <1>3, <1>5
<1> QED BY <1>1, <1>6

(* Distinct offsets below the size reach distinct slots.                   *)
LEMMA ModInjective ==
    ASSUME NEW h \in Index, NEW a \in 0..Size - 1, NEW b \in 0..Size - 1,
           (h + a) % Size = (h + b) % Size
    PROVE  a = b
<1> USE SizeAssumption DEF Index
<1>1. (h + a) % Size = IF h + a < Size THEN h + a ELSE h + a - Size
  BY ModStep
<1>2. (h + b) % Size = IF h + b < Size THEN h + b ELSE h + b - Size
  BY ModStep
<1> QED BY <1>1, <1>2

-----------------------------------------------------------------------------
(* What each call does to the queued events.                               *)

Inv == TypeOK /\ RingOK

(* The k-th queued event sits in its own slot of the ring.                 *)
LEMMA Slots ==
    ASSUME NEW h \in Index, NEW k \in 1..Size
    PROVE  /\ (h + k - 1) % Size \in Index
           /\ (h + k - 1) % Size = (h + (k - 1)) % Size
           /\ \A j \in 1..Size : (h + j - 1) % Size = (h + k - 1) % Size => j = k
<1> USE SizeAssumption
<1>1. \A j \in 1..Size : h + j - 1 = h + (j - 1) /\ j - 1 \in 0..Size - 1
  BY DEF Index
<1>2. (h + (k - 1)) % Size \in Index
  BY <1>1, ModStep
<1>3. \A j \in 1..Size : (h + (j - 1)) % Size = (h + (k - 1)) % Size
                           => j - 1 = k - 1
  BY <1>1, ModInjective
<1>4. \A j \in 1..Size : j - 1 = k - 1 => j = k
  OBVIOUS
<1> QED BY <1>1, <1>2, <1>3, <1>4

(* Under the invariant the contents are a sequence of events.              *)
LEMMA ContentsSeq ==
    ASSUME Inv
    PROVE  /\ Contents \in Seq(Event)
           /\ Len(Contents) = count
           /\ \A k \in 1..count : Contents[k] = At(k)
<1>1. \A k \in 1..count : At(k) \in Event
  BY DEF Inv, RingOK
<1>2. count \in Nat
  BY SizeAssumption DEF Inv, TypeOK
<1> QED BY <1>1, <1>2 DEF Contents

(* A stored push appends.                                                  *)
LEMMA PushAppends ==
    ASSUME Inv, NEW e \in Event, PushStored(e)
    PROVE  /\ Inv'
           /\ Contents' = Append(Contents, e)
<1> USE SizeAssumption
<1>1. /\ events \in [Index -> Event \cup {Zeroed}]
      /\ head \in Index /\ tail \in Index /\ count \in 0..Size
      /\ count < Size /\ count + 1 \in 1..Size
      /\ tail = (head + count) % Size
      /\ \A k \in 1..count : At(k) \in Event
  BY DEF Inv, TypeOK, RingOK, PushStored
<1>2. /\ events' = [events EXCEPT ![tail] = e]
      /\ head' = head /\ tail' = (tail + 1) % Size /\ count' = count + 1
      /\ ret' = [op |-> "push", ok |-> TRUE]
  BY DEF PushStored
<1>3. (head + (count + 1) - 1) % Size = tail
  <2>1. head + (count + 1) - 1 = head + count
    BY <1>1 DEF Index
  <2> QED BY <2>1, <1>1
<1>4. ASSUME NEW k \in 1..count'
      PROVE  At(k)' = IF k <= count THEN At(k) ELSE e
  <2>1. k \in 1..Size /\ (head + k - 1) % Size \in Index
    BY <1>1, <1>2, Slots
  <2>2. At(k)' = events'[(head + k - 1) % Size]
    BY <1>2 DEF At
  <2>3. CASE k <= count
    <3>1. (head + k - 1) % Size # tail
      BY <1>1, <1>3, <2>1, <2>3, Slots
    <3> QED BY <1>1, <1>2, <2>1, <2>2, <2>3, <3>1 DEF At
  <2>4. CASE k = count + 1
    BY <1>1, <1>2, <1>3, <2>2, <2>4
  <2> QED BY <1>1, <1>2, <2>3, <2>4
<1>5. TypeOK'
  <2>1. tail' \in Index
    BY <1>1, <1>2, ModStep
  <2> QED BY <1>1, <1>2, <2>1 DEF TypeOK, Results
<1>6. RingOK'
  <2>1. tail' = (head' + count') % Size
    BY <1>1, <1>2, ModShift
  <2>2. \A k \in 1..count' : At(k)' \in Event
    BY <1>1, <1>2, <1>4
  <2> QED BY <2>1, <2>2 DEF RingOK
<1>7. Contents' = Append(Contents, e)
  <2>1. Contents' = [k \in 1..count' |-> At(k)']
    BY DEF Contents
  <2>2. Contents' = [k \in 1..count + 1 |-> IF k <= count THEN At(k) ELSE e]
    BY <1>2, <1>4, <2>1
  <2>3. Append(Contents, e)
          = [k \in 1..count + 1 |-> IF k <= count THEN At(k) ELSE e]
    <3>1. /\ Contents \in Seq(Event) /\ Len(Contents) = count
          /\ \A k \in 1..count : Contents[k] = At(k)
      BY ContentsSeq
    <3>2. /\ Append(Contents, e) \in Seq(Event)
          /\ Len(Append(Contents, e)) = count + 1
          /\ \A k \in 1..count + 1 :
               Append(Contents, e)[k] = IF k <= count THEN Contents[k] ELSE e
      BY <3>1, AppendProperties
    <3> DEFINE a == Append(Contents, e)
    <3>3. a = [k \in 1..count + 1 |-> a[k]]
      <4>1. a \in Seq(Event) /\ Len(a) = count + 1
        BY <3>2
      <4> HIDE DEF a
      <4> QED BY <4>1
    <3> QED BY <3>1, <3>2, <3>3
  <2> QED BY <2>2, <2>3
<1> QED BY <1>5, <1>6, <1>7 DEF Inv

(* A pop takes the first event off.                                        *)
LEMMA PopTakesHead ==
    ASSUME Inv, PopSome
    PROVE  /\ Inv'
           /\ Contents # << >>
           /\ Contents' = Tail(Contents)
           /\ ret' = [op |-> "pop", ok |-> TRUE, ev |-> Head(Contents)]
<1> USE SizeAssumption
<1>1. /\ events \in [Index -> Event \cup {Zeroed}]
      /\ head \in Index /\ tail \in Index /\ count \in 1..Size
      /\ count - 1 \in 0..Size
      /\ tail = (head + count) % Size
      /\ \A k \in 1..count : At(k) \in Event
  BY DEF Inv, TypeOK, RingOK, PopSome
<1>2. /\ head' = (head + 1) % Size /\ count' = count - 1
      /\ ret' = [op |-> "pop", ok |-> TRUE, ev |-> events[head]]
      /\ events' = events /\ tail' = tail
  BY DEF PopSome
<1>3. /\ Contents \in Seq(Event) /\ Len(Contents) = count
      /\ \A k \in 1..count : Contents[k] = At(k)
  BY ContentsSeq
<1>4. Contents[1] = events[head]
  <2>1. head + 1 - 1 = head + 0
    BY <1>1 DEF Index
  <2>2. (head + 0) % Size = head
    <3>1. 0 \in 0..Size /\ head \in Nat /\ head < Size /\ head + 0 = head
      BY <1>1 DEF Index
    <3> QED BY <1>1, <3>1, ModStep
  <2> QED BY <1>1, <1>3, <2>1, <2>2 DEF At
<1>5. ASSUME NEW k \in 1..count'
      PROVE  At(k)' = At(k + 1)
  <2>1. (((head + 1) % Size) + (k - 1)) % Size = (head + (1 + (k - 1))) % Size
    <3>1. 1 \in 0..Size /\ k - 1 \in 0..Size /\ 1 + (k - 1) <= Size
      BY <1>1, <1>2
    <3> QED BY <1>1, <3>1, ModShift
  <2>2. (head' + k - 1) % Size = (head + (k + 1) - 1) % Size
    <3>1. head' \in Index
      BY <1>1, <1>2, ModStep
    <3>2. head' + k - 1 = ((head + 1) % Size) + (k - 1)
      BY <1>2, <3>1 DEF Index
    <3>3. head + (k + 1) - 1 = head + (1 + (k - 1))
      BY <1>1 DEF Index
    <3> QED BY <2>1, <3>2, <3>3
  <2> QED BY <1>2, <2>2 DEF At
<1>6. TypeOK'
  <2>1. head' \in Index
    BY <1>1, <1>2, ModStep
  <2>2. events[head] \in Event
    BY <1>1, <1>3, <1>4
  <2> QED BY <1>1, <1>2, <2>1, <2>2 DEF TypeOK, Results
<1>7. RingOK'
  <2>1. (((head + 1) % Size) + (count - 1)) % Size = (head + (1 + (count - 1))) % Size
    <3>1. 1 \in 0..Size /\ count - 1 \in 0..Size /\ 1 + (count - 1) <= Size
      BY <1>1
    <3> QED BY <1>1, <3>1, ModShift
  <2>2. 1 + (count - 1) = count
    BY <1>1
  <2>3. tail' = (head' + count') % Size
    BY <1>1, <1>2, <2>1, <2>2
  <2>4. \A k \in 1..count' : At(k)' \in Event
    BY <1>1, <1>2, <1>5
  <2> QED BY <2>3, <2>4 DEF RingOK
<1>8. Contents # << >> /\ Head(Contents) = events[head]
  BY <1>1, <1>3, <1>4
<1>9. Contents' = Tail(Contents)
  <2>1. Contents' = [k \in 1..count - 1 |-> At(k + 1)]
    BY <1>2, <1>5 DEF Contents
  <2>2. /\ Tail(Contents) \in Seq(Event)
        /\ Len(Tail(Contents)) = count - 1
        /\ \A k \in 1..count - 1 : Tail(Contents)[k] = Contents[k + 1]
    BY <1>1, <1>3, <1>8, HeadTailProperties
  <2>3. Tail(Contents) = [k \in 1..count - 1 |-> Tail(Contents)[k]]
    <3> DEFINE t == Tail(Contents)
    <3>1. t \in Seq(Event) /\ Len(t) = count - 1
      BY <2>2
    <3> HIDE DEF t
    <3>2. t = [k \in 1..count - 1 |-> t[k]]
      BY <3>1
    <3> QED BY <3>2 DEF t
  <2> QED BY <1>1, <1>3, <2>1, <2>2, <2>3
<1> QED BY <1>2, <1>6, <1>7, <1>8, <1>9 DEF Inv

(* Popping everything and pushing the survivors again selects, in order,   *)
(* the events of other types.                                              *)
LEMMA FlushSelects ==
    ASSUME Inv, NEW t \in EventType, FlushType(t)
    PROVE  /\ Inv'
           /\ Fifo!IsSelection(Contents', Contents,
                  {k \in 1..Len(Contents) : TypeOf[Contents[k]] # t})
           /\ ret' = [op |-> "flush", type |-> t]
<1> USE SizeAssumption
<1>1. /\ events \in [Index -> Event \cup {Zeroed}]
      /\ head \in Index /\ tail \in Index /\ count \in 0..Size
      /\ tail = (head + count) % Size
      /\ \A k \in 1..count : At(k) \in Event
  BY DEF Inv, TypeOK, RingOK
<1>2. /\ Contents \in Seq(Event) /\ Len(Contents) = count
      /\ \A k \in 1..count : Contents[k] = At(k)
  BY ContentsSeq
<1> DEFINE Keep == {k \in 1..count : TypeOf[At(k)] # t}
<1>3. PICK n \in 0..count : \E p \in [1..n -> 1..count] :
        /\ Fifo!Enumerates(p, n, Keep)
        /\ head' = (head + count) % Size
        /\ events' = [i \in Index |->
                        IF \E k \in 1..n : i = (tail + k - 1) % Size
                        THEN [k \in 1..n |-> At(p[k])][CHOOSE k \in 1..n :
                                    i = (tail + k - 1) % Size]
                        ELSE events[i]]
        /\ tail' = (tail + n) % Size
        /\ count' = n
        /\ ret' = [op |-> "flush", type |-> t]
  BY DEF FlushType, Survives
<1>4. PICK pos \in [1..n -> 1..count] :
        /\ Fifo!Enumerates(pos, n, Keep)
        /\ head' = (head + count) % Size
        /\ events' = [i \in Index |->
                        IF \E k \in 1..n : i = (tail + k - 1) % Size
                        THEN [k \in 1..n |-> At(pos[k])][CHOOSE k \in 1..n :
                                    i = (tail + k - 1) % Size]
                        ELSE events[i]]
        /\ tail' = (tail + n) % Size
        /\ count' = n
        /\ ret' = [op |-> "flush", type |-> t]
  BY <1>3
<1>5. head' = tail /\ n \in 0..Size /\ 1..n \subseteq 1..Size
  BY <1>1, <1>4
<1>6. ASSUME NEW k \in 1..n
      PROVE  At(k)' = At(pos[k]) /\ pos[k] \in 1..count
  <2> DEFINE s == (tail + k - 1) % Size
  <2>1. k \in 1..Size /\ s \in Index
    BY <1>1, <1>5, Slots
  <2>2. \A j \in 1..n : s = (tail + j - 1) % Size => j = k
    BY <1>1, <1>5, <2>1, Slots
  <2>3. (CHOOSE j \in 1..n : s = (tail + j - 1) % Size) = k
    BY <2>2
  <2>4. events'[s] = [j \in 1..n |-> At(pos[j])][k]
    BY <1>4, <2>1, <2>3
  <2>5. At(k)' = events'[s]
    BY <1>5 DEF At
  <2> QED BY <1>4, <2>4, <2>5
<1>7. ASSUME NEW i \in Index
      PROVE  events'[i] \in Event \cup {Zeroed}
  <2>1. CASE \E k \in 1..n : i = (tail + k - 1) % Size
    <3>1. PICK k \in 1..n : i = (tail + k - 1) % Size
      BY <2>1
    <3>2. events'[i] = At(k)'
      BY <1>5, <3>1 DEF At
    <3> QED BY <1>1, <1>6, <3>2
  <2>2. CASE ~ \E k \in 1..n : i = (tail + k - 1) % Size
    BY <1>1, <1>4, <2>2
  <2> QED BY <2>1, <2>2
<1>8. TypeOK'
  <2>1. tail' \in Index /\ head' \in Index
    BY <1>1, <1>4, <1>5, ModStep
  <2>2. events' \in [Index -> Event \cup {Zeroed}]
    BY <1>4, <1>7
  <2> QED BY <1>4, <1>5, <2>1, <2>2 DEF TypeOK, Results
<1>9. RingOK'
  <2>1. tail' = (head' + count') % Size
    BY <1>4, <1>5
  <2>2. \A k \in 1..count' : At(k)' \in Event
    BY <1>1, <1>4, <1>6
  <2> QED BY <2>1, <2>2 DEF RingOK
<1>10. Fifo!IsSelection(Contents', Contents,
                        {k \in 1..Len(Contents) : TypeOf[Contents[k]] # t})
  <2>1. {k \in 1..Len(Contents) : TypeOf[Contents[k]] # t} = Keep
    BY <1>2
  <2>2. Contents' = [k \in 1..n |-> At(k)']
    BY <1>4 DEF Contents
  <2>3. Contents' = [k \in 1..n |-> Contents[pos[k]]]
    BY <1>2, <1>6, <2>2
  <2>4. Fifo!IsSelection(Contents', Contents, Keep)
    BY <1>2, <1>4, <2>3 DEF Fifo!IsSelection
  <2> QED BY <2>1, <2>4
<1> QED BY <1>4, <1>8, <1>9, <1>10 DEF Inv

-----------------------------------------------------------------------------
(* The abstract specification's state functions, at the ring's contents.   *)

LEMMA InitOK == Init => Inv /\ Fifo!Init
<1> SUFFICES ASSUME Init PROVE Inv /\ Fifo!Init
  OBVIOUS
<1> USE SizeAssumption DEF Init
<1>1. 0 \in Index /\ (0 + 0) % Size = 0
  <2>1. 0 \in Index /\ 0 \in 0..Size
    BY DEF Index
  <2> QED BY <2>1, ModStep DEF Index
<1>2. TypeOK
  BY <1>1 DEF TypeOK, Results
<1>3. RingOK
  BY <1>1 DEF RingOK
<1>4. Contents = << >>
  BY DEF Contents
<1> QED BY <1>2, <1>3, <1>4 DEF Inv, Fifo!Init

(* A step of the ring keeps the invariant and is a step of the FIFO, or    *)
(* changes neither the contents nor the result.                            *)
LEMMA NextOK ==
    ASSUME Inv, [Next]_vars
    PROVE  Inv' /\ [Fifo!Next]_(Fifo!vars)
<1> USE SizeAssumption
<1>0. /\ Contents \in Seq(Event)
      /\ Len(Contents) = count
      /\ count \in 0..Size
  BY ContentsSeq DEF Inv, TypeOK
<1>1. ASSUME NEW e \in Event, PushRefused(e)
      PROVE  Inv' /\ Fifo!Next
  <2>1. Contents' = Contents
    BY <1>1 DEF PushRefused, Contents, At
  <2>2. Inv'
    BY <1>1 DEF PushRefused, Inv, TypeOK, RingOK, Results, At
  <2>3. ~ Fifo!Accepts(Contents)
    BY <1>0, <1>1 DEF PushRefused, Fifo!Accepts
  <2>4. Fifo!Accepts(Contents) = FALSE
    BY <2>3 DEF Fifo!Accepts
  <2>5. Fifo!Push(e)
    BY <1>1, <2>1, <2>4 DEF PushRefused, Fifo!Push, Fifo!Offer
  <2> QED BY <2>2, <2>5 DEF Fifo!Next
<1>2. ASSUME NEW e \in Event, PushStored(e)
      PROVE  Inv' /\ Fifo!Next
  <2>1. Inv' /\ Contents' = Append(Contents, e)
    BY <1>2, PushAppends
  <2>2. Fifo!Push(e)
    BY <1>0, <1>2, <2>1
       DEF PushStored, Fifo!Push, Fifo!Offer, Fifo!Accepts
  <2> QED BY <2>1, <2>2 DEF Fifo!Next
<1>3. CASE PopSome
  BY <1>3, PopTakesHead DEF Fifo!Next, Fifo!PopSome
<1>4. CASE PopNone
  <2>1. Contents' = Contents
    BY <1>4 DEF PopNone, Contents, At
  <2>2. Inv'
    BY <1>4 DEF PopNone, Inv, TypeOK, RingOK, Results, At
  <2>3. Fifo!PopNone
    BY <1>0, <1>4, <2>1 DEF PopNone, Fifo!PopNone
  <2> QED BY <2>2, <2>3 DEF Fifo!Next
<1>5. CASE FlushAll
  <2>1. 0 \in Index /\ 0 \in 0..Size
    BY DEF Index
  <2>2. (0 + 0) % Size = 0
    BY <2>1, ModStep DEF Index
  <2>3. Inv'
    BY <1>5, <2>1, <2>2 DEF FlushAll, Inv, TypeOK, RingOK, Results
  <2>4. Fifo!FlushAll
    BY <1>5 DEF FlushAll, Fifo!FlushAll, Contents
  <2> QED BY <2>3, <2>4 DEF Fifo!Next
<1>6. ASSUME NEW t \in EventType, FlushType(t)
      PROVE  Inv' /\ Fifo!Next
  BY <1>6, FlushSelects DEF Fifo!Next, Fifo!FlushType
<1>7. CASE UNCHANGED vars
  <2>1. UNCHANGED Fifo!vars
    BY <1>7 DEF vars, Fifo!vars, Contents, At
  <2>2. Inv'
    BY <1>7 DEF vars, Inv, TypeOK, RingOK, Results, At
  <2> QED BY <2>1, <2>2
<1> QED BY <1>1, <1>2, <1>3, <1>4, <1>5, <1>6, <1>7 DEF Next, Push

-----------------------------------------------------------------------------
(* The type invariant of the event queue (wapi_host.h:580-618), for every  *)
(* ring size: no call leaves the ring's indices or returns a record that   *)
(* no push stored.                                                         *)
THEOREM TypeCorrect == Spec => []TypeOK
<1>1. Init => Inv
  BY InitOK
<1>2. Inv /\ [Next]_vars => Inv'
  BY NextOK
<1>3. Inv => TypeOK
  BY DEF Inv
<1> QED BY <1>1, <1>2, <1>3, PTL DEF Spec

(* head, tail and count agree after every sequence of pushes, pops and     *)
(* flushes, and the slots between head and tail hold pushed events.        *)
THEOREM RingCorrect == Spec => []RingOK
<1>1. Init => Inv
  BY InitOK
<1>2. Inv /\ [Next]_vars => Inv'
  BY NextOK
<1>3. Inv => RingOK
  BY DEF Inv
<1> QED BY <1>1, <1>2, <1>3, PTL DEF Spec

(* The ring implements the bounded FIFO, results included: the abstraction *)
(* the other modules use of g_rt.event_queue.                              *)
THEOREM RingRefinesFifo == Spec => RefinesFifo
<1>1. Init => Inv /\ Fifo!Init
  BY InitOK
<1>2. Inv /\ [Next]_vars => Inv' /\ [Fifo!Next]_(Fifo!vars)
  BY NextOK
<1> QED BY <1>1, <1>2, PTL DEF Spec, RefinesFifo, Fifo!Spec
=============================================================================
