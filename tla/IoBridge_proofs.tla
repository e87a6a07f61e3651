--------------------------- MODULE IoBridge_proofs -------------------------
(***************************************************************************)
(* Every operation submitted to IoBridge has exactly one fate, for every   *)
(* size of the event queue and of the timer table, any number of           *)
(* operations and any clock; and no timer is early.                        *)
(***************************************************************************)
EXTENDS IoBridge, SequenceTheorems, TLAPS

(* That an operation completes once needs that it is accounted for: its    *)
(* number is new because every number below it has a fate.                 *)
IInv == TypeOK /\ EveryOpAccounted /\ CompletesOnce

-----------------------------------------------------------------------------
(* Sequences of events.                                                    *)

LEMMA QueuedIn ==
    ASSUME NEW q
    PROVE  \A x : x \in QueuedOps(q) <=>
             \E i \in DOMAIN q : q[i].kind = "io" /\ q[i].id = x
BY DEF QueuedOps

(* Every operation in a queue of events has a number.                      *)
LEMMA QueuedOpIds ==
    ASSUME NEW q \in Seq(Event)
    PROVE  QueuedOps(q) \subseteq OpId
<1>1. \A i \in DOMAIN q : q[i] \in Event
  BY ElementOfSeq
<1>2. \A e \in Event : e.kind = "io" => e.id \in OpId
  BY DEF Event, InputEvent
<1> QED BY <1>1, <1>2, QueuedIn

(* An offered event is at the end of the queue or nowhere.                 *)
LEMMA OfferEvent ==
    ASSUME NEW q \in Seq(Event), Len(q) <= Size, NEW e \in Event
    PROVE  /\ Offer(q, e) \in Seq(Event)
           /\ Len(Offer(q, e)) <= Size
           /\ Accepts(q) => \A x : x \in QueuedOps(Offer(q, e)) <=>
                              \/ x \in QueuedOps(q)
                              \/ e.kind = "io" /\ e.id = x
           /\ QueuedOnce(q) /\ (e.kind = "io" => e.id \notin QueuedOps(q))
                => QueuedOnce(Offer(q, e))
<1>1. CASE ~Accepts(q)
  BY <1>1 DEF Offer
<1>2. CASE Accepts(q)
  <2> DEFINE r == Append(q, e)
  <2>1. Offer(q, e) = r
    BY <1>2 DEF Offer
  <2>2. /\ r \in Seq(Event) /\ Len(r) = Len(q) + 1 /\ Len(q) \in Nat
        /\ DOMAIN q = 1 .. Len(q) /\ DOMAIN r = 1 .. Len(q) + 1
        /\ \A i \in DOMAIN q : r[i] = q[i]
        /\ r[Len(q) + 1] = e
    OBVIOUS
  <2>3. Len(r) <= Size
    BY <2>2, <1>2, SizeAssumption DEF Accepts
  <2> HIDE DEF r
  <2>4. DOMAIN r = DOMAIN q \cup {Len(q) + 1}
    BY <2>2
  <2>5. \A x : x \in QueuedOps(r) <=>
                 x \in QueuedOps(q) \/ (e.kind = "io" /\ e.id = x)
    BY <2>2, <2>4, QueuedIn
  <2>6. QueuedOnce(q) /\ (e.kind = "io" => e.id \notin QueuedOps(q))
          => QueuedOnce(r)
    <3> SUFFICES ASSUME QueuedOnce(q), e.kind = "io" => e.id \notin QueuedOps(q),
                        NEW i \in DOMAIN r, NEW j \in DOMAIN r,
                        r[i].kind = "io", r[j].kind = "io", r[i].id = r[j].id
                 PROVE  i = j
      BY DEF QueuedOnce
    <3>1. CASE i \in DOMAIN q /\ j \in DOMAIN q
      BY <3>1, <2>2 DEF QueuedOnce
    <3>2. CASE i \in DOMAIN q /\ j = Len(q) + 1
      BY <3>2, <2>2, QueuedIn
    <3>3. CASE i = Len(q) + 1 /\ j \in DOMAIN q
      BY <3>3, <2>2, QueuedIn
    <3> QED BY <2>4, <3>1, <3>2, <3>3
  <2> QED BY <2>1, <2>2, <2>3, <2>5, <2>6
<1> QED BY <1>1, <1>2

(* A completion is queued or, with the queue full, lost.                   *)
LEMMA CompleteEffect ==
    ASSUME QueueTypeOK, NEW id \in OpId, NEW ud \in UserData, NEW res \in Result,
           Complete(id, ud, res)
    PROVE  /\ queue' \in Seq(Event) /\ Len(queue') <= Size
           /\ wake' \in BOOLEAN
           /\ \/ Queued' = Queued \cup {id} /\ lost' = lost
              \/ Queued' = Queued /\ lost' = lost \cup {id}
           /\ QueuedOnce(queue) /\ id \notin Queued => QueuedOnce(queue)'
<1> DEFINE e == Completion(id, ud, res)
<1>1. e \in Event /\ e.kind = "io" /\ e.id = id
  BY DEF Completion, Event
<1>2. queue' = Offer(queue, e) /\ wake' = TRUE /\
        lost' = IF Accepts(queue) THEN lost ELSE lost \cup {id}
  BY DEF Complete
<1> HIDE DEF e
<1>3. /\ queue' \in Seq(Event) /\ Len(queue') <= Size
      /\ Accepts(queue) => \A x : x \in QueuedOps(queue') <=>
                                    x \in QueuedOps(queue) \/ x = id
      /\ QueuedOnce(queue) /\ id \notin Queued => QueuedOnce(queue')
  BY <1>1, <1>2, OfferEvent DEF QueueTypeOK, Queued
<1>4. ~Accepts(queue) => queue' = queue
  BY <1>2 DEF Offer
<1>5. \/ Queued' = Queued \cup {id} /\ lost' = lost
      \/ Queued' = Queued /\ lost' = lost \cup {id}
  BY <1>2, <1>3, <1>4 DEF Queued
<1> QED BY <1>2, <1>3, <1>5

(* Removing events from a queue of distinct completions leaves it so.      *)
LEMMA SelectionOnce ==
    ASSUME NEW q \in Seq(Event), NEW Keep, NEW r, IsSelection(r, q, Keep),
           Keep \subseteq DOMAIN q
    PROVE  /\ r \in Seq(Event) /\ Len(r) <= Len(q)
           /\ \A x : x \in QueuedOps(r) <=>
                \E i \in Keep : q[i].kind = "io" /\ q[i].id = x
           /\ QueuedOnce(q) => QueuedOnce(r)
<1>0. PICK n \in 0..Len(q) :
        \E pos \in [1..n -> 1..Len(q)] :
          Enumerates(pos, n, Keep) /\ r = [i \in 1..n |-> q[pos[i]]]
  BY DEF IsSelection
<1>1. PICK pos \in [1..n -> 1..Len(q)] :
        Enumerates(pos, n, Keep) /\ r = [i \in 1..n |-> q[pos[i]]]
  BY <1>0
<1>2. DOMAIN q = 1 .. Len(q) /\ Len(q) \in Nat /\ n \in Nat
      /\ \A i \in 1..n : pos[i] \in DOMAIN q
  BY <1>1
<1>3. \A i \in 1..n : q[pos[i]] \in Event
  BY <1>2
<1>4. r \in Seq(Event) /\ Len(r) = n /\ DOMAIN r = 1..n
  BY <1>1, <1>2, <1>3
<1>5. \A x : x \in QueuedOps(r) <=>
             \E i \in Keep : q[i].kind = "io" /\ q[i].id = x
  <2>1. \A i \in 1..n : r[i] = q[pos[i]] /\ pos[i] \in Keep
    BY <1>1 DEF Enumerates
  <2>2. \A k \in Keep : \E i \in 1..n : pos[i] = k
    BY <1>1 DEF Enumerates
  <2>3. \A x : x \in QueuedOps(r) <=>
               \E i \in 1..n : r[i].kind = "io" /\ r[i].id = x
    BY <1>4, QueuedIn
  <2>4. ASSUME NEW x, NEW i \in 1..n, r[i].kind = "io", r[i].id = x
        PROVE  \E k \in Keep : q[k].kind = "io" /\ q[k].id = x
    BY <2>1, <2>4
  <2>5. ASSUME NEW x, NEW k \in Keep, q[k].kind = "io", q[k].id = x
        PROVE  \E i \in 1..n : r[i].kind = "io" /\ r[i].id = x
    <3>1. PICK i \in 1..n : pos[i] = k
      BY <2>2
    <3> QED BY <2>1, <2>5, <3>1
  <2> QED BY <2>3, <2>4, <2>5
<1>6. QueuedOnce(q) => QueuedOnce(r)
  <2>1. \A i, j \in 1..n : pos[i] = pos[j] => i = j
    BY <1>1, <1>2 DEF Enumerates
  <2> QED BY <1>1, <1>2, <1>4, <2>1 DEF QueuedOnce
<1>7. Len(r) <= Len(q)
  BY <1>1, <1>4
<1> QED BY <1>4, <1>5, <1>6, <1>7

-----------------------------------------------------------------------------
(* The timer table.                                                        *)

LEMMA ArmedIn ==
    \A x : x \in Armed <=>
             \E i \in DOMAIN timers : timers[i].active /\ timers[i].id = x
BY DEF Armed

LEMMA TimerFields ==
    ASSUME TimersTypeOK, NEW i \in DOMAIN timers
    PROVE  /\ timers[i] \in Timer
           /\ timers[i].id \in OpId /\ timers[i].ud \in UserData
           /\ timers[i].active \in BOOLEAN
<1>1. timers[i] \in Timer
  BY ElementOfSeq, LenProperties DEF TimersTypeOK
<1> QED BY <1>1 DEF Timer

(* Cancellation and expiry take one timer out of the table's armed ones.   *)
LEMMA Disarm ==
    ASSUME TimersTypeOK, NEW s \in DOMAIN timers, timers[s].active,
           timers' = [timers EXCEPT ![s].active = FALSE], ioq' = ioq
    PROVE  /\ TimersTypeOK'
           /\ timers[s].id \in Armed
           /\ ArmedOnce => ArmedOnce' /\ Armed' = Armed \ {timers[s].id}
<1>1. timers' = [timers EXCEPT ![s] = [timers[s] EXCEPT !.active = FALSE]]
  OBVIOUS
<1>2. [timers[s] EXCEPT !.active = FALSE] \in Timer
  BY TimerFields DEF Timer
<1>3. timers \in Seq(Timer) /\ s \in 1 .. Len(timers)
      /\ DOMAIN timers = 1 .. Len(timers)
  BY DEF TimersTypeOK
<1>4. timers' \in Seq(Timer) /\ Len(timers') = Len(timers)
  BY <1>1, <1>2, <1>3, ExceptSeq
<1>5. DOMAIN timers' = DOMAIN timers
  OBVIOUS
<1>6. /\ \A i \in DOMAIN timers \ {s} : timers'[i] = timers[i]
      /\ ~timers'[s].active
  BY <1>1, TimerFields DEF Timer
<1>7. TimersTypeOK'
  BY <1>3, <1>4 DEF TimersTypeOK
<1>8. ArmedOnce => ArmedOnce'
  BY <1>5, <1>6 DEF ArmedOnce
<1>9. ASSUME ArmedOnce
      PROVE  \A x : x \in Armed' <=> x \in Armed /\ x # timers[s].id
  <2>1. \A x : x \in Armed' <=>
             \E i \in DOMAIN timers' : timers'[i].active /\ timers'[i].id = x
    BY DEF Armed
  <2> QED BY <1>5, <1>6, <1>9, <2>1, ArmedIn DEF ArmedOnce
<1>10. timers[s].id \in Armed
  BY ArmedIn
<1> QED BY <1>7, <1>8, <1>9, <1>10

(* While a submit runs there is a number for its next operation.           *)
LEMMA NextNumber ==
    ASSUME OpsTypeOK, CallTypeOK, pc = "submit"
    PROVE  nextId \in OpId /\ batch \in Nat \ {0} /\ MaxOps \in Nat
<1>1. batch \in Nat /\ batch > 0
  BY DEF CallTypeOK
<1>2. nextId \in 1 .. MaxOps + 1 /\ nextId + batch <= MaxOps + 1
  BY DEF OpsTypeOK
<1>3. MaxOps \in Nat
  BY IoBridgeAssumption
<1> QED BY <1>1, <1>2, <1>3 DEF OpId

(* The slot of a new timer is free: an inactive one or the next unused.    *)
LEMMA Arm ==
    ASSUME TimersTypeOK, EnvTypeOK, OpsTypeOK, CallTypeOK,
           NEW ud \in UserData, NEW dl \in 0 .. ClockRange - 1, NEW due \in Nat,
           TimerArmed(ud, dl, due)
    PROVE  /\ TimersTypeOK'
           /\ Armed' = Armed \cup {nextId}
           /\ ArmedOnce /\ nextId \notin Armed => ArmedOnce'
<1> DEFINE t == [id |-> nextId, ud |-> ud, deadline |-> dl, due |-> due,
                 active |-> TRUE]
<1>1. /\ pc = "submit" /\ Len(timers) < MaxTimers /\ ioq' = TRUE
      /\ \E s \in 1 .. Len(timers) + 1 :
           /\ TimerSlot(s)
           /\ timers' = [i \in DOMAIN timers \cup {s} |->
                           IF i = s THEN t ELSE timers[i]]
  BY DEF TimerArmed
<1>2. PICK s \in 1 .. Len(timers) + 1 :
        /\ TimerSlot(s)
        /\ timers' = [i \in DOMAIN timers \cup {s} |->
                        IF i = s THEN t ELSE timers[i]]
  BY <1>1
<1>3. nextId \in OpId
  BY <1>1, NextNumber
<1>4. t \in Timer /\ t.id = nextId /\ t.active
  BY <1>3 DEF Timer
<1> HIDE DEF t
<1>5. /\ timers \in Seq(Timer) /\ Len(timers) \in Nat
      /\ DOMAIN timers = 1 .. Len(timers)
      /\ \A i \in DOMAIN timers : timers[i] \in Timer
  BY DEF TimersTypeOK
<1>6. s \in DOMAIN timers => ~timers[s].active
  BY <1>2, <1>5 DEF TimerSlot, Inactive
<1>7. PICK n \in Nat : n <= MaxTimers /\ DOMAIN timers \cup {s} = 1 .. n
  <2>1. CASE s \in DOMAIN timers
    BY <2>1, <1>1, <1>5, IoBridgeAssumption
  <2>2. CASE s = Len(timers) + 1
    <3>1. Len(timers) + 1 \in Nat /\ Len(timers) + 1 <= MaxTimers
      BY <1>1, <1>5, IoBridgeAssumption
    <3>2. DOMAIN timers \cup {s} = 1 .. Len(timers) + 1
      BY <2>2, <1>5
    <3> QED BY <3>1, <3>2
  <2> QED BY <2>1, <2>2, <1>5
<1>8. timers' = [i \in 1 .. n |-> IF i = s THEN t ELSE timers[i]]
  BY <1>2, <1>7
<1>9. timers' \in Seq(Timer) /\ Len(timers') = n /\ DOMAIN timers' = 1 .. n
  <2>1. \A i \in 1 .. n : (IF i = s THEN t ELSE timers[i]) \in Timer
    BY <1>4, <1>5, <1>7
  <2> QED BY <2>1, <1>8
<1>10. TimersTypeOK'
  BY <1>1, <1>7, <1>9 DEF TimersTypeOK
<1>11. /\ DOMAIN timers' = DOMAIN timers \cup {s}
       /\ \A i \in DOMAIN timers \ {s} : timers'[i] = timers[i]
       /\ timers'[s] = t
  BY <1>7, <1>8, <1>9
<1>12. \A x : x \in Armed' <=> x \in Armed \/ x = nextId
  <2>1. \A x : x \in Armed' <=>
             \E i \in DOMAIN timers' : timers'[i].active /\ timers'[i].id = x
    BY DEF Armed
  <2> QED BY <1>4, <1>6, <1>11, <2>1, ArmedIn
<1>13. ArmedOnce /\ nextId \notin Armed => ArmedOnce'
  BY <1>4, <1>11, ArmedIn DEF ArmedOnce
<1> QED BY <1>10, <1>12, <1>13

-----------------------------------------------------------------------------
(* The fates of the operations, as sets.                                   *)

(* The next number has no fate yet.                                        *)
LEMMA NextFresh ==
    ASSUME EveryOpAccounted, OpsTypeOK
    PROVE  nextId \notin silent \cup Armed \cup Queued \cup delivered
                           \cup lost \cup flushed
<1>1. nextId \in Nat
  BY IoBridgeAssumption DEF OpsTypeOK
<1>2. nextId \notin Issued
  BY <1>1 DEF Issued
<1> QED BY <1>2 DEF EveryOpAccounted

(* A submitted operation gets exactly one fate.                            *)
LEMMA FateGiven ==
    ASSUME EveryOpAccounted, FatesDisjoint, OpsTypeOK, nextId' = nextId + 1,
           delivered' = delivered, flushed' = flushed,
           \/ /\ silent' = silent \cup {nextId} /\ Armed' = Armed
              /\ Queued' = Queued /\ lost' = lost
           \/ /\ silent' = silent /\ Armed' = Armed \cup {nextId}
              /\ Queued' = Queued /\ lost' = lost
           \/ /\ silent' = silent /\ Armed' = Armed
              /\ Queued' = Queued \cup {nextId} /\ lost' = lost
           \/ /\ silent' = silent /\ Armed' = Armed
              /\ Queued' = Queued /\ lost' = lost \cup {nextId}
    PROVE  EveryOpAccounted' /\ FatesDisjoint'
<1>1. nextId \in Nat \ {0}
  BY IoBridgeAssumption DEF OpsTypeOK
<1>2. Issued' = Issued \cup {nextId}
  BY <1>1 DEF Issued
<1>3. EveryOpAccounted'
  BY <1>2 DEF EveryOpAccounted
<1>4. FatesDisjoint'
  BY NextFresh DEF FatesDisjoint, OneFate
<1> QED BY <1>3, <1>4

(* A timer that expires or is cancelled exchanges its fate for another.    *)
LEMMA FateMoved ==
    ASSUME EveryOpAccounted, FatesDisjoint, NEW id \in Armed,
           nextId' = nextId, silent' = silent,
           delivered' = delivered, flushed' = flushed,
           Armed' = Armed \ {id},
           \/ Queued' = Queued \cup {id} /\ lost' = lost
           \/ Queued' = Queued /\ lost' = lost \cup {id}
    PROVE  EveryOpAccounted' /\ FatesDisjoint'
<1>1. Issued' = Issued
  BY DEF Issued
<1>2. EveryOpAccounted'
  BY <1>1 DEF EveryOpAccounted
<1>3. FatesDisjoint'
  BY DEF FatesDisjoint, OneFate
<1> QED BY <1>2, <1>3

(* Completions leave the queue for the guest, or by a flush.               *)
LEMMA FateTaken ==
    ASSUME EveryOpAccounted, FatesDisjoint, NEW S, Queued' = Queued \ S,
           S \subseteq Queued,
           nextId' = nextId, silent' = silent, lost' = lost, Armed' = Armed,
           \/ delivered' = delivered \cup S /\ flushed' = flushed
           \/ delivered' = delivered /\ flushed' = flushed \cup S
    PROVE  EveryOpAccounted' /\ FatesDisjoint'
<1>1. Issued' = Issued
  BY DEF Issued
<1>2. EveryOpAccounted'
  BY <1>1 DEF EveryOpAccounted
<1>3. FatesDisjoint'
  BY DEF FatesDisjoint, OneFate
<1> QED BY <1>2, <1>3

-----------------------------------------------------------------------------
(* The steps that several actions share.                                   *)

(* A step that moves neither events nor timers.                            *)
LEMMA ControlInvariant ==
    ASSUME IInv, UNCHANGED <<queue, hostVars, nextId, lost, guestVars>>,
           wake' \in BOOLEAN, EnvTypeOK', CallTypeOK',
           nextId + batch' <= MaxOps + 1
    PROVE  IInv'
<1> USE DEF IInv, TypeOK, hostVars, guestVars
<1>1. QueueTypeOK' /\ TimersTypeOK' /\ OpsTypeOK'
  BY DEF QueueTypeOK, TimersTypeOK, OpsTypeOK
<1>2. EveryOpAccounted'
  BY DEF EveryOpAccounted, Issued, Armed, Queued
<1>3. CompletesOnce'
  BY DEF CompletesOnce, FatesDisjoint, OneFate, QueuedOnce, ArmedOnce,
         Armed, Queued
<1> QED BY <1>1, <1>2, <1>3

(* A call that returns leaves nothing of itself behind.                    *)
LEMMA ReturnType ==
    ASSUME ReturnToGuest, batch' \in Nat
    PROVE  CallTypeOK'
<1>1. pc' = "guest" /\ call' = "none" /\ until' = 0 /\ scan' = 1 /\ scanNow' = 0
  BY DEF ReturnToGuest
<1>2. until' \in Nat \cup {Forever} /\ scan' \in Nat \ {0} /\ scanNow' \in Nat
  BY <1>1
<1>3. /\ pc' \in {"guest", "submit", "pump", "check", "pop", "blocked"}
      /\ call' \in {"none", "submit", "poll", "wait", "wait again", "frame"}
      /\ pc' # "submit"
  BY <1>1
<1> QED BY <1>2, <1>3 DEF CallTypeOK

(* An operation has been read and served.                                  *)
LEMMA OpDoneType ==
    ASSUME TypeOK, pc = "submit", OpDone,
           silent' \subseteq OpId, lost' \subseteq OpId,
           delivered' = delivered, flushed' = flushed
    PROVE  CallTypeOK' /\ OpsTypeOK' /\ nextId' = nextId + 1
<1> USE DEF TypeOK
<1>1. nextId \in 1 .. MaxOps /\ batch \in Nat \ {0} /\ MaxOps \in Nat
  BY NextNumber DEF OpId
<1>2. nextId' = nextId + 1 /\ batch' = batch - 1
  BY DEF OpDone
<1>3. nextId + batch <= MaxOps + 1
  BY DEF OpsTypeOK
<1>4. nextId' \in 1 .. MaxOps + 1 /\ nextId' + batch' <= MaxOps + 1
        /\ batch' \in Nat
  BY <1>1, <1>2, <1>3
<1>5. OpsTypeOK'
  BY <1>4 DEF OpsTypeOK
<1>6. CASE batch = 1
  BY <1>2, <1>4, <1>5, <1>6, ReturnType DEF OpDone
<1>7. CASE batch # 1
  <2>1. batch' > 0
    BY <1>7, <1>1, <1>2
  <2> QED BY <1>2, <1>4, <1>5, <1>7, <2>1 DEF OpDone, CallTypeOK
<1> QED BY <1>6, <1>7

(* An operation that completes on the spot, with whatever result.          *)
LEMMA ServedInvariant ==
    ASSUME IInv, pc = "submit", NEW ud \in UserData, NEW res \in Result,
           Complete(nextId, ud, res), OpDone,
           UNCHANGED <<guestVars, timers, envVars>>,
           ioq' \in BOOLEAN, ~ioq' => timers = << >>
    PROVE  IInv'
<1> USE DEF IInv, TypeOK, guestVars, envVars
<1>1. nextId \in OpId
  BY NextNumber
<1>2. /\ queue' \in Seq(Event) /\ Len(queue') <= Size
      /\ wake' \in BOOLEAN
      /\ \/ Queued' = Queued \cup {nextId} /\ lost' = lost
         \/ Queued' = Queued /\ lost' = lost \cup {nextId}
      /\ QueuedOnce(queue) /\ nextId \notin Queued => QueuedOnce(queue)'
  BY <1>1, CompleteEffect
<1>3. lost' \subseteq OpId /\ silent' \subseteq OpId
  BY <1>1, <1>2 DEF OpsTypeOK
<1>4. CallTypeOK' /\ OpsTypeOK' /\ nextId' = nextId + 1
  BY <1>3, OpDoneType
<1>5. QueueTypeOK' /\ TimersTypeOK' /\ EnvTypeOK'
  BY <1>2 DEF QueueTypeOK, TimersTypeOK, EnvTypeOK
<1>6. Armed' = Armed /\ ArmedOnce'
  BY DEF Armed, ArmedOnce, CompletesOnce
<1>7. EveryOpAccounted' /\ FatesDisjoint'
  BY <1>2, <1>4, <1>6, FateGiven DEF CompletesOnce
<1>8. QueuedOnce(queue)'
  BY <1>2, NextFresh DEF CompletesOnce
<1> QED BY <1>4, <1>5, <1>6, <1>7, <1>8 DEF CompletesOnce

(* A timer becomes inactive and its completion is posted.                  *)
LEMMA DisarmInvariant ==
    ASSUME IInv, NEW s \in DOMAIN timers, timers[s].active,
           timers' = [timers EXCEPT ![s].active = FALSE], ioq' = ioq,
           NEW res \in Result, Complete(timers[s].id, timers[s].ud, res),
           UNCHANGED <<nextId, guestVars, envVars, batch>>, CallTypeOK'
    PROVE  IInv'
<1> USE DEF IInv, TypeOK, guestVars, envVars
<1>1. PICK id \in OpId, ud \in UserData :
        id = timers[s].id /\ ud = timers[s].ud
  BY TimerFields
<1>2. /\ TimersTypeOK' /\ ArmedOnce'
      /\ id \in Armed /\ Armed' = Armed \ {id}
  BY <1>1, Disarm DEF CompletesOnce
<1>3. id \notin Queued
  BY <1>2 DEF CompletesOnce, FatesDisjoint, OneFate
<1>4. Complete(id, ud, res)
  BY <1>1
<1>5. /\ queue' \in Seq(Event) /\ Len(queue') <= Size
      /\ wake' \in BOOLEAN
      /\ \/ Queued' = Queued \cup {id} /\ lost' = lost
         \/ Queued' = Queued /\ lost' = lost \cup {id}
      /\ QueuedOnce(queue) /\ id \notin Queued => QueuedOnce(queue)'
  BY <1>4, CompleteEffect
<1>6. EveryOpAccounted' /\ FatesDisjoint'
  BY <1>2, <1>5, FateMoved DEF CompletesOnce
<1>7. QueuedOnce(queue)'
  BY <1>3, <1>5 DEF CompletesOnce
<1>8. QueueTypeOK' /\ EnvTypeOK' /\ OpsTypeOK'
  BY <1>5 DEF QueueTypeOK, EnvTypeOK, OpsTypeOK
<1> QED BY <1>2, <1>6, <1>7, <1>8 DEF CompletesOnce

-----------------------------------------------------------------------------
LEMMA InitInvariant == Init => IInv
<1> SUFFICES ASSUME Init PROVE IInv
  OBVIOUS
<1> USE IoBridgeAssumption, SizeAssumption DEF Init
<1>1. QueueTypeOK /\ TimersTypeOK
  <2>1. << >> \in Seq(Event) /\ << >> \in Seq(Timer) /\ Len(<< >>) = 0
    BY EmptySeq
  <2>2. 0 <= Size /\ 0 <= MaxTimers
    OBVIOUS
  <2> QED BY <2>1, <2>2 DEF QueueTypeOK, TimersTypeOK
<1>2. EnvTypeOK /\ CallTypeOK
  BY DEF EnvTypeOK, CallTypeOK
<1>3. OpsTypeOK
  BY DEF OpsTypeOK
<1>4. Armed = {} /\ Queued = {}
  BY DEF Armed, Queued, QueuedOps
<1>5. EveryOpAccounted
  BY <1>4 DEF EveryOpAccounted, Issued
<1>6. FatesDisjoint
  BY <1>4 DEF FatesDisjoint, OneFate
<1>7. QueuedOnce(queue) /\ ArmedOnce
  BY DEF QueuedOnce, ArmedOnce
<1> QED BY <1>1, <1>2, <1>3, <1>5, <1>6, <1>7 DEF IInv, TypeOK, CompletesOnce

(* Submitting.                                                             *)
LEMMA SubmitInvariant ==
    ASSUME IInv, SubmitOp \/ \E n \in 1..MaxBatch : Submit(n)
    PROVE  IInv'
<1> USE DEF IInv, TypeOK
<1>1. ASSUME NEW n \in 1..MaxBatch, Submit(n) PROVE IInv'
  <2>1. /\ UNCHANGED <<queue, hostVars, nextId, lost, guestVars, wake, envVars>>
        /\ batch' = n /\ n > 0 /\ n \in Nat /\ nextId + n - 1 <= MaxOps
        /\ pc' = "submit" /\ call' = "submit"
        /\ UNCHANGED <<until, scan, scanNow>>
    BY <1>1, IoBridgeAssumption DEF Submit
  <2>2. CallTypeOK' /\ EnvTypeOK'
    BY <2>1 DEF CallTypeOK, EnvTypeOK, envVars
  <2>3. nextId + batch' <= MaxOps + 1
    BY <2>1, IoBridgeAssumption DEF OpsTypeOK
  <2> QED BY <2>1, <2>2, <2>3, ControlInvariant DEF QueueTypeOK
<1>2. ASSUME NEW ud \in UserData, OpSync(ud) PROVE IInv'
  BY <1>2, ServedInvariant DEF OpSync, hostVars, Result, TimersTypeOK
<1>3. CASE OpLog
  <2>1. /\ pc = "submit" /\ OpDone /\ silent' = silent \cup {nextId}
        /\ UNCHANGED <<queue, wake, lost, delivered, flushed, hostVars, envVars>>
    BY <1>3 DEF OpLog
  <2>2. lost' \subseteq OpId /\ silent' \subseteq OpId
    BY <2>1, NextNumber DEF OpsTypeOK
  <2>3. CallTypeOK' /\ OpsTypeOK' /\ nextId' = nextId + 1
    BY <2>1, <2>2, OpDoneType
  <2>4. QueueTypeOK' /\ TimersTypeOK' /\ EnvTypeOK'
    BY <2>1 DEF QueueTypeOK, TimersTypeOK, EnvTypeOK, hostVars, envVars
  <2>5. Armed' = Armed /\ ArmedOnce' /\ Queued' = Queued /\ QueuedOnce(queue)'
    BY <2>1 DEF Armed, ArmedOnce, Queued, CompletesOnce, QueuedOnce, hostVars
  <2>6. EveryOpAccounted' /\ FatesDisjoint'
    BY <2>1, <2>3, <2>5, FateGiven DEF CompletesOnce
  <2> QED BY <2>3, <2>4, <2>5, <2>6 DEF CompletesOnce
<1>4. ASSUME NEW ud \in UserData, TimerRefused(ud) PROVE IInv'
  BY <1>4, ServedInvariant DEF TimerRefused, Result, TimersTypeOK
<1>5. ASSUME NEW ud \in UserData, NEW dl \in 0 .. ClockRange - 1,
             NEW due \in Nat, TimerArmed(ud, dl, due)
      PROVE  IInv'
  <2>1. /\ pc = "submit" /\ OpDone
        /\ UNCHANGED <<queue, wake, lost, guestVars, envVars>>
    BY <1>5 DEF TimerArmed
  <2>2. CallTypeOK' /\ OpsTypeOK' /\ nextId' = nextId + 1
    BY <2>1, OpDoneType DEF OpsTypeOK, guestVars
  <2>3. QueueTypeOK' /\ EnvTypeOK'
    BY <2>1 DEF QueueTypeOK, EnvTypeOK, envVars
  <2>4. /\ TimersTypeOK' /\ Armed' = Armed \cup {nextId}
        /\ ArmedOnce /\ nextId \notin Armed => ArmedOnce'
    BY <1>5, Arm
  <2>5. ArmedOnce'
    BY <2>4, NextFresh DEF CompletesOnce
  <2>6. Queued' = Queued /\ QueuedOnce(queue)'
    BY <2>1 DEF Queued, CompletesOnce, QueuedOnce
  <2>7. EveryOpAccounted' /\ FatesDisjoint'
    BY <2>1, <2>2, <2>4, <2>6, FateGiven DEF CompletesOnce, guestVars
  <2> QED BY <2>2, <2>3, <2>4, <2>5, <2>6, <2>7 DEF CompletesOnce
<1>6. ASSUME NEW ud \in UserData, NEW off \in Offset,
             OpTimeout(ud, off) \/ OpTimeoutAbs(ud, off)
      PROVE  IInv'
  <2>1. off \in 0 .. ClockRange - 1 /\ off \in Nat /\ ClockRange \in Nat \ {0}
    BY IoBridgeAssumption
  <2>2. now + off \in Nat
    BY <2>1 DEF EnvTypeOK
  <2>3. (now + off) % ClockRange \in 0 .. ClockRange - 1
    BY <2>1, <2>2
  <2> QED BY <1>4, <1>5, <1>6, <2>1, <2>2, <2>3 DEF OpTimeout, OpTimeoutAbs
<1>7. CASE ReadOpFails
  <2>1. /\ UNCHANGED <<queue, hostVars, nextId, lost, guestVars, wake, envVars>>
        /\ batch' = 0 /\ ReturnToGuest
    BY <1>7 DEF ReadOpFails
  <2>2. CallTypeOK' /\ EnvTypeOK'
    BY <2>1, ReturnType DEF EnvTypeOK, envVars
  <2>3. nextId + batch' <= MaxOps + 1
    BY <2>1, IoBridgeAssumption DEF OpsTypeOK
  <2> QED BY <2>1, <2>2, <2>3, ControlInvariant DEF QueueTypeOK
<1> QED BY <1>1, <1>2, <1>3, <1>6, <1>7 DEF SubmitOp

(* Cancelling and flushing.                                                *)
LEMMA CancelFlushInvariant ==
    ASSUME IInv, Flush \/ \E ud \in UserData : CancelFound(ud)
    PROVE  IInv'
<1> USE DEF IInv, TypeOK
<1>1. ASSUME NEW ud \in UserData, CancelFound(ud) PROVE IInv'
  <2>1. PICK s \in Matches(ud) :
          /\ timers' = [timers EXCEPT ![s].active = FALSE]
          /\ Complete(timers[s].id, timers[s].ud, "CANCELED")
    BY <1>1 DEF CancelFound, Matches
  <2>2. s \in DOMAIN timers /\ timers[s].active
    BY DEF Matches
  <2>3. UNCHANGED <<nextId, guestVars, ioq, callVars, envVars>>
    BY <1>1 DEF CancelFound
  <2>4. CallTypeOK'
    BY <2>3 DEF CallTypeOK, callVars
  <2> QED BY <2>1, <2>2, <2>3, <2>4, DisarmInvariant DEF Result, callVars
<1>2. CASE FlushAll
  <2>1. /\ queue' = << >> /\ flushed' = flushed \cup Queued
        /\ UNCHANGED <<wake, nextId, lost, delivered, silent, hostVars, callVars,
                       envVars>>
    BY <1>2 DEF FlushAll, Queued
  <2>2. Queued' = {} /\ QueuedOnce(queue)'
    BY <2>1 DEF Queued, QueuedOps, QueuedOnce
  <2>3. Armed' = Armed /\ ArmedOnce'
    BY <2>1 DEF Armed, ArmedOnce, CompletesOnce, hostVars
  <2>4. Queued \subseteq OpId
    BY QueuedOpIds DEF Queued, QueueTypeOK
  <2>5. QueueTypeOK' /\ TimersTypeOK'
    BY <2>1, SizeAssumption DEF QueueTypeOK, TimersTypeOK, hostVars
  <2>6. EnvTypeOK' /\ CallTypeOK' /\ OpsTypeOK'
    BY <2>1, <2>4 DEF EnvTypeOK, CallTypeOK, OpsTypeOK, envVars, callVars
  <2>7. EveryOpAccounted' /\ FatesDisjoint'
    <3>1. Queued' = Queued \ Queued /\ delivered' = delivered
      BY <2>1, <2>2
    <3> QED BY <2>1, <2>3, <3>1, FateTaken DEF CompletesOnce
  <2> QED BY <2>2, <2>3, <2>5, <2>6, <2>7 DEF CompletesOnce
<1>3. ASSUME NEW k \in {"io", "input"}, FlushKind(k) PROVE IInv'
  <2> DEFINE Keep == {i \in DOMAIN queue : queue[i].kind # k}
  <2>1. /\ IsSelection(queue', queue, Keep)
        /\ flushed' = IF k = "io" THEN flushed \cup Queued ELSE flushed
        /\ UNCHANGED <<wake, nextId, lost, delivered, silent, hostVars, callVars,
                       envVars>>
    BY <1>3 DEF FlushKind, Queued
  <2>2. queue \in Seq(Event) /\ Len(queue) \in Nat /\ Len(queue) <= Size
    BY DEF QueueTypeOK
  <2>3. /\ queue' \in Seq(Event) /\ Len(queue') <= Len(queue)
        /\ \A x : x \in QueuedOps(queue') <=>
             \E i \in Keep : queue[i].kind = "io" /\ queue[i].id = x
        /\ QueuedOnce(queue) => QueuedOnce(queue')
    BY <2>1, <2>2, SelectionOnce
  <2>4. QueueTypeOK' /\ TimersTypeOK'
    BY <2>1, <2>2, <2>3, SizeAssumption
       DEF QueueTypeOK, TimersTypeOK, hostVars
  <2>5. Armed' = Armed /\ ArmedOnce'
    BY <2>1 DEF Armed, ArmedOnce, CompletesOnce, hostVars
  <2>6. Queued \subseteq OpId
    BY QueuedOpIds DEF Queued, QueueTypeOK
  <2>7. EnvTypeOK' /\ CallTypeOK' /\ OpsTypeOK'
    BY <2>1, <2>6 DEF EnvTypeOK, CallTypeOK, OpsTypeOK, envVars, callVars
  <2>8. QueuedOnce(queue)'
    BY <2>3 DEF CompletesOnce
  <2>9. EveryOpAccounted' /\ FatesDisjoint'
    <3>1. CASE k = "io"
      <4>1. Queued' = Queued \ Queued
        BY <3>1, <2>3 DEF Queued
      <4> QED BY <3>1, <4>1, <2>1, <2>5, FateTaken DEF CompletesOnce
    <3>2. CASE k = "input"
      <4>1. \A i \in DOMAIN queue : queue[i].kind = "io" => i \in Keep
        BY <3>2
      <4>2. \A x : x \in QueuedOps(queue') <=> x \in QueuedOps(queue)
        BY <2>3, <4>1, QueuedIn
      <4>3. Queued' = Queued \ {}
        BY <4>2 DEF Queued
      <4>4. delivered' = delivered \cup {} /\ flushed' = flushed
        BY <3>2, <2>1
      <4> QED BY <4>3, <4>4, <2>1, <2>5, FateTaken DEF CompletesOnce
    <3> QED BY <3>1, <3>2
  <2> QED BY <2>4, <2>5, <2>7, <2>8, <2>9 DEF CompletesOnce
<1> QED BY <1>1, <1>2, <1>3 DEF Flush

(* Entering poll, wait and the frame, and the loop of poll and wait.       *)
LEMMA CallInvariant ==
    ASSUME IInv, Poll \/ FrameReturns \/ HostStep \/ \E t \in WaitTime : Wait(t)
    PROVE  IInv'
<1> USE DEF IInv, TypeOK
<1>1. ASSUME NEW c \in {"poll", "wait", "frame"},
             NEW end \in Nat \cup {Forever}, Enter(c, end)
      PROVE  IInv'
  <2>1. /\ UNCHANGED <<queue, hostVars, nextId, lost, guestVars, wake, envVars>>
        /\ pc' = "pump" /\ call' = c /\ until' = end
        /\ UNCHANGED <<batch, scan, scanNow>>
    BY <1>1 DEF Enter
  <2>2. CallTypeOK' /\ EnvTypeOK'
    BY <2>1 DEF CallTypeOK, EnvTypeOK, envVars
  <2> QED BY <2>1, <2>2, ControlInvariant DEF QueueTypeOK, OpsTypeOK
<1>2. CASE Poll \/ FrameReturns
  BY <1>1, <1>2 DEF Poll, FrameReturns
<1>3. ASSUME NEW t \in WaitTime, Wait(t) PROVE IInv'
  BY <1>1, <1>3, IoBridgeAssumption DEF Wait
<1>4. CASE PumpOne
  <2>1. /\ input > 0 /\ input' = input - 1 /\ queue' = Offer(queue, InputEvent)
        /\ UNCHANGED <<wake, nextId, lost, guestVars, hostVars, callVars,
                       arrived, now>>
    BY <1>4 DEF PumpOne
  <2>2. InputEvent \in Event /\ InputEvent.kind # "io"
    BY DEF Event, InputEvent
  <2>3. queue \in Seq(Event) /\ Len(queue) <= Size
    BY DEF QueueTypeOK
  <2>4. /\ queue' \in Seq(Event) /\ Len(queue') <= Size
        /\ Accepts(queue) => \A x : x \in QueuedOps(queue') <=>
                                      x \in QueuedOps(queue)
        /\ QueuedOnce(queue) => QueuedOnce(queue')
    BY <2>1, <2>2, <2>3, OfferEvent
  <2>5. ~Accepts(queue) => queue' = queue
    BY <2>1 DEF Offer
  <2>6. \A x : x \in QueuedOps(queue') <=> x \in QueuedOps(queue)
    BY <2>4, <2>5
  <2>7. Queued' = Queued \ {} /\ QueuedOnce(queue)'
    BY <2>4, <2>6 DEF Queued, CompletesOnce
  <2>8. Armed' = Armed /\ ArmedOnce'
    BY <2>1 DEF Armed, ArmedOnce, CompletesOnce, hostVars
  <2>9. QueueTypeOK' /\ TimersTypeOK' /\ OpsTypeOK' /\ CallTypeOK'
    BY <2>1, <2>4 DEF QueueTypeOK, TimersTypeOK, OpsTypeOK, CallTypeOK,
                      hostVars, guestVars, callVars
  <2>10. EnvTypeOK'
    BY <2>1 DEF EnvTypeOK
  <2>11. EveryOpAccounted' /\ FatesDisjoint'
    <3>1. delivered' = delivered \cup {} /\ flushed' = flushed
            /\ silent' = silent /\ lost' = lost /\ nextId' = nextId
      BY <2>1 DEF guestVars
    <3> QED BY <3>1, <2>7, <2>8, FateTaken DEF CompletesOnce
  <2> QED BY <2>7, <2>8, <2>9, <2>10, <2>11 DEF CompletesOnce
<1>5. CASE PumpDone
  <2>1. /\ UNCHANGED <<queue, hostVars, nextId, lost, guestVars, wake, envVars,
                       batch>>
        /\ \/ ReturnToGuest
           \/ /\ pc' = "check" /\ scanNow' = now
              /\ UNCHANGED <<call, until, scan>>
    BY <1>5 DEF PumpDone
  <2>2. CASE ReturnToGuest
    <3>1. batch' \in Nat
      BY <2>1 DEF CallTypeOK
    <3>2. EnvTypeOK'
      BY <2>1 DEF EnvTypeOK, envVars
    <3> QED BY <2>1, <2>2, <3>1, <3>2, ReturnType, ControlInvariant
            DEF QueueTypeOK, OpsTypeOK
  <2>3. CASE /\ pc' = "check" /\ scanNow' = now
             /\ UNCHANGED <<call, until, scan>>
    <3>1. CallTypeOK' /\ EnvTypeOK'
      BY <2>1, <2>3 DEF CallTypeOK, EnvTypeOK, envVars
    <3> QED BY <2>1, <3>1, ControlInvariant DEF QueueTypeOK, OpsTypeOK
  <2> QED BY <2>1, <2>2, <2>3
<1>6. CASE CheckSlot
  <2>1. /\ scan <= Len(timers) /\ scan' = scan + 1 /\ pc = "check"
        /\ UNCHANGED <<nextId, guestVars, ioq, envVars, pc, call, until, batch,
                       scanNow>>
    BY <1>6 DEF CheckSlot
  <2>2. scan \in DOMAIN timers /\ scan' \in Nat \ {0}
    <3>1. scan \in Nat \ {0} /\ Len(timers) \in Nat
            /\ DOMAIN timers = 1 .. Len(timers)
      BY LenProperties DEF TimersTypeOK, CallTypeOK
    <3> QED BY <2>1, <3>1
  <2>3. CallTypeOK' /\ EnvTypeOK'
    BY <2>1, <2>2 DEF CallTypeOK, EnvTypeOK, envVars
  <2>4. CASE SlotDue
    <3>1. /\ timers[scan].active
          /\ timers' = [timers EXCEPT ![scan].active = FALSE]
          /\ Complete(timers[scan].id, timers[scan].ud, "OK")
      BY <1>6, <2>4 DEF CheckSlot, SlotDue
    <3> QED BY <2>1, <2>2, <2>3, <3>1, DisarmInvariant DEF Result
  <2>5. CASE ~SlotDue
    <3>1. UNCHANGED <<queue, lost, wake, timers>>
      BY <1>6, <2>5 DEF CheckSlot
    <3> QED BY <2>1, <2>3, <3>1, ControlInvariant
            DEF QueueTypeOK, OpsTypeOK, hostVars
  <2> QED BY <2>4, <2>5
<1>7. CASE CheckDone
  <2>1. /\ UNCHANGED <<queue, hostVars, nextId, lost, guestVars, wake, envVars,
                       call, until, batch>>
        /\ pc' = "pop" /\ scan' = 1 /\ scanNow' = 0
    BY <1>7 DEF CheckDone
  <2>2. scan' \in Nat \ {0} /\ scanNow' \in Nat
    BY <2>1
  <2>3. CallTypeOK' /\ EnvTypeOK'
    BY <2>1, <2>2 DEF CallTypeOK, EnvTypeOK, envVars
  <2> QED BY <2>1, <2>3, ControlInvariant DEF QueueTypeOK, OpsTypeOK
<1>8. CASE PopEvent
  <2>1. /\ queue # << >> /\ queue' = Tail(queue)
        /\ delivered' = delivered \cup QueuedOps(<<Head(queue)>>)
        /\ ReturnToGuest
        /\ UNCHANGED <<wake, nextId, lost, flushed, silent, hostVars, envVars,
                       batch>>
    BY <1>8 DEF PopEvent
  <2> DEFINE S == QueuedOps(<<Head(queue)>>)
             t == Tail(queue)
  <2>2. /\ queue \in Seq(Event) /\ Len(queue) \in Nat \ {0}
        /\ Len(queue) <= Size /\ DOMAIN queue = 1 .. Len(queue)
    BY <2>1, EmptySeq, LenProperties DEF QueueTypeOK
  <2>3. /\ t \in Seq(Event) /\ Len(t) = Len(queue) - 1
        /\ DOMAIN t = 1 .. Len(queue) - 1
        /\ \A i \in 1 .. Len(queue) - 1 : t[i] = queue[i + 1]
    BY <2>1, <2>2
  <2>4. Head(queue) = queue[1] /\ queue[1] \in Event
    BY <2>2
  <2>5. \A x : x \in S <=> queue[1].kind = "io" /\ queue[1].id = x
    BY <2>4, QueuedIn
  <2> HIDE DEF t, S
  <2>6. \A x : x \in QueuedOps(t) <=>
          \E i \in 2 .. Len(queue) : queue[i].kind = "io" /\ queue[i].id = x
    <3>1. \A x : x \in QueuedOps(t) <=>
            \E i \in 1 .. Len(queue) - 1 : t[i].kind = "io" /\ t[i].id = x
      BY <2>3, QueuedIn
    <3>2. ASSUME NEW x, NEW i \in 1 .. Len(queue) - 1,
                 t[i].kind = "io", t[i].id = x
          PROVE  \E j \in 2 .. Len(queue) :
                   queue[j].kind = "io" /\ queue[j].id = x
      <4>1. i + 1 \in 2 .. Len(queue) /\ t[i] = queue[i + 1]
        BY <2>2, <2>3
      <4> QED BY <3>2, <4>1
    <3>3. ASSUME NEW x, NEW j \in 2 .. Len(queue),
                 queue[j].kind = "io", queue[j].id = x
          PROVE  \E i \in 1 .. Len(queue) - 1 : t[i].kind = "io" /\ t[i].id = x
      <4>1. j - 1 \in 1 .. Len(queue) - 1 /\ t[j - 1] = queue[j]
        BY <2>2, <2>3
      <4> QED BY <3>3, <4>1
    <3> QED BY <3>1, <3>2, <3>3
  <2>7. 1 .. Len(queue) = {1} \cup (2 .. Len(queue)) /\ 1 \notin 2 .. Len(queue)
    BY <2>2
  <2>8. \A x : x \in Queued <=> x \in S \/ x \in QueuedOps(t)
    BY <2>2, <2>5, <2>6, <2>7, QueuedIn DEF Queued
  <2>9. \A x : ~(x \in S /\ x \in QueuedOps(t))
    BY <2>2, <2>5, <2>6, <2>7 DEF CompletesOnce, QueuedOnce
  <2>10. queue' = t
    BY <2>1 DEF t
  <2>11. Queued' = Queued \ S /\ S \subseteq Queued
    BY <2>8, <2>9, <2>10 DEF Queued
  <2>12. QueuedOnce(queue)'
    <3>1. ASSUME NEW i \in 1 .. Len(queue) - 1, NEW j \in 1 .. Len(queue) - 1,
                 t[i].kind = "io", t[j].kind = "io", t[i].id = t[j].id
          PROVE  i = j
      <4>1. /\ i + 1 \in DOMAIN queue /\ j + 1 \in DOMAIN queue
            /\ t[i] = queue[i + 1] /\ t[j] = queue[j + 1]
        BY <2>2, <2>3
      <4>2. i + 1 = j + 1
        BY <3>1, <4>1 DEF CompletesOnce, QueuedOnce
      <4> QED BY <4>2
    <3> QED BY <3>1, <2>3, <2>10 DEF QueuedOnce
  <2>13. Armed' = Armed /\ ArmedOnce'
    BY <2>1 DEF Armed, ArmedOnce, CompletesOnce, hostVars
  <2>14. Queued \subseteq OpId
    BY <2>2, QueuedOpIds DEF Queued
  <2>15. delivered' = delivered \cup S
    BY <2>1 DEF S
  <2>16. QueueTypeOK' /\ TimersTypeOK' /\ EnvTypeOK'
    BY <2>1, <2>2, <2>3, <2>10, SizeAssumption
       DEF QueueTypeOK, TimersTypeOK, EnvTypeOK, hostVars, envVars
  <2>17. OpsTypeOK'
    BY <2>1, <2>11, <2>14, <2>15 DEF OpsTypeOK
  <2>18. CallTypeOK'
    BY <2>1, ReturnType DEF CallTypeOK
  <2>19. EveryOpAccounted' /\ FatesDisjoint'
    BY <2>1, <2>11, <2>13, <2>15, FateTaken DEF CompletesOnce
  <2> QED BY <2>12, <2>13, <2>16, <2>17, <2>18, <2>19 DEF CompletesOnce
<1>9. CASE PopNothing
  <2>1. UNCHANGED <<queue, hostVars, nextId, lost, guestVars, wake, envVars,
                    batch>>
    BY <1>9 DEF PopNothing
  <2>2. EnvTypeOK'
    BY <2>1 DEF EnvTypeOK, envVars
  <2>3. CASE call = "wait"
    <3>1. /\ pc' = "blocked" /\ UNCHANGED <<call, scan, scanNow>>
          /\ until' = IF until = Forever THEN Forever ELSE now + until
      BY <1>9, <2>3 DEF PopNothing
    <3>2. until \in Nat \cup {Forever} /\ now \in Nat
      BY DEF CallTypeOK, EnvTypeOK
    <3>3. until' \in Nat \cup {Forever}
      <4>1. CASE until = Forever
        BY <3>1, <4>1
      <4>2. CASE until # Forever
        <5>1. until \in Nat /\ now + until \in Nat
          BY <3>2, <4>2
        <5> QED BY <3>1, <4>2, <5>1
      <4> QED BY <4>1, <4>2
    <3>4. CallTypeOK'
      BY <2>1, <3>1, <3>3 DEF CallTypeOK
    <3> QED BY <2>1, <2>2, <3>4, ControlInvariant DEF QueueTypeOK, OpsTypeOK
  <2>4. CASE call # "wait"
    <3>1. ReturnToGuest
      BY <1>9, <2>4 DEF PopNothing
    <3>2. batch' \in Nat
      BY <2>1 DEF CallTypeOK
    <3> QED BY <2>1, <2>2, <3>1, <3>2, ReturnType, ControlInvariant
            DEF QueueTypeOK, OpsTypeOK
  <2> QED BY <2>3, <2>4
<1>10. CASE Unblock
  <2>1. /\ UNCHANGED <<queue, hostVars, nextId, lost, guestVars, envVars, until,
                       batch, scan, scanNow>>
        /\ pc' = "pump" /\ call' = "wait again"
        /\ wake' = FALSE \/ wake' = wake
    BY <1>10 DEF Unblock
  <2>2. CallTypeOK' /\ EnvTypeOK' /\ wake' \in BOOLEAN
    BY <2>1 DEF CallTypeOK, EnvTypeOK, envVars, QueueTypeOK
  <2> QED BY <2>1, <2>2, ControlInvariant DEF OpsTypeOK
<1> QED BY <1>2, <1>3, <1>4, <1>5, <1>6, <1>7, <1>8, <1>9, <1>10 DEF HostStep

(* The environment.                                                        *)
LEMMA EnvInvariant ==
    ASSUME IInv, InputArrives \/ Tick
    PROVE  IInv'
<1> USE DEF IInv, TypeOK
<1>1. UNCHANGED <<queue, wake, nextId, lost, guestVars, hostVars, callVars>>
  BY DEF InputArrives, Tick
<1>2. EnvTypeOK'
  BY DEF EnvTypeOK, InputArrives, Tick
<1>3. CallTypeOK'
  BY <1>1 DEF CallTypeOK, callVars
<1> QED BY <1>1, <1>2, <1>3, ControlInvariant
        DEF QueueTypeOK, OpsTypeOK, callVars

LEMMA NextInvariant == IInv /\ [Next]_vars => IInv'
<1> SUFFICES ASSUME IInv, [Next]_vars PROVE IInv'
  OBVIOUS
<1>1. CASE SubmitOp \/ \E n \in 1..MaxBatch : Submit(n)
  BY <1>1, SubmitInvariant
<1>2. CASE Flush \/ \E ud \in UserData : CancelFound(ud)
  BY <1>2, CancelFlushInvariant
<1>3. CASE Poll \/ FrameReturns \/ HostStep \/ \E t \in WaitTime : Wait(t)
  BY <1>3, CallInvariant
<1>4. CASE InputArrives \/ Tick
  BY <1>4, EnvInvariant
<1>5. CASE UNCHANGED vars
  BY <1>5, ControlInvariant
     DEF vars, callVars, envVars, IInv, TypeOK, QueueTypeOK, EnvTypeOK,
         CallTypeOK, OpsTypeOK
<1>6. CASE \E ud \in UserData : CancelNotFound(ud)
  BY <1>5, <1>6 DEF CancelNotFound
<1> QED BY <1>1, <1>2, <1>3, <1>4, <1>5, <1>6 DEF Next, Cancel

LEMMA InductiveInvariant == Spec => []IInv
BY InitInvariant, NextInvariant, PTL DEF Spec

-----------------------------------------------------------------------------
(* The queue and the timer table stay within their arrays, and the         *)
(* variables keep their ranges.                                            *)
THEOREM TypeCorrect == Spec => []TypeOK
BY InductiveInvariant, PTL DEF IInv

(* No operation that was submitted is forgotten, for every size of the     *)
(* queue and the table and every interleaving.                             *)
THEOREM OperationsAccounted == Spec => []EveryOpAccounted
BY InductiveInvariant, PTL DEF IInv

(* No operation completes twice.                                           *)
THEOREM OperationsCompleteOnce == Spec => []CompletesOnce
BY InductiveInvariant, PTL DEF IInv

-----------------------------------------------------------------------------
(* Timers.  A slot's deadline is no earlier than what was asked for, if    *)
(* that is within the range of the clock, and the time that the scan       *)
(* compares it to has been.                                                *)
Deadlines ==
    /\ scanNow <= now
    /\ \A i \in DOMAIN timers :
         timers[i].due < ClockRange => timers[i].due <= timers[i].deadline

LEMMA DeadlinesKept ==
    ASSUME TypeOK, Deadlines, [Next]_vars
    PROVE  Deadlines'
<1>1. now \in Nat /\ scanNow \in Nat /\ scanNow <= now
  BY DEF TypeOK, EnvTypeOK, CallTypeOK, Deadlines
<1>2. ClockRange \in Nat /\ Offset \subseteq Nat
  BY IoBridgeAssumption
<1>3. scanNow' <= now'
  <2>1. scanNow' \in {scanNow, now, 0} /\ now' \in {now, now + 1}
    BY DEF Next, SubmitOp, Cancel, Flush, HostStep, Submit, ReadOpFails, OpSync, OpLog,
           OpTimeout, OpTimeoutAbs, TimerRefused, TimerArmed, CancelFound, CancelNotFound,
           FlushAll, FlushKind, Poll, Wait, FrameReturns, Enter, PumpOne, PumpDone, CheckSlot,
           CheckDone, PopEvent, PopNothing, Unblock, InputArrives, Tick, OpDone, ReturnToGuest,
           callVars, envVars, vars
  <2> QED BY <1>1, <2>1
<1>4. \A i \in DOMAIN timers' :
        timers'[i].due < ClockRange => timers'[i].due <= timers'[i].deadline
  <2>1. CASE \E ud \in UserData, deadline, due \in Nat :
               /\ TimerArmed(ud, deadline, due)
               /\ due < ClockRange => due <= deadline
    BY <2>1 DEF TimerArmed, Deadlines
  <2>2. CASE \E i \in DOMAIN timers : timers' = [timers EXCEPT ![i].active = FALSE]
    BY <2>2 DEF Deadlines
  <2>3. CASE timers' = timers
    BY <2>3 DEF Deadlines
  <2>4. ASSUME NEW ud \in UserData, NEW off \in Offset, OpTimeout(ud, off) \/ OpTimeoutAbs(ud, off)
        PROVE  \/ timers' = timers
               \/ \E deadline, due \in Nat :
                    /\ TimerArmed(ud, deadline, due)
                    /\ due < ClockRange => due <= deadline
    <3>1. CASE TimerRefused(ud)
      BY <3>1 DEF TimerRefused
    <3>2. CASE TimerArmed(ud, (now + off) % ClockRange, now + off)
      <4>1. now + off \in Nat /\ (now + off) % ClockRange \in Nat
        BY <1>1, <1>2, IoBridgeAssumption
      <4>2. now + off < ClockRange => (now + off) % ClockRange = now + off
        BY <1>1, <1>2, IoBridgeAssumption
      <4> QED BY <3>2, <4>1, <4>2
    <3>3. CASE TimerArmed(ud, off, off)
      BY <1>2, <3>3
    <3> QED BY <2>4, <3>1, <3>2, <3>3 DEF OpTimeout, OpTimeoutAbs
  <2>5. CASE \E ud \in UserData, off \in Offset : OpTimeout(ud, off) \/ OpTimeoutAbs(ud, off)
    BY <2>1, <2>3, <2>4, <2>5
  <2>6. CASE CheckSlot
    <3>1. scan \in DOMAIN timers
      <4>1. timers \in Seq(Timer) /\ scan \in Nat \ {0} /\ scan <= Len(timers)
        BY <2>6 DEF CheckSlot, TypeOK, CallTypeOK, TimersTypeOK
      <4> QED BY <4>1
    <3>2. \/ timers' = [timers EXCEPT ![scan].active = FALSE]
          \/ timers' = timers
      BY <2>6 DEF CheckSlot
    <3> QED BY <2>2, <2>3, <3>1, <3>2
  <2>7. CASE \E ud \in UserData : CancelFound(ud)
    BY <2>2, <2>7 DEF CancelFound, Matches
  <2>8. \/ timers' = timers
        \/ CheckSlot
        \/ \E ud \in UserData : CancelFound(ud)
        \/ \E ud \in UserData, off \in Offset : OpTimeout(ud, off) \/ OpTimeoutAbs(ud, off)
    BY DEF Next, SubmitOp, Cancel, Flush, HostStep, Submit, ReadOpFails, OpSync, OpLog,
           CancelNotFound, FlushAll, FlushKind, Poll, Wait, FrameReturns, Enter, PumpOne,
           PumpDone, CheckDone, PopEvent, PopNothing, Unblock, InputArrives, Tick,
           hostVars, vars
  <2> QED BY <2>3, <2>5, <2>6, <2>7, <2>8
<1> QED BY <1>3, <1>4 DEF Deadlines

LEMMA ExpiresDue ==
    ASSUME TypeOK, Deadlines, [Next]_vars, NEW i \in DOMAIN timers,
           pc = "check", timers[i].active, ~timers'[i].active,
           timers[i].due < ClockRange
    PROVE  now >= timers[i].due
<1>1. timers' # timers
  OBVIOUS
<1>2. CheckSlot
  BY <1>1 DEF Next, SubmitOp, Cancel, Flush, HostStep, Submit, ReadOpFails, OpSync, OpLog,
         OpTimeout, OpTimeoutAbs, TimerRefused, TimerArmed, CancelFound, CancelNotFound,
         FlushAll, FlushKind, Poll, Wait, FrameReturns, Enter, PumpOne, PumpDone, CheckDone,
         PopEvent, PopNothing, Unblock, InputArrives, Tick, hostVars, vars
<1>3. timers' = [timers EXCEPT ![scan].active = FALSE] /\ scanNow >= timers[scan].deadline
  BY <1>1, <1>2 DEF CheckSlot, SlotDue
<1>4. scan = i
  BY <1>3
<1>5. timers[i] \in Timer
  BY ElementOfSeq DEF TypeOK, TimersTypeOK
<1>6. timers[i].due <= timers[i].deadline /\ scanNow <= now
  BY DEF Deadlines
<1>7. timers[i].due \in Nat /\ timers[i].deadline \in 0 .. ClockRange - 1
  BY <1>5 DEF Timer
<1>8. now \in Nat /\ scanNow \in Nat
  BY DEF TypeOK, EnvTypeOK, CallTypeOK
<1> QED BY <1>3, <1>4, <1>6, <1>7, <1>8, IoBridgeAssumption

(* A timer does not expire before it was asked to, for every size of the   *)
(* table, any durations and any range of the clock, but those whose time   *)
(* is out of that range.                                                   *)
THEOREM TimersNeverEarly == Spec => NeverEarly
<1>1. Init => Deadlines
  BY DEF Init, Deadlines
<1>2. TypeOK /\ Deadlines /\ [Next]_vars => Deadlines'
  BY DeadlinesKept
<1>3. Spec => []Deadlines
  BY <1>1, <1>2, TypeCorrect, PTL DEF Spec
<1>4. TypeOK /\ Deadlines /\ [Next]_vars =>
        [ \A i \in DOMAIN timers :
            pc = "check" /\ timers[i].active /\ ~timers'[i].active
              /\ timers[i].due < ClockRange =>
              now >= timers[i].due ]_vars
  BY ExpiresDue
<1> QED BY <1>3, <1>4, TypeCorrect, PTL DEF Spec, NeverEarly
=============================================================================
