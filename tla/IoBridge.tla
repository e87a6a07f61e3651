------------------------------ MODULE IoBridge -----------------------------
(***************************************************************************)
(* The wapi_io_bridge imports of the desktop runtime (wapi_host_io.c):     *)
(* submit, cancel, poll, wait and flush over the unified event queue, with *)
(* the timer table of the default I/O queue, the platform's auto-reset     *)
(* wake event, and the operating system's input as environment.            *)
(*                                                                         *)
(* The host runs on one thread, so a call is atomic for the guest, but the *)
(* clock advances and input arrives while it runs.  A call is therefore    *)
(* split where the code loops or reads the clock: one step per submitted   *)
(* operation, per pumped event and per timer slot.                         *)
(*                                                                         *)
(* Every submitted operation gets a number.  The numbers, the timer field  *)
(* due, and lost, flushed, delivered and silent are history: no guard      *)
(* reads them.                                                             *)
(***************************************************************************)
EXTENDS BoundedFifo, Integers

CONSTANTS MaxTimers,   \* slots of timeouts[] in an I/O queue (64)
          UserData,    \* the user_data a guest may choose
          Offset,      \* the offset field of a timer operation
          ClockRange,  \* the clock and deadlines are taken modulo this (2^64)
          WaitTime,    \* the timeouts a guest passes to wait, or Forever
          Forever,     \* a negative timeout
          MaxBatch,    \* bound: operations in one submit
          MaxOps,      \* bound: operations submitted in a behaviour
          MaxTime,     \* bound: values of the clock
          MaxInput     \* bound: input events in a behaviour

ASSUME IoBridgeAssumption ==
    /\ MaxTimers \in Nat \ {0}
    /\ ClockRange \in Nat \ {0}
    /\ Offset \subseteq 0 .. ClockRange - 1
    /\ WaitTime \subseteq Nat \cup {Forever}
    /\ Forever \notin Nat
    /\ MaxBatch \in Nat
    /\ MaxOps \in Nat
    /\ MaxTime \in 0 .. ClockRange - 1
    /\ MaxInput \in Nat

VARIABLES queue,       \* g_rt.event_queue, oldest event first
          ioq,         \* has the default I/O queue handle been allocated?
          timers,      \* timeouts[0 .. timeout_count-1] of the I/O queue
          wake,        \* the platform's wake_event is signalled
          input,       \* events the operating system holds for the host
          arrived,     \* how many of them have arrived so far
          now,         \* the monotonic clock
          pc,          \* what the host's thread is doing
          call,        \* on whose behalf: submit, poll, wait, frame or none
          until,       \* the timeout of the current wait; its end once blocked
          batch,       \* operations of the current submit not yet read
          scan, scanNow, \* timer slot visited next, and the time it is compared to
          nextId,      \* number of the next submitted operation
          silent,      \* operations for which no completion is due (LOG)
          delivered,   \* operations whose completion the guest received
          lost,        \* operations whose completion the full queue refused
          flushed      \* operations whose completion the guest flushed

guestVars == <<delivered, flushed, silent>>
hostVars  == <<ioq, timers>>
callVars  == <<pc, call, until, batch, scan, scanNow>>
envVars   == <<input, arrived, now>>
vars == <<queue, wake, nextId, lost, guestVars, hostVars, callVars, envVars>>

OpId   == 1..MaxOps
Result == {"DONE", "OK", "NOSPC", "CANCELED"}
Completion(id, ud, res) == [kind |-> "io", id |-> id, ud |-> ud, res |-> res]
InputEvent == [kind |-> "input"]

Init ==
    /\ queue = << >>
    /\ ioq = FALSE
    /\ timers = << >>
    /\ wake = FALSE
    /\ input = 0 /\ arrived = 0
    /\ now = 0
    /\ pc = "guest" /\ call = "none"
    /\ until = 0
    /\ batch = 0
    /\ scan = 1 /\ scanNow = 0
    /\ nextId = 1
    /\ silent = {} /\ delivered = {} /\ lost = {} /\ flushed = {}

-----------------------------------------------------------------------------
(* push_completion_event: the result of the push is ignored, and the wake  *)
(* event is signalled whether or not the event was stored.                 *)
Complete(id, ud, res) ==
    /\ queue' = Offer(queue, Completion(id, ud, res))
    /\ lost' = IF Accepts(queue) THEN lost ELSE lost \cup {id}
    /\ wake' = TRUE

ReturnToGuest ==
    /\ pc' = "guest"
    /\ call' = "none"
    /\ until' = 0
    /\ scan' = 1
    /\ scanNow' = 0

(*************************** submit: cb_submit ****************************)

Submit(n) ==
    /\ pc = "guest"
    /\ n > 0
    /\ nextId + n - 1 <= MaxOps
    /\ pc' = "submit" /\ call' = "submit"
    /\ batch' = n
    /\ UNCHANGED <<queue, wake, nextId, lost, guestVars, hostVars, envVars,
                   until, scan, scanNow>>

(* The operation lies outside the guest's memory: the loop breaks off.     *)
ReadOpFails ==
    /\ pc = "submit"
    /\ batch' = 0
    /\ ReturnToGuest
    /\ UNCHANGED <<queue, wake, nextId, lost, guestVars, hostVars, envVars>>

OpDone ==
    /\ nextId' = nextId + 1
    /\ batch' = batch - 1
    /\ IF batch = 1 THEN ReturnToGuest
                    ELSE UNCHANGED <<pc, call, until, scan, scanNow>>

(* Operations served on the spot: nop, read, write, role and capability    *)
(* requests, ... and unknown opcodes.  Their result (NOSYS for the last)   *)
(* is abstracted to DONE; OK is the result of a timer that expired.        *)
OpSync(ud) ==
    /\ pc = "submit"
    /\ Complete(nextId, ud, "DONE")
    /\ OpDone
    /\ UNCHANGED <<guestVars, hostVars, envVars>>

OpLog ==
    /\ pc = "submit"
    /\ silent' = silent \cup {nextId}
    /\ OpDone
    /\ UNCHANGED <<queue, wake, lost, delivered, flushed, hostVars, envVars>>

(* No I/O queue could be allocated, or the table has been full before.     *)
TimerRefused(ud) ==
    /\ pc = "submit"
    /\ \/ ~ioq /\ UNCHANGED ioq
       \/ Len(timers) >= MaxTimers /\ UNCHANGED ioq
    /\ Complete(nextId, ud, "NOSPC")
    /\ OpDone
    /\ UNCHANGED <<guestVars, timers, envVars>>

(* Mutant: the search does not look whether the slot is in use.            *)
Inactive_any == DOMAIN timers

Inactive == {i \in DOMAIN timers : ~timers[i].active}

TimerSlot(s) == IF Inactive = {} THEN s = Len(timers) + 1
                ELSE s \in Inactive /\ \A i \in Inactive : s <= i

TimerArmed(ud, deadline, due) ==
    /\ pc = "submit"
    /\ Len(timers) < MaxTimers
    /\ ioq' = TRUE
    /\ \E s \in 1 .. Len(timers) + 1 :
         /\ TimerSlot(s)
         /\ timers' = [i \in DOMAIN timers \cup {s} |->
                         IF i = s THEN [id |-> nextId, ud |-> ud,
                                        deadline |-> deadline, due |-> due,
                                        active |-> TRUE]
                         ELSE timers[i]]
    /\ OpDone
    /\ UNCHANGED <<queue, wake, lost, guestVars, envVars>>

(* Mutant: the duration is taken for an absolute time.                     *)
OpTimeout_asAbs(ud, off) ==
    TimerRefused(ud) \/ TimerArmed(ud, off, now + off)

(* The deadline is the 64-bit sum of the clock and the duration.           *)
OpTimeout(ud, off) ==
    TimerRefused(ud) \/ TimerArmed(ud, (now + off) % ClockRange, now + off)

OpTimeoutAbs(ud, off) ==
    TimerRefused(ud) \/ TimerArmed(ud, off, off)

(********************* cancel and flush: cb_cancel, cb_flush **************)

Matches(ud) == {i \in DOMAIN timers : timers[i].active /\ timers[i].ud = ud}

CancelFound(ud) ==
    /\ pc = "guest"
    /\ \E i \in Matches(ud) :
         /\ \A j \in Matches(ud) : i <= j
         /\ timers' = [timers EXCEPT ![i].active = FALSE]
         /\ Complete(timers[i].id, ud, "CANCELED")
    /\ UNCHANGED <<nextId, guestVars, ioq, callVars, envVars>>

CancelNotFound(ud) ==
    /\ pc = "guest"
    /\ Matches(ud) = {}
    /\ UNCHANGED vars

QueuedOps(q) == {q[i].id : i \in {j \in DOMAIN q : q[j].kind = "io"}}

FlushAll ==
    /\ pc = "guest"
    /\ queue' = << >>
    /\ flushed' = flushed \cup QueuedOps(queue)
    /\ UNCHANGED <<wake, nextId, lost, delivered, silent, hostVars, callVars,
                   envVars>>

FlushKind(k) ==
    /\ pc = "guest"
    /\ IsSelection(queue', queue, {i \in DOMAIN queue : queue[i].kind # k})
    /\ flushed' = IF k = "io" THEN flushed \cup QueuedOps(queue) ELSE flushed
    /\ UNCHANGED <<wake, nextId, lost, delivered, silent, hostVars, callVars,
                   envVars>>

(******************** poll and wait: cb_poll, cb_wait *********************)

(* poll, wait and the frame loop of main.c all begin by pumping.           *)
Enter(c, end) ==
    /\ pc = "guest"
    /\ pc' = "pump" /\ call' = c /\ until' = end
    /\ UNCHANGED <<queue, wake, nextId, lost, guestVars, hostVars, envVars,
                   batch, scan, scanNow>>

Poll == Enter("poll", 0)

Wait(t) ==
    /\ t \notin {0, Forever} => now < MaxTime
    /\ Enter("wait", t)

FrameReturns == Enter("frame", 0)

(* wapi_host_pump_platform_events runs until the platform has no event.    *)
PumpOne ==
    /\ pc = "pump"
    /\ input > 0
    /\ input' = input - 1
    /\ queue' = Offer(queue, InputEvent)
    /\ UNCHANGED <<wake, nextId, lost, guestVars, hostVars, callVars, arrived,
                   now>>

(* Mutant: poll and wait leave the timers to the frame loop.               *)
PumpDone_noCheck ==
    /\ pc = "pump"
    /\ input = 0
    /\ IF call = "frame"
       THEN ReturnToGuest
       ELSE pc' = "pop" /\ UNCHANGED <<call, until, scan, scanNow>>
    /\ UNCHANGED <<queue, wake, nextId, lost, guestVars, hostVars, envVars,
                   batch>>

(* The frame loop does not look at the timers; poll and wait do.           *)
PumpDone ==
    /\ pc = "pump"
    /\ input = 0
    /\ IF call = "frame"
       THEN ReturnToGuest
       ELSE /\ pc' = "check"
            /\ scanNow' = now
            /\ UNCHANGED <<call, until, scan>>
    /\ UNCHANGED <<queue, wake, nextId, lost, guestVars, hostVars, envVars,
                   batch>>

(* wapi_io_check_timeouts, one slot per step.                              *)
(* Mutant: a slot that has expired or was cancelled expires again.         *)
SlotDue_anySlot == scanNow >= timers[scan].deadline

SlotDue == timers[scan].active /\ scanNow >= timers[scan].deadline

CheckSlot ==
    /\ pc = "check"
    /\ scan <= Len(timers)
    /\ scan' = scan + 1
    /\ IF SlotDue
       THEN /\ Complete(timers[scan].id, timers[scan].ud, "OK")
            /\ timers' = [timers EXCEPT ![scan].active = FALSE]
       ELSE UNCHANGED <<queue, lost, wake, timers>>
    /\ UNCHANGED <<nextId, guestVars, ioq, envVars, pc, call, until, batch,
                   scanNow>>

CheckDone ==
    /\ pc = "check"
    /\ scan > Len(timers)
    /\ pc' = "pop"
    /\ scan' = 1 /\ scanNow' = 0
    /\ UNCHANGED <<queue, wake, nextId, lost, guestVars, hostVars, envVars,
                   call, until, batch>>

PopEvent ==
    /\ pc = "pop"
    /\ queue # << >>
    /\ queue' = Tail(queue)
    /\ delivered' = delivered \cup QueuedOps(<<Head(queue)>>)
    /\ ReturnToGuest
    /\ UNCHANGED <<wake, nextId, lost, flushed, silent, hostVars, envVars, batch>>

(* poll, and wait after having waited, give up; wait waits first.          *)
PopNothing ==
    /\ pc = "pop"
    /\ queue = << >>
    /\ IF call = "wait"
       THEN /\ pc' = "blocked"
            /\ until' = IF until = Forever THEN Forever ELSE now + until
            /\ UNCHANGED <<call, scan, scanNow>>
       ELSE ReturnToGuest
    /\ UNCHANGED <<queue, wake, nextId, lost, guestVars, hostVars, envVars,
                   batch>>

(* Mutant: the wait takes the caller's timeout for INFINITE.               *)
Unblock_noTimeout ==
    /\ pc = "blocked"
    /\ \/ wake /\ wake' = FALSE
       \/ ~wake /\ input > 0 /\ UNCHANGED wake
    /\ pc' = "pump" /\ call' = "wait again"
    /\ UNCHANGED <<queue, nextId, lost, guestVars, hostVars, envVars, until,
                   batch, scan, scanNow>>

(* wapi_plat_wait_events: MsgWaitForMultipleObjectsEx on the wake event,   *)
(* which is reset, on input, or until the caller's timeout.                *)
Unblock ==
    /\ pc = "blocked"
    /\ \/ wake /\ wake' = FALSE
       \/ ~wake /\ input > 0 /\ UNCHANGED wake
       \/ ~wake /\ until # Forever /\ now >= until /\ UNCHANGED wake
    /\ pc' = "pump" /\ call' = "wait again"
    /\ UNCHANGED <<queue, nextId, lost, guestVars, hostVars, envVars, until,
                   batch, scan, scanNow>>

(******************************* environment *******************************)

InputArrives ==
    /\ arrived < MaxInput
    /\ arrived' = arrived + 1
    /\ input' = input + 1
    /\ UNCHANGED <<queue, wake, nextId, lost, guestVars, hostVars, callVars,
                   now>>

(* The clock stops at the bound, but never under a wait with a timeout.    *)
Tick ==
    /\ \/ now < MaxTime
       \/ pc = "blocked" /\ until # Forever /\ now < until
    /\ now' = now + 1
    /\ UNCHANGED <<queue, wake, nextId, lost, guestVars, hostVars, callVars,
                   input, arrived>>

-----------------------------------------------------------------------------
SubmitOp ==
    \/ \E ud \in UserData : OpSync(ud)
    \/ OpLog
    \/ \E ud \in UserData, off \in Offset :
         OpTimeout(ud, off) \/ OpTimeoutAbs(ud, off)
    \/ ReadOpFails

Cancel(ud) == CancelFound(ud) \/ CancelNotFound(ud)
Flush == FlushAll \/ \E k \in {"io", "input"} : FlushKind(k)

HostStep == PumpOne \/ PumpDone \/ CheckSlot \/ CheckDone
              \/ PopEvent \/ PopNothing \/ Unblock

Next ==
    \/ \E n \in 1..MaxBatch : Submit(n)
    \/ SubmitOp
    \/ \E ud \in UserData : Cancel(ud)
    \/ Flush
    \/ Poll
    \/ \E t \in WaitTime : Wait(t)
    \/ FrameReturns
    \/ HostStep
    \/ InputArrives
    \/ Tick

Spec == Init /\ [][Next]_vars

(* A call makes progress once made (the host's thread is scheduled), the   *)
(* clock advances, and the guest is an event loop: it polls again and      *)
(* again, whatever else it calls in between.                               *)
Fairness ==
    /\ WF_vars(SubmitOp)
    /\ WF_vars(HostStep)
    /\ WF_vars(Tick)
    /\ SF_vars(Poll)

FairSpec == Spec /\ Fairness

-----------------------------------------------------------------------------
Event == [kind : {"io"}, id : OpId, ud : UserData, res : Result]
           \cup {InputEvent}

Timer == [id : OpId, ud : UserData, deadline : 0 .. ClockRange - 1, due : Nat,
          active : BOOLEAN]

QueueTypeOK ==
    /\ queue \in Seq(Event) /\ Len(queue) <= Size
    /\ wake \in BOOLEAN

TimersTypeOK ==
    /\ ioq \in BOOLEAN
    /\ timers \in Seq(Timer) /\ Len(timers) <= MaxTimers
    /\ ~ioq => timers = << >>

EnvTypeOK == input \in Nat /\ arrived \in Nat /\ now \in Nat

CallTypeOK ==
    /\ pc \in {"guest", "submit", "pump", "check", "pop", "blocked"}
    /\ call \in {"none", "submit", "poll", "wait", "wait again", "frame"}
    /\ until \in Nat \cup {Forever}
    /\ batch \in Nat
    /\ pc = "submit" => batch > 0
    /\ scan \in Nat \ {0} /\ scanNow \in Nat

OpsTypeOK ==
    /\ nextId \in 1 .. MaxOps + 1 /\ nextId + batch <= MaxOps + 1
    /\ silent \subseteq OpId /\ delivered \subseteq OpId
    /\ lost \subseteq OpId /\ flushed \subseteq OpId

(* The variables keep their ranges; the queue and the timer table stay     *)
(* within their fixed arrays, and a table exists only in an I/O queue.     *)
TypeOK == QueueTypeOK /\ TimersTypeOK /\ EnvTypeOK /\ CallTypeOK /\ OpsTypeOK

Armed   == {timers[i].id : i \in {j \in DOMAIN timers : timers[j].active}}
Issued  == 1 .. nextId - 1
Queued  == QueuedOps(queue)

(* Every operation that was submitted is accounted for: it is silent (LOG),*)
(* pending in the timer table, or its completion is in the queue, with the *)
(* guest, refused by the full queue or flushed.                            *)
EveryOpAccounted ==
    Issued = silent \cup Armed \cup Queued \cup delivered \cup lost \cup flushed

OneFate(S, T) == S \cap T = {}

FatesDisjoint ==
    /\ OneFate(silent, Armed \cup Queued \cup delivered \cup lost \cup flushed)
    /\ OneFate(Armed, Queued \cup delivered \cup lost \cup flushed)
    /\ OneFate(Queued, delivered \cup lost \cup flushed)
    /\ OneFate(delivered, lost \cup flushed)
    /\ OneFate(lost, flushed)

QueuedOnce(q) ==
    \A i, j \in DOMAIN q :
      q[i].kind = "io" /\ q[j].kind = "io" /\ q[i].id = q[j].id => i = j

ArmedOnce ==
    \A i, j \in DOMAIN timers :
      timers[i].active /\ timers[j].active /\ timers[i].id = timers[j].id => i = j

(* No operation has two of these fates, and no completion or timer is there*)
(* twice: however expiry, cancellation, the reuse of timer slots, a full   *)
(* queue and flushes interleave, an operation completes at most once.      *)
CompletesOnce == FatesDisjoint /\ QueuedOnce(queue) /\ ArmedOnce

(* A timer expires no earlier than it was asked to, also when its slot was *)
(* used before (wapi.h:461 "offset=duration_ns") -- unless the clock and   *)
(* the duration add up to more than 64 bits (wapi_host_io.c:389).          *)
NeverEarly ==
    [][ \A i \in DOMAIN timers :
          pc = "check" /\ timers[i].active /\ ~timers'[i].active
            /\ timers[i].due < ClockRange =>
            now >= timers[i].due ]_vars

(* A wait without a timeout returns only with an event: the loop           *)
(* "while (io->wait(io->impl, &ev, -1))" of README.md:251 depends on it.   *)
WaitForeverDelivers ==
    [][ pc = "pop" /\ pc' = "guest" /\ until = Forever => queue # << >> ]_vars

(* A timer refused for lack of space finds every slot of the table in use  *)
(* (wapi.h:136 "No space left"), once there is a table.                    *)
NoSpaceMeansFull ==
    [][ ioq /\ (\E ud \in UserData : TimerRefused(ud)) => Inactive = {} ]_vars

(* Under an event loop a timer within the clock's bound leaves the table:  *)
(* its completion is posted, or it was cancelled.                          *)
TimerFires ==
    \A id \in OpId :
      (\E i \in DOMAIN timers : timers[i].active /\ timers[i].id = id
                                /\ timers[i].due <= MaxTime)
        ~> id \notin Armed

(* A wait with a timeout returns, whatever the input and the wake event    *)
(* do; a batch of operations does too.                                     *)
CallReturns == (pc # "guest" /\ until # Forever) ~> pc = "guest"

(* A guest that waits for its timer gets it: the wait does not outlast the *)
(* timer (wapi-spec.md:568 "timer waits", :570 "polls or waits for         *)
(* completion events via poll / wait").                                    *)
WaitSeesTimer ==
    (pc = "blocked" /\ \E i \in DOMAIN timers :
                         timers[i].active /\ timers[i].due <= MaxTime)
      ~> pc # "blocked"
=============================================================================
