---------------------------- MODULE AudioDevice ----------------------------
(***************************************************************************)
(* Audio on the desktop runtime (platform/win32/wapi_plat_win32_audio.c):  *)
(* one endpoint, the guest's streams with a ring each, and the worker      *)
(* thread that moves units between the rings of the bound streams and the  *)
(* endpoint.  In playback the guest writes a ring and the worker reads it, *)
(* in capture the worker writes and the guest reads.                       *)
(*                                                                         *)
(* The guest's thread runs one call at a time.  Calls and the worker are   *)
(* split where they share memory: a ring is read (or written) in one step  *)
(* and its counter advanced in the next, and streams_lock covers the       *)
(* copying of the stream list only.                                        *)
(*                                                                         *)
(* The units (frames) of a stream are numbered in the order they are       *)
(* written.  put, taken, dropped, left and broken are history.  broken     *)
(* says that a thread touched freed memory, that two threads were inside   *)
(* the same side of a ring, or that a teardown stopped waiting for its     *)
(* worker, which may then live on beside the next one.  Nothing is claimed *)
(* of what happens after that, and the behaviour stops there.              *)
(***************************************************************************)
EXTENDS Integers, Sequences

CONSTANTS Stream,        \* the streams the guest creates
          None,          \* no stream (NULL)
          NewSize,       \* size of the ring a stream is created with
          DeviceSize,    \* size the endpoint's format asks for: powers of two
          CounterRange,  \* head and tail are taken modulo this (2^32)
          MaxStreams,    \* WAPI_PLAT_AUDIO_MAX_STREAMS_PER_DEVICE
          Buffer,        \* buffer_frames of the endpoint
          Block,         \* BLOCK_FRAMES converted at a time by stream_put
          Packet,        \* units in a packet of a capture endpoint
          MaxPut,        \* bound: units in one put, and in one get
          MaxUnits,      \* bound: units the guest writes to each stream
          MaxPackets     \* bound: packets captured in a behaviour

ASSUME AudioAssumption ==
    /\ None \notin Stream
    /\ {CounterRange, MaxStreams, Buffer, Block, Packet} \subseteq Nat \ {0}
    /\ NewSize \in [Stream -> Nat] /\ DeviceSize \in Nat
    /\ \A c \in {DeviceSize} \cup {NewSize[s] : s \in Stream} :
         c < CounterRange /\ CounterRange % c = 0 /\ Block <= c /\ Packet <= c
    /\ MaxUnits \in [Stream -> Nat] /\ {MaxPut, MaxPackets} \subseteq Nat

VARIABLES dev,           \* the endpoint: wapi_plat_audio_device_t
          status,        \* of a stream: none, live or freed
          cap, head, tail, data,  \* byte_ring_t of each stream
          guest,         \* the call the guest's thread is in
          worker,        \* what the worker thread is doing
          put,           \* number of units written to a stream
          taken,         \* units the ring's consumer got out of it, in order
          dropped,       \* units thrown away by growth or a full capture ring
          left,          \* streams unbound while others stayed bound
          broken         \* "no", "freed", "race" or "late"

ringVars    == <<cap, head, tail, data>>
historyVars == <<put, taken, dropped>>
vars == <<dev, status, ringVars, guest, worker, historyVars, left, broken>>

Least(a, b) == IF a <= b THEN a ELSE b
Bound       == {dev.bound[i] : i \in 1 .. Len(dev.bound)}

Idle    == [pc |-> "idle", s |-> None, then |-> "idle", n |-> 0, k |-> 0]
Resting == [pc |-> "none", snap |-> <<>>, i |-> 0, n |-> 0, k |-> 0]
NewDevice(capture) ==
    [open |-> TRUE, capture |-> capture, started |-> FALSE, running |-> FALSE,
     handle |-> FALSE, stop |-> FALSE, thread |-> FALSE,
     fill |-> 0, seen |-> 0, bound |-> <<>>]

Init ==
    /\ dev \in {NewDevice(capture) : capture \in BOOLEAN}
    /\ status = [s \in Stream |-> "none"]
    /\ cap = [s \in Stream |-> 0] /\ data = [s \in Stream |-> <<>>]
    /\ head = [s \in Stream |-> 0] /\ tail = [s \in Stream |-> 0]
    /\ guest = Idle
    /\ worker = Resting
    /\ put = [s \in Stream |-> 0] /\ taken = [s \in Stream |-> <<>>]
    /\ dropped = [s \in Stream |-> {}]
    /\ left = {} /\ broken = "no"

-----------------------------------------------------------------------------
(* The byte ring.  head and tail only ever grow, and are masked on use.    *)

Count(s) == (head[s] - tail[s]) % CounterRange
Room(s)  == (cap[s] - Count(s)) % CounterRange

(* The units from tail on, n of them, as ring_read copies them out.        *)
Queued(s, n) == [j \in 1 .. n |-> data[s][(tail[s] + j - 1) % cap[s]]]

(* The next n units of s are copied in from head on, as by ring_write.     *)
CopyIn(s, n) ==
    /\ data' = [data EXCEPT ![s] =
         [p \in 0 .. cap[s] - 1 |->
            LET j == (p - head[s]) % cap[s]
            IN IF j < n THEN put[s] + j + 1 ELSE @[p]]]
    /\ put' = [put EXCEPT ![s] = @ + n]

(* Mutant: the counter does not wrap at its width.                         *)
Advanced_plain(c, n) == c + n

Advanced(c, n) == (c + n) % CounterRange

(* Which threads have copied out of (into) the ring of s and have yet to   *)
(* advance tail (head).                                                    *)
GuestAt(pc, s)   == guest.pc = pc /\ guest.s = s
WorkerAt(pc, s)  == worker.pc = pc /\ worker.snap[worker.i] = s
InsideReading(s) == GuestAt("get", s) \/ WorkerAt("taken", s) \/ WorkerAt("drop", s)
InsideWriting(s) == GuestAt("publish", s) \/ WorkerAt("publish", s)

Broken(how) == broken' = how /\ UNCHANGED <<dev, status, ringVars, guest, worker,
                                            historyVars, left>>

-----------------------------------------------------------------------------
(* The guest's calls: the device.                                          *)

GuestIdle == guest.pc = "idle"

(* Starting a client that has no event handle yet fails, and the result is *)
(* not looked at.                                                          *)
Resume ==
    /\ GuestIdle /\ dev.open /\ ~dev.started
    /\ dev' = [dev EXCEPT !.started = TRUE, !.running = dev.handle]
    /\ UNCHANGED <<status, ringVars, guest, worker, historyVars, left, broken>>

Pause ==
    /\ GuestIdle /\ dev.open /\ dev.started
    /\ dev' = [dev EXCEPT !.started = FALSE, !.running = FALSE]
    /\ UNCHANGED <<status, ringVars, guest, worker, historyVars, left, broken>>

(* The guest's thread goes on with what it was doing: "idle" returns,      *)
(* "free" is the rest of stream_destroy, "closing" the loop of             *)
(* close_device.                                                           *)
Continue(then, s) ==
    /\ guest' = IF then = "closing" THEN [Idle EXCEPT !.pc = "closing"] ELSE Idle
    /\ status' = IF then = "free" THEN [status EXCEPT ![s] = "freed"] ELSE status

(* s leaves the list, its place taken by the last one; when it was the     *)
(* last, the worker is told to stop and waited for.                        *)
Without(q, i) == [j \in 1 .. Len(q) - 1 |-> IF j = i THEN q[Len(q)] ELSE q[j]]

(* Mutant: the worker is stopped when one stream is left.                  *)
NoneLeft_one(rest) == Len(rest) <= 1

NoneLeft(rest) == rest = <<>>

Unbind(s, then) ==
    \E i \in 1 .. Len(dev.bound) :
      /\ dev.bound[i] = s
      /\ LET rest == Without(dev.bound, i)
             stop == NoneLeft(rest) /\ dev.thread
         IN  /\ dev' = [dev EXCEPT !.bound = rest, !.stop = stop \/ @]
             /\ left' = IF NoneLeft(rest) THEN left ELSE left \cup {s}
             /\ IF stop THEN guest' = [Idle EXCEPT !.pc = "join", !.s = s, !.then = then]
                             /\ UNCHANGED status
                        ELSE Continue(then, s)

UnbindCall(s) ==
    /\ GuestIdle /\ Unbind(s, "idle")
    /\ UNCHANGED <<ringVars, worker, historyVars, broken>>

(* The rest of device_teardown_worker: the worker has ended, or two        *)
(* seconds have passed.                                                    *)
WorkerEnded ==
    /\ guest.pc = "join" /\ worker.pc = "none"
    /\ dev' = [dev EXCEPT !.thread = FALSE]
    /\ left' = {}
    /\ Continue(guest.then, guest.s)
    /\ UNCHANGED <<ringVars, worker, historyVars, broken>>

WaitTimedOut == guest.pc = "join" /\ worker.pc # "none" /\ Broken("late")

CloseDevice ==
    /\ GuestIdle /\ dev.open
    /\ guest' = [Idle EXCEPT !.pc = "closing"]
    /\ UNCHANGED <<dev, status, ringVars, worker, historyVars, left, broken>>

CloseNext ==
    /\ guest.pc = "closing" /\ dev.bound # <<>>
    /\ Unbind(dev.bound[1], "closing")
    /\ UNCHANGED <<ringVars, worker, historyVars, broken>>

CloseDone ==
    /\ guest.pc = "closing" /\ dev.bound = <<>>
    /\ dev' = [dev EXCEPT !.open = FALSE, !.started = FALSE, !.running = FALSE]
    /\ guest' = Idle
    /\ UNCHANGED <<status, ringVars, worker, historyVars, left, broken>>

-----------------------------------------------------------------------------
(* The guest's calls: streams.                                             *)

CreateStream(s) ==
    /\ GuestIdle /\ status[s] = "none"
    /\ status' = [status EXCEPT ![s] = "live"]
    /\ cap' = [cap EXCEPT ![s] = NewSize[s]]
    /\ data' = [data EXCEPT ![s] = [p \in 0 .. NewSize[s] - 1 |-> 0]]
    /\ UNCHANGED <<dev, head, tail, guest, worker, historyVars, left, broken>>

(* Mutant: the stream is freed without having been unbound.                *)
DestroyStream_bound(s) ==
    /\ GuestIdle /\ status[s] = "live"
    /\ Continue("free", s) /\ UNCHANGED <<dev, left>>
    /\ UNCHANGED <<ringVars, worker, historyVars, broken>>

DestroyStream(s) ==
    /\ GuestIdle /\ status[s] = "live"
    /\ IF s \in Bound THEN Unbind(s, "free")
                      ELSE Continue("free", s) /\ UNCHANGED <<dev, left>>
    /\ UNCHANGED <<ringVars, worker, historyVars, broken>>

(* A ring too small for the device's format is replaced by an empty one.   *)
Fit(s) ==
    IF cap[s] >= DeviceSize THEN UNCHANGED <<ringVars, dropped>> ELSE
    /\ cap' = [cap EXCEPT ![s] = DeviceSize]
    /\ data' = [data EXCEPT ![s] = [p \in 0 .. DeviceSize - 1 |-> 0]]
    /\ head' = [head EXCEPT ![s] = 0] /\ tail' = [tail EXCEPT ![s] = 0]
    /\ LET q == Queued(s, Count(s))
       IN dropped' = [dropped EXCEPT ![s] = @ \cup {q[j] : j \in 1 .. Len(q)}]

BindCall(s) ==
    /\ GuestIdle /\ dev.open /\ status[s] = "live" /\ s \notin Bound
    /\ Fit(s)
    /\ UNCHANGED <<status, guest, put, taken, left, broken>>

(* The worker is there; a ninth stream is refused.                         *)
BindMore(s) ==
    /\ BindCall(s) /\ dev.thread
    /\ dev' = IF Len(dev.bound) >= MaxStreams THEN dev
               ELSE [dev EXCEPT !.bound = Append(@, s)]
    /\ UNCHANGED worker

(* device_ensure_worker starts the worker, and the client unless started.  *)
BindFirst(s) ==
    /\ BindCall(s) /\ ~dev.thread
    /\ dev' = [dev EXCEPT !.bound = Append(@, s), !.handle = TRUE, !.stop = FALSE,
                          !.thread = TRUE, !.started = TRUE,
                          !.running = @ \/ ~dev.started]
    /\ worker' = [Resting EXCEPT !.pc = "wait"]

(* A step of device_ensure_worker fails and the append is undone.          *)
BindFails(s) ==
    /\ BindCall(s) /\ ~dev.thread
    /\ dev' \in {dev, [dev EXCEPT !.handle = TRUE]}
    /\ UNCHANGED worker

(* stream_put: a block is written once the ring has room for all of it.    *)
PutCall(s, n) ==
    /\ GuestIdle /\ status[s] = "live" /\ put[s] + n <= MaxUnits[s]
    /\ guest' = [Idle EXCEPT !.pc = "put", !.s = s, !.n = n]
    /\ UNCHANGED <<dev, status, ringVars, worker, historyVars, left, broken>>

(* Mutant: a block is written when there is any room.                      *)
HasRoom_any(s, b) == Room(s) > 0 \/ b > 0

HasRoom(s, b) == Room(s) >= b

PutBlock ==
    LET s == guest.s
        b == Least(guest.n, Block)
    IN  /\ guest.pc = "put" /\ HasRoom(s, b)
        /\ IF InsideWriting(s) THEN Broken("race") ELSE
           /\ CopyIn(s, b)
           /\ guest' = [guest EXCEPT !.pc = "publish", !.n = @ - b, !.k = b]
           /\ UNCHANGED <<dev, status, cap, head, tail, worker, taken, dropped,
                          left, broken>>

PutPublish ==
    /\ guest.pc = "publish"
    /\ head' = [head EXCEPT ![guest.s] = Advanced(@, guest.k)]
    /\ guest' = IF guest.n = 0 THEN Idle ELSE [guest EXCEPT !.pc = "put", !.k = 0]
    /\ UNCHANGED <<dev, status, cap, tail, data, worker, historyVars, left, broken>>

(* stream_get: capture only, and never waits.                              *)
GetCall(s, n) ==
    LET k == Least(n, Count(s))
    IN  /\ GuestIdle /\ status[s] = "live" /\ s \in Bound /\ dev.capture /\ k > 0
        /\ IF InsideReading(s) THEN Broken("race") ELSE
           /\ taken' = [taken EXCEPT ![s] = @ \o Queued(s, k)]
           /\ guest' = [Idle EXCEPT !.pc = "get", !.s = s, !.k = k]
           /\ UNCHANGED <<dev, status, ringVars, worker, put, dropped, left, broken>>

GetAdvance ==
    /\ guest.pc = "get"
    /\ tail' = [tail EXCEPT ![guest.s] = Advanced(@, guest.k)]
    /\ guest' = Idle
    /\ UNCHANGED <<dev, status, cap, head, data, worker, historyVars, left, broken>>

-----------------------------------------------------------------------------
(* The worker thread.  It works on the copy it took of the stream list.    *)

Current == worker.snap[worker.i]
AtStream == worker.i <= Len(worker.snap)
NextStream == [worker EXCEPT !.i = @ + 1, !.k = 0,
                             !.pc = IF dev.capture THEN "room" ELSE "read"]
Pass(pc, n) == [pc |-> pc, snap |-> dev.bound, i |-> 1, n |-> n, k |-> 0]

Stop ==
    /\ worker.pc = "wait" /\ dev.stop
    /\ worker' = Resting
    /\ UNCHANGED <<dev, status, ringVars, guest, historyVars, left, broken>>

(* Playback: as many units as the endpoint has room for.                   *)
Wake ==
    /\ worker.pc = "wait" /\ ~dev.stop
    /\ ~dev.capture /\ dev.fill < Buffer
    /\ worker' = Pass("read", Buffer - dev.fill)
    /\ UNCHANGED <<dev, status, ringVars, guest, historyVars, left, broken>>

(* Touching a ring whose stream was destroyed.                             *)
Freed ==
    /\ \/ worker.pc \in {"read", "room"} /\ AtStream
       \/ worker.pc \in {"taken", "drop", "dropped", "publish"}
    /\ status[Current] = "freed"
    /\ Broken("freed")

Live(pc) == worker.pc = pc /\ AtStream /\ status[Current] = "live"

Taking(s) == Least(worker.n, Count(s))

Read ==
    /\ Live("read")
    /\ LET s == Current
           k == Taking(s)
       IN  IF InsideReading(s) THEN Broken("race") ELSE
           /\ taken' = [taken EXCEPT ![s] = @ \o Queued(s, k)]
           /\ worker' = [worker EXCEPT !.pc = "taken", !.k = k]
           /\ UNCHANGED <<dev, status, ringVars, guest, put, dropped, left, broken>>

ReadAdvance ==
    /\ Live("taken")
    /\ tail' = [tail EXCEPT ![Current] = Advanced(@, worker.k)]
    /\ worker' = NextStream
    /\ UNCHANGED <<dev, status, cap, head, data, guest, historyVars, left, broken>>

(* Mutant: the worker ends when it is given no buffer.                     *)
Mixed_break ==
    /\ worker.pc = "read" /\ ~AtStream
    /\ \E fill \in {dev.fill, dev.fill + worker.n} :
         /\ fill <= Buffer
         /\ dev' = [dev EXCEPT !.fill = fill]
         /\ worker' = IF fill = dev.fill THEN Resting ELSE [Resting EXCEPT !.pc = "wait"]
    /\ UNCHANGED <<status, ringVars, guest, historyVars, left, broken>>

(* The mix goes to the endpoint, or is lost when no buffer is given.       *)
Mixed ==
    /\ worker.pc = "read" /\ ~AtStream
    /\ \E fill \in {dev.fill, dev.fill + worker.n} :
         /\ fill <= Buffer
         /\ dev' = [dev EXCEPT !.fill = fill]
    /\ worker' = [Resting EXCEPT !.pc = "wait"]
    /\ UNCHANGED <<status, ringVars, guest, historyVars, left, broken>>

(* Capture: the packets that wait, until there is none.                    *)
WakePacket ==
    /\ dev.capture
    /\ \/ worker.pc = "wait" /\ ~dev.stop
       \/ worker.pc = "more"
    /\ dev.fill > 0
    /\ worker' = Pass("room", Packet)
    /\ UNCHANGED <<dev, status, ringVars, guest, historyVars, left, broken>>

NoPacket ==
    /\ worker.pc = "more" /\ dev.fill = 0
    /\ worker' = [Resting EXCEPT !.pc = "wait"]
    /\ UNCHANGED <<dev, status, ringVars, guest, historyVars, left, broken>>

(* Without room for the packet, the worker reads the oldest units itself.  *)
MakeRoom ==
    /\ Live("room")
    /\ LET s == Current
           k == Least(Packet - Room(s), Count(s))
           q == Queued(s, k)
       IN  /\ Room(s) < Packet
           /\ IF InsideReading(s) THEN Broken("race") ELSE
              /\ dropped' = [dropped EXCEPT ![s] = @ \cup {q[j] : j \in 1 .. k}]
              /\ worker' = [worker EXCEPT !.pc = "drop", !.k = k]
              /\ UNCHANGED <<dev, status, ringVars, guest, put, taken, left, broken>>

DropAdvance ==
    /\ Live("drop")
    /\ tail' = [tail EXCEPT ![Current] = Advanced(@, worker.k)]
    /\ worker' = [worker EXCEPT !.pc = "dropped", !.k = 0]
    /\ UNCHANGED <<dev, status, cap, head, data, guest, historyVars, left, broken>>

WritePacket ==
    /\ \/ Live("dropped")
       \/ Live("room") /\ Room(Current) >= Packet
    /\ LET s == Current
           k == Least(Packet, Room(s))
       IN  IF InsideWriting(s) THEN Broken("race") ELSE
           /\ CopyIn(s, k)
           /\ worker' = [worker EXCEPT !.pc = "publish", !.k = k]
           /\ UNCHANGED <<dev, status, cap, head, tail, guest, taken, dropped,
                          left, broken>>

WritePublish ==
    /\ Live("publish")
    /\ head' = [head EXCEPT ![Current] = Advanced(@, worker.k)]
    /\ worker' = NextStream
    /\ UNCHANGED <<dev, status, cap, tail, data, guest, historyVars, left, broken>>

PacketDone ==
    /\ worker.pc = "room" /\ ~AtStream
    /\ dev' = [dev EXCEPT !.fill = IF @ > 0 THEN @ - 1 ELSE 0]
    /\ worker' = [Resting EXCEPT !.pc = "more"]
    /\ UNCHANGED <<status, ringVars, guest, historyVars, left, broken>>

-----------------------------------------------------------------------------
(* The endpoint plays or records.                                          *)
Endpoint ==
    /\ dev.running
    /\ \/ ~dev.capture /\ dev.fill > 0 /\ dev' = [dev EXCEPT !.fill = @ - 1]
       \/ /\ dev.capture /\ dev.fill < Buffer /\ dev.seen < MaxPackets
          /\ dev' = [dev EXCEPT !.fill = @ + 1, !.seen = @ + 1]
    /\ UNCHANGED <<status, ringVars, guest, worker, historyVars, left, broken>>

DeviceCall == Resume \/ Pause \/ CloseDevice
StreamCall(s) ==
    \/ CreateStream(s) \/ DestroyStream(s) \/ UnbindCall(s)
    \/ BindMore(s) \/ BindFirst(s) \/ BindFails(s)
    \/ \E n \in 1 .. MaxPut : PutCall(s, n) \/ GetCall(s, n)
CallStep == \/ PutBlock \/ PutPublish \/ GetAdvance
            \/ CloseNext \/ CloseDone \/ WorkerEnded \/ WaitTimedOut
WorkerStep ==
    \/ Stop \/ Wake \/ Read \/ ReadAdvance \/ Mixed
    \/ WakePacket \/ NoPacket \/ MakeRoom \/ DropAdvance
    \/ WritePacket \/ WritePublish \/ PacketDone
    \/ Freed

Next ==
    /\ broken = "no"
    /\ \/ DeviceCall \/ CallStep \/ WorkerStep \/ Endpoint
       \/ \E s \in Stream : StreamCall(s)

Spec == Init /\ [][Next]_vars

(* The threads run, and an endpoint that was started plays.                *)
Fairness ==
    /\ WF_vars(broken = "no" /\ CallStep)
    /\ WF_vars(broken = "no" /\ Endpoint)
    /\ WF_vars(broken = "no" /\ WorkerStep)

FairSpec == Spec /\ Fairness

-----------------------------------------------------------------------------
Device == [open : BOOLEAN, capture : BOOLEAN, started : BOOLEAN, running : BOOLEAN,
           handle : BOOLEAN, stop : BOOLEAN, thread : BOOLEAN,
           fill : 0 .. Buffer, seen : 0 .. MaxPackets,
           bound : {q \in Seq(Stream) : Len(q) <= MaxStreams}]
Call   == [pc : {"idle", "join", "closing", "put", "publish", "get"},
           s : Stream \cup {None}, then : {"idle", "free", "closing"},
           n : Nat, k : Nat]
Work   == [pc : {"none", "wait", "read", "taken", "room", "drop", "dropped",
                 "publish", "more"},
           snap : Seq(Stream), i : Nat, n : Nat, k : Nat]

(* Every variable has its range, counters and lists fit their fields.      *)
TypeOK ==
    /\ dev \in Device
    /\ status \in [Stream -> {"none", "live", "freed"}]
    /\ cap \in [Stream -> 0 .. CounterRange - 1]
    /\ head \in [Stream -> 0 .. CounterRange - 1]
    /\ tail \in [Stream -> 0 .. CounterRange - 1]
    /\ \A s \in Stream : data[s] \in [0 .. cap[s] - 1 -> Nat] \/ status[s] = "none"
    /\ guest \in Call
    /\ worker \in Work
    /\ put \in [Stream -> Nat]
    /\ taken \in [Stream -> Seq(Nat)]
    /\ dropped \in [Stream -> SUBSET Nat]
    /\ left \in SUBSET Stream
    /\ broken \in {"no", "freed", "race", "late"}

(* The consumer of a ring gets its units in the order they were written,   *)
(* none twice and none that was thrown away, through every wrap of the     *)
(* counters (ring_write and ring_read, lines 85-107).                      *)
UnitsInOrder ==
    \A s \in Stream :
        /\ \A i, j \in 1 .. Len(taken[s]) : i < j => taken[s][i] < taken[s][j]
        /\ \A i \in 1 .. Len(taken[s]) : taken[s][i] \in (1 .. put[s]) \ dropped[s]

(* No unit vanishes: it was consumed, is in the ring, is just being        *)
(* published, or was thrown away at one of the two places that do so (the  *)
(* growth of the ring at bind, 786; the full capture ring, 499).           *)
Waiting(s) == LET q == Queued(s, Count(s)) IN {q[j] : j \in 1 .. Len(q)}
Copied(s) == IF GuestAt("publish", s) THEN guest.k
             ELSE IF WorkerAt("publish", s) THEN worker.k ELSE 0
Publishing(s) == put[s] - Copied(s) + 1 .. put[s]
Consumed(s) == {taken[s][i] : i \in 1 .. Len(taken[s])}
NothingLost ==
    \A s \in Stream : status[s] # "none" =>
        /\ Count(s) <= cap[s]
        /\ 1 .. put[s] \subseteq Consumed(s) \cup dropped[s] \cup Waiting(s) \cup Publishing(s)

(* Through every wrap of the counters and every growth of a ring the units *)
(* keep their order and their number (UnitsInOrder, NothingLost).          *)
UnitsKept == UnitsInOrder /\ NothingLost

(* While streams are bound there is a worker to serve them, and once the   *)
(* last one was unbound there is none: it may not touch the device or a    *)
(* ring any more (device_ensure_worker, device_teardown_worker).           *)
WorkerServesBound ==
    /\ guest.pc # "join" => (dev.thread <=> dev.bound # <<>>)
    /\ worker.pc # "none" => dev.thread

(* The comments at 47-51 and 134-139 promise one producer and one consumer *)
(* and a list of streams the worker may read at any time.  That holds for  *)
(* playback as long as no stream is unbound while others stay bound: no    *)
(* thread uses a ring or a device that was freed, and no two threads are   *)
(* on one side of a ring.                                                  *)
SafeUse ==
    /\ broken = "freed" => left # {}
    /\ broken = "race" => dev.capture

(* A put on a bound stream of a running playback device gets its block     *)
(* into the ring (stream_put, 885-888).                                    *)
Playing(s) == s \in Bound /\ ~dev.capture /\ dev.running
PutReturns ==
    guest.pc = "put" /\ Playing(guest.s)
        ~> guest.pc # "put" \/ broken # "no"
=============================================================================
