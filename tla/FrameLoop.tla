------------------------------ MODULE FrameLoop ------------------------------
(***************************************************************************)
(* The host's only thread from wapi_main to the end: the frame loop        *)
(* (main.c), the guest's polls, the pump that moves platform events through*)
(* the translator into the guest's queue (wapi_host_input.c), and the      *)
(* handles of the controllers.  The platform below is PlatformInput.       *)
(*                                                                         *)
(* The pump runs inside a poll of the guest or before a frame.  It polls   *)
(* the controllers, takes window messages until there are none, moves up to*)
(* Batch events off the platform's ring, translates them, and starts again *)
(* until a round yields nothing.                                           *)
(*                                                                         *)
(* view is what a guest knows that applies the events it popped, one by    *)
(* one: history, like quitIn, which says where a QUIT was translated, and  *)
(* frames, the frames begun since.                                         *)
(***************************************************************************)
EXTENDS PlatformInput, HandleTable

CONSTANTS QueueCap,      \* WAPI_EVENT_QUEUE_SIZE
          Batch,         \* batch[32] of the pump
          Fixed,         \* aggregate devices minted at the start
          GenRange       \* values of s_gen and uid[2], which are bytes: 256

ASSUME LoopAssumption ==
    /\ {QueueCap, Batch, GenRange} \subseteq Nat \ {0}
    /\ Fixed \in Nat /\ First + Fixed <= Limit

VARIABLES pc,            \* main, frame, pads, msgs, translate, loop or stopped
          from,          \* who runs the pump: main, frame or loop
          pad,           \* the controller whose turn it is
          batch,         \* events taken off the ring, to be translated
          queue,         \* g_rt.event_queue
          running,       \* g_rt.running
          devh,          \* s_dev_gamepad
          gen,           \* how often a slot got a handle: s_gen is Uid(gen[p])
          view, quitIn, frames    \* history

deviceVars == <<htype, next, devh, gen>>
quitVars   == <<running, quitIn, frames>>
vars == <<platformVars, deviceVars, quitVars, pc, from, pad, batch, queue, view>>

Queue == INSTANCE BoundedFifo WITH Size <- QueueCap

Init ==
    /\ PlatformInit
    /\ htype = [h \in Handle |-> IF h < First + Fixed THEN "fixed" ELSE "free"]
    /\ next = First + Fixed
    /\ devh = [p \in Pad |-> 0] /\ gen = [p \in Pad |-> 0]
    /\ pc = "main" /\ from = "main" /\ pad = 1
    /\ batch = <<>> /\ queue = <<>>
    /\ running = FALSE /\ quitIn = "no" /\ frames = 0
    /\ view = [n |-> 0, keys |-> {}, buttons |-> {}, fingers |-> {}, pads |-> {},
               gens |-> [p \in Pad |-> <<>>], text |-> NoText]

-----------------------------------------------------------------------------
(* Handles of controllers.                                                 *)

(* uid[2] in the n-th session of a slot: s_gen is a uint8_t and wraps.     *)
Uid(n) == n % GenRange

(* Mutant: the generation is the slot's, not the session's.                *)
HandleForPad_slot(p) ==
    IF devh[p] # 0 \/ TableFull THEN UNCHANGED deviceVars ELSE
    \E h \in Handle :
      /\ HandleAlloc(h, "pad")
      /\ devh' = [devh EXCEPT ![p] = h]
      /\ gen' = [gen EXCEPT ![p] = 1]

(* dev_gamepad_for_slot: the handle the slot has, or a new one, or none if *)
(* the table is full.  A new one begins a session, whose uid is            *)
(* Uid(gen'[p]).                                                           *)
HandleForPad(p) ==
    IF devh[p] # 0 \/ TableFull THEN UNCHANGED deviceVars ELSE
    \E h \in Handle :
      /\ HandleAlloc(h, "pad")
      /\ devh' = [devh EXCEPT ![p] = h]
      /\ gen' = [gen EXCEPT ![p] = @ + 1]

(* dev_gamepad_free_slot                                                   *)
FreePad(p) ==
    IF devh[p] = 0 THEN UNCHANGED deviceVars ELSE
    /\ HandleFree(devh[p])
    /\ devh' = [devh EXCEPT ![p] = 0]
    /\ UNCHANGED gen

-----------------------------------------------------------------------------
(* wapi_host_translate_event                                               *)

(* Pointer devices produce a pointer event beside their own.               *)
Pointing == {"motion", "mouseDown", "mouseUp", "touchDown", "touchUp", "touchMotion"}

(* START and UPDATE read the preedit text as it is now.  Device events     *)
(* carry the uid; their gen is the session whose uid it is.                *)
Translated(e) ==
    CASE e.kind \in Pointing            -> <<e, [e EXCEPT !.kind = "pointer"]>>
      [] e.kind \in {"start", "update"} -> <<[e EXCEPT !.text = input.ime.text]>>
      [] e.kind = "added"               ->
           <<[e EXCEPT !.gen = IF devh'[e.arg] = 0 THEN 0 ELSE gen'[e.arg]]>>
      [] OTHER                          -> <<e>>

Devices(e) ==
    CASE e.kind \in {"added", "padInput"} -> HandleForPad(e.arg)
      [] e.kind = "removed"               -> FreePad(e.arg)
      [] OTHER                            -> UNCHANGED deviceVars

(* Mutant: a QUIT is heeded only by the pump before a frame.               *)
Ends_loop(e) == e.kind = "quit" /\ from = "loop"

Ends(e) == e.kind = "quit"

Translate ==
    LET e == Head(batch)
    IN  /\ pc = "translate"
        /\ Devices(e)
        /\ queue' = Queue!OfferAll(queue, Translated(e))
        /\ lost' = lost \cup AboutAll(Queue!Refused(queue, Translated(e)))
        /\ running' = (running /\ ~Ends(e))
        /\ quitIn' = IF e.kind = "quit" /\ quitIn \in {"no", "main"} THEN from ELSE quitIn
        /\ batch' = Tail(batch)
        /\ pc' = IF Len(batch) = 1 THEN "pads" ELSE pc
        /\ UNCHANGED <<input, ring, made, frames, from, pad, view>>

-----------------------------------------------------------------------------
(* wapi_host_pump_platform_events and the drain below it.                  *)

StartPump(who) == pc' = "pads" /\ from' = who /\ pad' = 1

PollPads ==
    /\ pc = "pads"
    /\ PollPad(pad)
    /\ IF pad = NumPads THEN pc' = "msgs" /\ pad' = 1 ELSE pad' = pad + 1 /\ UNCHANGED pc
    /\ UNCHANGED <<deviceVars, quitVars, from, batch, queue, view>>

TakeMessage ==
    /\ pc = "msgs" /\ Message
    /\ UNCHANGED <<deviceVars, quitVars, pc, from, pad, batch, queue, view>>

(* Mutant: the events taken stay on the ring when they fill the batch.     *)
Left_all(n) == IF n = Batch THEN ring ELSE SubSeq(ring, n + 1, Len(ring))

Left(n) == SubSeq(ring, n + 1, Len(ring))

(* No message is left: up to Batch events come off the ring.               *)
TakeBatch ==
    LET n == IF Len(ring) < Batch THEN Len(ring) ELSE Batch
    IN  /\ pc = "msgs" /\ ring # <<>>
        /\ batch' = SubSeq(ring, 1, n)
        /\ ring' = Left(n)
        /\ pc' = "translate"
        /\ UNCHANGED <<input, made, lost, deviceVars, quitVars, from, pad, queue, view>>

(* What the guest knows after event e.                                     *)
Seen(v, e) ==
    LET w == [v EXCEPT !.n = e.n]
    IN  CASE e.kind = "keyDown"   -> [w EXCEPT !.keys = @ \cup {e.arg}]
          [] e.kind = "keyUp"     -> [w EXCEPT !.keys = @ \ {e.arg}]
          [] e.kind = "mouseDown" -> [w EXCEPT !.buttons = @ \cup {e.arg}]
          [] e.kind = "mouseUp"   -> [w EXCEPT !.buttons = @ \ {e.arg}]
          [] e.kind = "blur"      -> [w EXCEPT !.keys = {}, !.buttons = {}]
          [] e.kind = "touchDown" -> [w EXCEPT !.fingers = @ \cup {e.arg}]
          [] e.kind = "touchUp"   -> [w EXCEPT !.fingers = @ \ {e.arg}]
          [] e.kind \in {"start", "update"}  -> [w EXCEPT !.text = e.text]
          [] e.kind \in {"commit", "cancel"} -> [w EXCEPT !.text = NoText]
          [] e.kind = "added"     -> [w EXCEPT !.pads = @ \cup {e.arg},
                                               !.gens[e.arg] = Append(@, e.gen)]
          [] e.kind = "removed"   -> [w EXCEPT !.pads = @ \ {e.arg}]
          [] OTHER                -> w

(* The rest of cb_poll: one event, or none, and back to the guest.         *)
PollReturns ==
    /\ pc = "msgs" /\ ring = <<>> /\ from # "loop"
    /\ IF queue = <<>> THEN UNCHANGED <<queue, view>>
                       ELSE queue' = Tail(queue) /\ view' = Seen(view, Head(queue))
    /\ pc' = from
    /\ UNCHANGED <<platformVars, deviceVars, quitVars, from, pad, batch>>

(* Mutant: the flag is looked at again, and the frame left out.            *)
FrameBegins_tested ==
    /\ pc = "msgs" /\ ring = <<>> /\ from = "loop"
    /\ pc' = (IF running THEN "frame" ELSE "stopped") /\ from' = "frame"
    /\ frames' = IF quitIn \in {"no", "main"} THEN 0 ELSE IF running THEN frames + 1 ELSE frames
    /\ UNCHANGED <<platformVars, deviceVars, running, quitIn, pad, batch, queue, view>>

(* The pump before a frame is done, and wapi_frame is called.              *)
FrameBegins ==
    /\ pc = "msgs" /\ ring = <<>> /\ from = "loop"
    /\ pc' = "frame" /\ from' = "frame"
    /\ frames' = IF quitIn \in {"no", "main"} THEN 0 ELSE frames + 1
    /\ UNCHANGED <<platformVars, deviceVars, running, quitIn, pad, batch, queue, view>>

-----------------------------------------------------------------------------
(* The guest's calls and the loop.                                         *)

GuestRuns == pc \in {"main", "frame"}

Poll ==
    /\ GuestRuns /\ StartPump(pc)
    /\ UNCHANGED <<platformVars, deviceVars, quitVars, batch, queue, view>>

(* A role request for a connected controller.                              *)
RequestPad ==
    /\ GuestRuns
    /\ \E p \in input.pads : HandleForPad(p)
    /\ UNCHANGED <<platformVars, quitVars, pc, from, pad, batch, queue, view>>

(* The window procedure runs inside the call that resizes a window.        *)
ResizeCall ==
    /\ GuestRuns /\ Size
    /\ UNCHANGED <<deviceVars, quitVars, pc, from, pad, batch, queue, view>>

(* wapi_main succeeded and there is a wapi_frame, or the runtime ends.     *)
MainReturns ==
    /\ pc = "main"
    /\ \/ pc' = "loop" /\ running' = TRUE
       \/ pc' = "stopped" /\ running' \in {running, TRUE}
    /\ UNCHANGED <<platformVars, deviceVars, quitIn, frames, from, pad, batch, queue, view>>

LoopTest ==
    /\ pc = "loop"
    /\ IF running THEN StartPump("loop") ELSE pc' = "stopped" /\ UNCHANGED <<from, pad>>
    /\ UNCHANGED <<platformVars, deviceVars, quitVars, batch, queue, view>>

(* wapi_frame returns, or ends the loop with CANCELED or a trap.           *)
FrameReturns ==
    /\ pc = "frame"
    /\ pc' \in {"loop", "stopped"}
    /\ UNCHANGED <<platformVars, deviceVars, quitVars, from, pad, batch, queue, view>>

(* The guest calls exit: the trap unwinds wapi_main or the frame.          *)
Exit ==
    /\ GuestRuns
    /\ running' = FALSE /\ pc' = "stopped"
    /\ UNCHANGED <<platformVars, deviceVars, quitIn, frames, from, pad, batch, queue, view>>

Stopped == pc = "stopped" /\ UNCHANGED vars

HostStep == PollPads \/ TakeBatch \/ Translate \/ PollReturns \/ FrameBegins \/ LoopTest

Next ==
    \/ HostStep \/ TakeMessage
    \/ Poll \/ RequestPad \/ ResizeCall
    \/ MainReturns \/ FrameReturns \/ Exit
    \/ Stopped

Spec == Init /\ [][Next]_vars

-----------------------------------------------------------------------------
(* The parts of the state have their types, the queues their sizes.        *)
TypeOK ==
    /\ PlatformTypeOK
    /\ htype \in [Handle -> {"free", "fixed", "pad"}] /\ next \in First .. Limit
    /\ devh \in [Pad -> Handle \cup {0}] /\ gen \in [Pad -> Nat]
    /\ pc \in {"main", "frame", "pads", "msgs", "translate", "loop", "stopped"}
    /\ from \in {"main", "frame", "loop"} /\ pad \in Pad
    /\ Len(batch) <= Batch /\ Len(queue) <= QueueCap
    /\ running \in BOOLEAN
    /\ quitIn \in {"no", "main", "frame", "loop"} /\ frames \in Nat
    /\ view.keys \subseteq Key /\ view.pads \subseteq Pad

(* Everything on the way to the guest, oldest first.                       *)
OnTheWay == queue \o batch \o ring

(* Through the ring, the batch and the queue, each of which may drop or    *)
(* double what it holds, events reach the guest in the order in which they *)
(* happened, none twice (ev_push and ev_pop, 302-332; the pump, 723-729).  *)
EventsInOrder ==
    /\ \A i, j \in 1 .. Len(OnTheWay) : i < j =>
         \/ OnTheWay[i].n < OnTheWay[j].n
         \/ OnTheWay[i].n = OnTheWay[j].n /\ OnTheWay[j].kind = "pointer"
    /\ \A i \in 1 .. Len(OnTheWay) :
         \/ OnTheWay[i].n > view.n
         \/ OnTheWay[i].n = view.n /\ OnTheWay[i].kind = "pointer"

(* The parts of the input that are sets, of what is held down or connected,*)
(* and the events that take something into its set or out of it.           *)
Part == {"keys", "buttons", "fingers", "pads"}
Entry == [keys |-> "keyDown", buttons |-> "mouseDown", fingers |-> "touchDown", pads |-> "added"]
Exits == [keys |-> "keyUp", buttons |-> "mouseUp", fingers |-> "touchUp", pads |-> "removed"]

Enters(part, e, x) == e.kind = Entry[part] /\ e.arg = x
Leaves(part, e, x) == \/ e.kind = Exits[part] /\ e.arg = x
                      \/ e.kind = "blur" /\ part \in {"keys", "buttons"}

(* The set that was S once the events of w are applied.                    *)
Afterwards(part, S, w) ==
    {x \in S \cup {w[i].arg : i \in 1 .. Len(w)} :
       \/ x \in S /\ \A i \in 1 .. Len(w) : ~Leaves(part, w[i], x)
       \/ \E i \in 1 .. Len(w) : /\ Enters(part, w[i], x)
                                /\ \A j \in i + 1 .. Len(w) : ~Leaves(part, w[j], x)}

(* A guest that applies the events it pops learns what the platform knows: *)
(* once it has seen what is on the way, no key, button or finger is stuck  *)
(* and no controller is a ghost, unless an event about it was dropped.     *)
FingersDown == {f \in 1 .. MaxFingers : input.fingers[f] # None}
Known == [keys |-> input.keys, buttons |-> input.buttons, fingers |-> FingersDown,
          pads |-> input.pads]
GuestCatchesUp ==
    \A part \in Part \ lost : Afterwards(part, view[part], OnTheWay) = Known[part]

(* No composition text stays with the guest after the composition has      *)
(* ended: every event that leaves it one, or the one it has, is followed   *)
(* by another event about the composition, even though START and UPDATE    *)
(* are translated with the text of the moment of translation               *)
(* (wapi_host_input.c:412-450).  The exception: a composition that had a   *)
(* result and a text after it is not cancelled (wapi_plat_win32.c:1045).   *)
Composing(i) == OnTheWay[i].kind \in {"start", "update", "commit", "cancel"}
Shows(i) == /\ OnTheWay[i].kind \in {"start", "update"}
            /\ NoText # IF i <= Len(queue) THEN OnTheWay[i].text ELSE input.ime.text
CompositionEnds ==
    \/ input.ime.on \/ input.ime.stuck \/ "ime" \in lost
    \/ /\ view.text # NoText => \E j \in 1 .. Len(OnTheWay) : Composing(j)
       /\ \A i \in 1 .. Len(OnTheWay) :
            Shows(i) => \E j \in i + 1 .. Len(OnTheWay) : Composing(j)

(* Controllers and handles agree: a table entry for each handle of a slot  *)
(* and no other, no handle for two slots; and while the guest runs, only   *)
(* for connected controllers, unless an unplugging was dropped             *)
(* (wapi_host_input.c:89-119, 605-635).                                    *)
PadHandles ==
    /\ \A h \in Handle : htype[h] = "pad" <=> \E p \in Pad : devh[p] = h
    /\ \A p, q \in Pad : devh[p] = devh[q] /\ devh[p] # 0 => p = q
    /\ GuestRuns /\ "pads" \notin lost => \A p \in Pad : devh[p] # 0 => p \in input.pads

(* A controller that is plugged in again is announced with another uid     *)
(* than in the sessions before, for all the guest was and is about to be   *)
(* told, as long as no unplugging was dropped: s_gen counts the sessions of*)
(* a slot (wapi_host_input.c:99-102).  Only the GenRange-th session after  *)
(* one has its uid again, because s_gen wraps.  Events that announce       *)
(* nothing count as 0.                                                     *)
Told(p) ==
    view.gens[p] \o [i \in 1 .. Len(queue) |->
                       IF queue[i].kind = "added" /\ queue[i].arg = p THEN queue[i].gen ELSE 0]
Apart(m, n) == m + GenRange <= n \/ n + GenRange <= m
SessionsDistinct ==
    "pads" \in lost \/
    \A p \in Pad : \A i, j \in 1 .. Len(Told(p)) :
       LET m == Told(p)[i]  n == Told(p)[j]
       IN  i < j /\ 0 \notin {m, n} /\ Uid(m) = Uid(n) => Apart(m, n)

(* A controller is known by its handle while it is plugged in, and by its  *)
(* uid when the handle is given out again before the guest could see it    *)
(* unplugged, GenRange sessions later excepted (PadHandles,                *)
(* SessionsDistinct).                                                      *)
ControllersKnown == PadHandles /\ SessionsDistinct

(* After a QUIT was translated in the loop, a guest gets one chance to     *)
(* answer it: the frame that runs, or the one the pump was for, and no     *)
(* other frame begins, whether or not the queue had room for the QUIT      *)
(* (main.c:327, wapi_host_input.c:331).  A QUIT that wapi_main's own polls *)
(* translate is forgotten when main sets running at line 324.              *)
OneFrameAfterQuit ==
    /\ quitIn = "frame" => frames = 0
    /\ quitIn = "loop" => /\ frames <= 1
                             /\ pc \in {"loop", "stopped"} => frames = 1
=============================================================================
