---------------------------- MODULE PlatformInput ----------------------------
(***************************************************************************)
(* Input on the Win32 platform (platform/win32/wapi_plat_win32.c and       *)
(* wapi_plat_win32_gamepad.c): what the platform keeps of keys, buttons,   *)
(* fingers, composition and controllers, and the ring of platform events   *)
(* that a window message or a controller poll appends to.  A full ring     *)
(* drops the newest event.                                                 *)
(*                                                                         *)
(* Each operator Message(...) is the window procedure on one message, and  *)
(* PollPad one controller's turn in a poll; who calls them, and when, is   *)
(* in FrameLoop.  Events are numbered as they are pushed.  made and lost   *)
(* are history: lost holds the parts of the input of which an event was    *)
(* dropped, here or in the host's queue.                                   *)
(***************************************************************************)
EXTENDS Integers, Sequences

CONSTANTS Key, Button,  \* scancodes, mouse buttons
          Contact,      \* the system's identifiers of touch contacts
          MaxFingers,   \* WAPI_WIN32_MAX_FINGERS
          NumPads,      \* controller slots
          Text,         \* what a composition can read
          NoText, None, \* the empty composition, no contact
          RingCap,      \* WAPI_WIN32_EV_RING
          MaxEvents     \* bound: platform events in a behaviour

ASSUME InputAssumption ==
    /\ {MaxFingers, NumPads, RingCap} \subseteq Nat \ {0} /\ MaxEvents \in Nat
    /\ NoText \notin Text /\ None \notin Contact

VARIABLES input,        \* g.key_state, mouse_buttons, fingers, IME state, s_slots
          ring,         \* g.ev_ring
          made, lost    \* history

platformVars == <<input, ring, made, lost>>

Ring == INSTANCE BoundedFifo WITH Size <- RingCap
Pad  == 1 .. NumPads

NoComposition == [on |-> FALSE, committed |-> FALSE, text |-> NoText,
                  shown |-> NoText, stuck |-> FALSE]

PlatformInit ==
    /\ input = [keys |-> {}, buttons |-> {}, pads |-> {}, ime |-> NoComposition,
                fingers |-> [f \in 1 .. MaxFingers |-> None]]
    /\ ring = <<>>
    /\ made = 0 /\ lost = {}

(* Which parts of the input an event is about.                             *)
About(kind) ==
    CASE kind = "blur"                     -> {"keys", "buttons"}
      [] kind \in {"keyDown", "keyUp"}     -> {"keys"}
      [] kind \in {"mouseDown", "mouseUp"} -> {"buttons"}
      [] kind \in {"touchDown", "touchUp"} -> {"fingers"}
      [] kind \in {"start", "update", "commit", "cancel"} -> {"ime"}
      [] kind \in {"added", "removed"}     -> {"pads"}
      [] kind = "quit"                     -> {"quit"}
      [] OTHER                             -> {}

AboutAll(evs) == UNION {About(evs[i].kind) : i \in 1 .. Len(evs)}

Event(kind, arg) == [kind |-> kind, arg |-> arg, n |-> 0, text |-> NoText, gen |-> 0]
Plain(kind)      == Event(kind, None)

(* ev_push, for each of evs.                                               *)
Emit(evs) ==
    LET numbered == [i \in 1 .. Len(evs) |-> [evs[i] EXCEPT !.n = made + i]]
    IN  /\ made + Len(evs) <= MaxEvents
        /\ ring' = Ring!OfferAll(ring, numbered)
        /\ made' = made + Len(evs)
        /\ lost' = lost \cup AboutAll(Ring!Refused(ring, numbered))

-----------------------------------------------------------------------------
(* Keyboard, mouse, focus.                                                 *)

KeyMessage ==
    \E k \in Key :
      \/ input' = [input EXCEPT !.keys = @ \cup {k}] /\ Emit(<<Event("keyDown", k)>>)
      \/ input' = [input EXCEPT !.keys = @ \ {k}] /\ Emit(<<Event("keyUp", k)>>)

ButtonMessage ==
    \E b \in Button :
      \/ input' = [input EXCEPT !.buttons = @ \cup {b}] /\ Emit(<<Event("mouseDown", b)>>)
      \/ input' = [input EXCEPT !.buttons = @ \ {b}] /\ Emit(<<Event("mouseUp", b)>>)

(* Mutant: what was held stays held when the focus is lost.                *)
KillFocus_held == Emit(<<Plain("blur")>>) /\ UNCHANGED input

(* What was held counts as released, without events.                       *)
KillFocus ==
    /\ Emit(<<Plain("blur")>>)
    /\ input' = [input EXCEPT !.keys = {}, !.buttons = {}]

(* Messages whose event carries everything there is to know: the pointer   *)
(* moved (a pen or a mouse), or something else happened to a window.       *)
PlainMessage ==
    /\ \/ Emit(<<Plain("motion")>>)
       \/ Emit(<<Plain("window")>>)
    /\ UNCHANGED input

(* WM_SIZE pushes the kind of change and the new size.                     *)
Size == Emit(<<Plain("window"), Plain("window")>>) /\ UNCHANGED input

-----------------------------------------------------------------------------
(* Touch: a contact has a finger slot from its first message to its last;  *)
(* a contact that found no slot has no events.                             *)

SlotOf(c) == {f \in 1 .. MaxFingers : input.fingers[f] = c}
FreeSlot(f) == /\ input.fingers[f] = None
               /\ \A g \in 1 .. f - 1 : input.fingers[g] # None

TouchDown(c) ==
    \E f \in 1 .. MaxFingers :
      /\ IF SlotOf(c) = {} THEN FreeSlot(f) ELSE f \in SlotOf(c)
      /\ input' = [input EXCEPT !.fingers[f] = c]
      /\ Emit(<<Event("touchDown", f)>>)

(* Mutant: the slot is not freed when the contact ends.                    *)
TouchUp_kept(c) ==
    \E f \in SlotOf(c) : UNCHANGED input /\ Emit(<<Event("touchUp", f)>>)

TouchUp(c) ==
    \E f \in SlotOf(c) :
      /\ input' = [input EXCEPT !.fingers[f] = None]
      /\ Emit(<<Event("touchUp", f)>>)

TouchMessage ==
    \E c \in Contact :
      \/ TouchDown(c) \/ TouchUp(c)
      \/ \E f \in SlotOf(c) : Emit(<<Event("touchMotion", f)>>) /\ UNCHANGED input

-----------------------------------------------------------------------------
(* Text and composition.  shown is what the last UPDATE since the last     *)
(* COMMIT was about, stuck that a composition ended with a result before   *)
(* such an UPDATE, which withholds the CANCEL: both are history.           *)

CharMessage ==
    /\ Emit(<<Plain("commit")>>)
    /\ input' = [input EXCEPT !.ime.shown = NoText]

ImeStart ==
    /\ ~input.ime.on
    /\ input' = [input EXCEPT !.ime = [NoComposition EXCEPT !.on = TRUE,
                                                            !.stuck = input.ime.stuck]]
    /\ Emit(<<Plain("start")>>)

(* A result, a new preedit text, or a result and then a text.              *)
ImeComposition ==
    /\ input.ime.on
    /\ \/ /\ input' = [input EXCEPT !.ime.committed = TRUE, !.ime.shown = NoText]
          /\ Emit(<<Plain("commit")>>)
       \/ \E t \in Text \cup {NoText}, result \in BOOLEAN :
            /\ input' = [input EXCEPT !.ime.committed = IF result THEN TRUE ELSE @,
                                      !.ime.text = t, !.ime.shown = t]
            /\ Emit((IF result THEN <<Plain("commit")>> ELSE <<>>) \o <<Plain("update")>>)

(* Mutant: a composition that ends without a result is not announced.      *)
Abandoned_never(ime) == ime.on /\ ime.text # NoText /\ ime.committed

Abandoned(ime) == ime.on /\ ime.text # NoText /\ ~ime.committed

ImeEnd ==
    LET ime == input.ime
    IN  /\ ime.on
        /\ input' = [input EXCEPT !.ime = [NoComposition EXCEPT
                       !.stuck = ime.stuck \/ (ime.committed /\ ime.shown # NoText)]]
        /\ Emit(IF Abandoned(ime) THEN <<Plain("cancel")>> ELSE <<>>)

-----------------------------------------------------------------------------
(* WM_QUIT comes from outside: nothing in the runtime posts it.            *)
QuitMessage == Emit(<<Plain("quit")>>) /\ UNCHANGED input

Message == \/ KeyMessage \/ ButtonMessage \/ KillFocus \/ PlainMessage \/ Size
           \/ TouchMessage \/ CharMessage \/ ImeStart \/ ImeComposition \/ ImeEnd
           \/ QuitMessage

(* A controller is polled: gone, or there with or without changes.         *)
PollPad(p) ==
    \/ /\ p \in input.pads
       /\ input' = [input EXCEPT !.pads = @ \ {p}]
       /\ Emit(<<Event("removed", p)>>)
    \/ \E changed \in BOOLEAN :
         /\ input' = [input EXCEPT !.pads = @ \cup {p}]
         /\ Emit((IF p \in input.pads THEN <<>> ELSE <<Event("added", p)>>)
                 \o (IF changed THEN <<Event("padInput", p)>> ELSE <<>>))
    \/ p \notin input.pads /\ UNCHANGED platformVars

(* Events and platform state have their types, the ring its size.          *)
PlatformTypeOK ==
    /\ input \in [keys : SUBSET Key, buttons : SUBSET Button, pads : SUBSET Pad,
                  fingers : [1 .. MaxFingers -> Contact \cup {None}],
                  ime : [on : BOOLEAN, committed : BOOLEAN, stuck : BOOLEAN,
                         text : Text \cup {NoText}, shown : Text \cup {NoText}]]
    /\ Len(ring) <= RingCap
    /\ \A i \in 1 .. Len(ring) : ring[i].n \in 1 .. made
    /\ made \in 0 .. MaxEvents
=============================================================================
