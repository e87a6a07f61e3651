-------------------------- MODULE FrameLoop_proofs --------------------------
(***************************************************************************)
(* Events keep their order, their meaning and their controllers from the   *)
(* platform's ring to the guest, a composition that has ended leaves no    *)
(* text behind, and a QUIT leaves the guest one frame, for every size of   *)
(* ring, batch, queue and table, every number of keys, contacts and        *)
(* controllers.                                                            *)
(*                                                                         *)
(* First what one offer to a full queue does and what each message emits,  *)
(* then the type invariant with the types of the events, and on top of it  *)
(* one inductive invariant for each property.  Four of them need to know   *)
(* only what a step does to the events on the way: it pushes events, puts  *)
(* a translation in the place of the oldest one, pops one, or does nothing *)
(* (WaySteps).                                                             *)
(***************************************************************************)
EXTENDS FrameLoop, SequenceTheorems, TLAPS

(* Events, with the argument that their kind calls for.                    *)
Kind == {"keyDown", "keyUp", "mouseDown", "mouseUp", "blur", "motion", "window",
         "touchDown", "touchUp", "touchMotion", "commit", "start", "update", "cancel",
         "quit", "added", "removed", "padInput", "pointer"}
Argument == Key \cup Button \cup (1 .. MaxFingers) \cup Pad \cup {None}
EventRecord == [kind : Kind, arg : Argument, n : Nat, text : Text \cup {NoText}, gen : Nat]
Suits(e) ==
    /\ e.kind \in {"keyDown", "keyUp"}              => e.arg \in Key
    /\ e.kind \in {"mouseDown", "mouseUp"}          => e.arg \in Button
    /\ e.kind \in {"touchDown", "touchUp"}          => e.arg \in 1 .. MaxFingers
    /\ e.kind \in {"added", "removed", "padInput"}  => e.arg \in Pad
Evt == {e \in EventRecord : Suits(e)}

Composition == [on : BOOLEAN, committed : BOOLEAN, stuck : BOOLEAN,
                text : Text \cup {NoText}, shown : Text \cup {NoText}]
Input == [keys : SUBSET Key, buttons : SUBSET Button, pads : SUBSET Pad,
          fingers : [1 .. MaxFingers -> Contact \cup {None}], ime : Composition]
View == [n : Nat, keys : SUBSET Key, buttons : SUBSET Button,
         fingers : SUBSET (1 .. MaxFingers), pads : SUBSET Pad,
         gens : [Pad -> Seq(Nat)], text : Text \cup {NoText}]

(* The type invariant, and the types of what is on the way.                *)
Types ==
    /\ TypeOK
    /\ ring \in Seq(Evt) /\ batch \in Seq(Evt) /\ queue \in Seq(Evt)
    /\ view \in View
    /\ pc = "translate" <=> batch # <<>>

-----------------------------------------------------------------------------
(* Offers.                                                                 *)

(* m is the number of events evs that a queue q of the given size takes.   *)
Fits(q, size, evs, m) ==
    /\ Len(q) <= size
    /\ m = IF Len(q) + Len(evs) <= size THEN Len(evs) ELSE size - Len(q)

(* Of a sequence of events offered to a queue of bounded size, the first m *)
(* are taken and the others refused.                                       *)
LEMMA Offered ==
    ASSUME NEW S, NEW size \in Nat, NEW q \in Seq(S), NEW evs \in Seq(S), NEW m,
           Fits(q, size, evs, m)
    PROVE  /\ m \in 0 .. Len(evs) /\ Len(q) + m <= size
           /\ SubSeq(evs, 1, m) \in Seq(S) /\ Len(SubSeq(evs, 1, m)) = m
           /\ \A i \in 1 .. m : SubSeq(evs, 1, m)[i] = evs[i]
           /\ Len(SubSeq(evs, m + 1, Len(evs))) = Len(evs) - m
           /\ \A i \in 1 .. Len(evs) - m : SubSeq(evs, m + 1, Len(evs))[i] = evs[m + i]
<1>1. Len(q) \in Nat /\ Len(evs) \in Nat
  OBVIOUS
<1>2. m \in 0 .. Len(evs) /\ Len(q) + m <= size /\ m \in Nat
  BY <1>1 DEF Fits
<1>3. \A i \in 1 .. Len(evs) : evs[i] \in S
  BY ElementOfSeq
<1>4. \A i \in 1 .. m : evs[i] \in S
  BY <1>1, <1>2, <1>3
<1>5. \A i \in m + 1 .. Len(evs) : evs[i] \in S
  BY <1>1, <1>2, <1>3
<1>6. /\ SubSeq(evs, 1, m) \in Seq(S)
      /\ Len(SubSeq(evs, 1, m)) = IF 1 <= m THEN m - 1 + 1 ELSE 0
      /\ \A i \in 1 .. m - 1 + 1 : SubSeq(evs, 1, m)[i] = evs[1 + i - 1]
  BY <1>2, <1>4, SubSeqProperties
<1> DEFINE a == m + 1
           b == Len(evs)
           c == b - m
<1>7. /\ a \in Int /\ b \in Int /\ c \in Nat /\ a = m + 1 /\ b = Len(evs)
      /\ b - a + 1 = c /\ (a <= b <=> c # 0) /\ c = Len(evs) - m
  BY <1>1, <1>2
<1>11. \A i \in Int : a + i - 1 = m + i
  BY <1>2
<1> HIDE DEF a, b, c
<1>8. /\ Len(SubSeq(evs, a, b)) = IF a <= b THEN b - a + 1 ELSE 0
      /\ \A i \in 1 .. b - a + 1 : SubSeq(evs, a, b)[i] = evs[a + i - 1]
  <2>1. \A i \in a .. b : evs[i] \in S
    BY <1>5, <1>7
  <2>2. a \in Int /\ b \in Int
    BY <1>7
  <2> QED BY <2>1, <2>2, SubSeqProperties
<1>9. /\ Len(SubSeq(evs, a, b)) = c
      /\ \A i \in 1 .. c : SubSeq(evs, a, b)[i] = evs[m + i]
  <2>1. b - a + 1 = c /\ (a <= b <=> c # 0)
    BY <1>7
  <2>2. Len(SubSeq(evs, a, b)) = c
    BY <1>8, <2>1
  <2>3. \A i \in 1 .. c : SubSeq(evs, a, b)[i] = evs[a + i - 1]
    BY Zenon, <1>8, <2>1
  <2>4. c \in Nat
    BY <1>7
  <2>5. ASSUME NEW i \in 1 .. c PROVE SubSeq(evs, a, b)[i] = evs[m + i]
    <3>1. a + i - 1 = m + i
      BY <1>11, <2>4
    <3>2. SubSeq(evs, a, b)[i] = evs[a + i - 1]
      BY <2>3
    <3> QED BY <3>1, <3>2
  <2> QED BY <2>2, <2>5
<1>10. /\ Len(SubSeq(evs, 1, m)) = m
       /\ \A i \in 1 .. m : SubSeq(evs, 1, m)[i] = evs[i]
  <2>1. m - 1 + 1 = m /\ (1 <= m <=> m # 0) /\ \A i \in Int : 1 + i - 1 = i
    BY <1>2
  <2> QED BY <1>6, <2>1
<1> QED BY <1>2, <1>6, <1>7, <1>9, <1>10

(* Events that are refused leave a mark in lost.                           *)
LEMMA RefusedMarked ==
    ASSUME NEW evs, NEW i \in 1 .. Len(evs)
    PROVE  About(evs[i].kind) \subseteq AboutAll(evs)
BY DEF AboutAll

-----------------------------------------------------------------------------
(* Events.                                                                 *)

(* What translation and numbering change of an event leaves it an event.   *)
LEMMA EventChanges ==
    ASSUME NEW e \in Evt, NEW k \in Nat, NEW t \in Text \cup {NoText}
    PROVE  /\ [e EXCEPT !.n = k] \in Evt /\ [e EXCEPT !.text = t] \in Evt
           /\ [e EXCEPT !.gen = k] \in Evt /\ [e EXCEPT !.kind = "pointer"] \in Evt
           /\ e.n \in Nat /\ e.gen \in Nat /\ e.text \in Text \cup {NoText}
           /\ e.kind \in Kind /\ e.arg \in Argument
<1>1. e \in EventRecord /\ Suits(e)
  BY DEF Evt
<1>2. /\ [e EXCEPT !.n = k] \in EventRecord /\ [e EXCEPT !.n = k].kind = e.kind
      /\ [e EXCEPT !.n = k].arg = e.arg
  BY <1>1 DEF EventRecord
<1>3. /\ [e EXCEPT !.text = t] \in EventRecord /\ [e EXCEPT !.text = t].kind = e.kind
      /\ [e EXCEPT !.text = t].arg = e.arg
  BY <1>1 DEF EventRecord
<1>4. /\ [e EXCEPT !.gen = k] \in EventRecord /\ [e EXCEPT !.gen = k].kind = e.kind
      /\ [e EXCEPT !.gen = k].arg = e.arg
  BY <1>1 DEF EventRecord
<1>5. /\ [e EXCEPT !.kind = "pointer"] \in EventRecord
      /\ [e EXCEPT !.kind = "pointer"].kind = "pointer"
  BY <1>1 DEF EventRecord, Kind
<1>6. ASSUME NEW f \in EventRecord, f.kind = e.kind, f.arg = e.arg
      PROVE  f \in Evt
  BY <1>1, <1>6 DEF Evt, Suits
<1>7. ASSUME NEW f \in EventRecord, f.kind = "pointer"
      PROVE  f \in Evt
  BY <1>7 DEF Evt, Suits
<1>8. /\ e.n \in Nat /\ e.gen \in Nat /\ e.text \in Text \cup {NoText}
      /\ e.kind \in Kind /\ e.arg \in Argument
  BY <1>1 DEF EventRecord
<1> QED BY <1>2, <1>3, <1>4, <1>5, <1>6, <1>7, <1>8

(* A new event of a kind that suits its argument.                          *)
LEMMA NewEvent ==
    ASSUME NEW kind \in Kind, NEW a \in Argument,
           kind \in {"keyDown", "keyUp"} => a \in Key,
           kind \in {"mouseDown", "mouseUp"} => a \in Button,
           kind \in {"touchDown", "touchUp"} => a \in 1 .. MaxFingers,
           kind \in {"added", "removed", "padInput"} => a \in Pad
    PROVE  /\ Event(kind, a) \in Evt
           /\ Event(kind, a).kind = kind /\ Event(kind, a).arg = a
BY DEF Event, Evt, EventRecord, Suits

(* Sequences of at most two events.                                        *)
LEMMA Few ==
    ASSUME NEW S
    PROVE  /\ <<>> \in Seq(S) /\ Len(<<>>) = 0
           /\ \A a \in S : /\ <<a>> \in Seq(S) /\ Len(<<a>>) = 1 /\ <<a>>[1] = a
                           /\ <<>> \o <<a>> = <<a>> /\ <<a>> \o <<>> = <<a>>
           /\ \A a \in S, b \in S :
                /\ <<a, b>> \in Seq(S) /\ Len(<<a, b>>) = 2
                /\ <<a, b>>[1] = a /\ <<a, b>>[2] = b /\ <<a>> \o <<b>> = <<a, b>>
<1>1. ASSUME NEW a \in S PROVE <<a>> \in Seq(S) /\ <<>> \o <<a>> = <<a>> /\ <<a>> \o <<>> = <<a>>
  BY ConcatEmptySeq
<1>2. ASSUME NEW a \in S, NEW b \in S PROVE <<a, b>> \in Seq(S) /\ <<a>> \o <<b>> = <<a, b>>
  <2>1. <<a>> \in Seq(S) /\ <<b>> \in Seq(S) /\ <<a, b>> \in Seq(S)
    OBVIOUS
  <2>2. /\ <<a>> \o <<b>> \in Seq(S) /\ Len(<<a>> \o <<b>>) = 2
        /\ \A i \in 1 .. 2 : (<<a>> \o <<b>>)[i] = IF i <= 1 THEN a ELSE <<b>>[i - 1]
    <3>1. /\ <<a>> \o <<b>> \in Seq(S) /\ Len(<<a>> \o <<b>>) = Len(<<a>>) + Len(<<b>>)
          /\ \A i \in 1 .. Len(<<a>>) + Len(<<b>>) :
               (<<a>> \o <<b>>)[i] = IF i <= Len(<<a>>) THEN <<a>>[i] ELSE <<b>>[i - Len(<<a>>)]
      BY <2>1, ConcatProperties
    <3> QED BY <3>1
  <2>3. \A i \in 1 .. 2 : (<<a>> \o <<b>>)[i] = <<a, b>>[i]
    BY <2>2
  <2> QED BY <2>1, <2>2, <2>3, SeqEqual
<1> QED BY <1>1, <1>2

(* What is known after evs were pushed and new of them found room.         *)
Pushed(evs, new) ==
    /\ Len(new) <= Len(evs)
    /\ \A i \in 1 .. Len(new) : new[i] = [evs[i] EXCEPT !.n = made + i]
    /\ \A i \in 1 .. Len(evs) : i <= Len(new) \/ About(evs[i].kind) \subseteq lost'
    /\ ring' = ring \o new /\ ring' \in Seq(Evt) /\ Len(ring') <= RingCap
    /\ made' = made + Len(evs) /\ made' \in 0 .. MaxEvents /\ lost \subseteq lost'

(* A push appends the first events to the ring, numbered; those that do    *)
(* not fit are marked as lost.                                             *)
LEMMA EmitEffect ==
    ASSUME Types, NEW evs \in Seq(Evt), Emit(evs)
    PROVE  \E new \in Seq(Evt) : Pushed(evs, new)
<1> DEFINE numbered == [i \in 1 .. Len(evs) |-> [evs[i] EXCEPT !.n = made + i]]
           m == IF Len(ring) + Len(numbered) <= RingCap THEN Len(numbered) ELSE RingCap - Len(ring)
           new == SubSeq(numbered, 1, m)
           rest == SubSeq(numbered, m + 1, Len(numbered))
<1>1. /\ ring \in Seq(Evt) /\ Len(ring) <= RingCap /\ RingCap \in Nat /\ made \in Nat
      /\ MaxEvents \in Nat /\ Len(evs) \in Nat
  BY InputAssumption DEF Types, TypeOK, PlatformTypeOK
<1>2. \A i \in 1 .. Len(evs) : numbered[i] \in Evt /\ numbered[i].kind = evs[i].kind
  <2> SUFFICES ASSUME NEW i \in 1 .. Len(evs)
               PROVE  numbered[i] \in Evt /\ numbered[i].kind = evs[i].kind
    OBVIOUS
  <2>1. evs[i] \in Evt /\ made + i \in Nat
    BY <1>1, ElementOfSeq
  <2>2. numbered[i] = [evs[i] EXCEPT !.n = made + i]
    OBVIOUS
  <2>3. [evs[i] EXCEPT !.n = made + i] \in Evt
    BY <2>1, EventChanges
  <2>4. [evs[i] EXCEPT !.n = made + i].kind = evs[i].kind
    BY <2>1 DEF Evt, EventRecord
  <2> QED BY <2>2, <2>3, <2>4
<1>3. numbered \in Seq(Evt) /\ Len(numbered) = Len(evs)
  BY <1>1, <1>2
<1>4. /\ ring' = ring \o new /\ made' = made + Len(evs) /\ made + Len(evs) <= MaxEvents
      /\ lost' = lost \cup AboutAll(rest)
  BY DEF Emit, Ring!OfferAll, Ring!Refused, Ring!Fitting
<1>5. \A i \in 1 .. Len(evs) : numbered[i] = [evs[i] EXCEPT !.n = made + i]
  OBVIOUS
<1> HIDE DEF numbered
<1>6. Fits(ring, RingCap, numbered, m)
  BY <1>1 DEF Fits
<1> HIDE DEF m
<1>7. /\ m \in 0 .. Len(evs) /\ Len(ring) + m <= RingCap
      /\ new \in Seq(Evt) /\ Len(new) = m
      /\ \A i \in 1 .. m : new[i] = numbered[i]
      /\ Len(rest) = Len(evs) - m
      /\ \A i \in 1 .. Len(evs) - m : rest[i] = numbered[m + i]
  <2>1. /\ m \in 0 .. Len(numbered) /\ Len(ring) + m <= RingCap
        /\ SubSeq(numbered, 1, m) \in Seq(Evt) /\ Len(SubSeq(numbered, 1, m)) = m
        /\ \A i \in 1 .. m : SubSeq(numbered, 1, m)[i] = numbered[i]
        /\ Len(SubSeq(numbered, m + 1, Len(numbered))) = Len(numbered) - m
        /\ \A i \in 1 .. Len(numbered) - m :
             SubSeq(numbered, m + 1, Len(numbered))[i] = numbered[m + i]
    BY <1>1, <1>3, <1>6, Offered
  <2> QED BY Zenon, <1>3, <2>1
<1> HIDE DEF new, rest
<1>8. ASSUME NEW i \in 1 .. Len(new)
      PROVE  new[i] = [evs[i] EXCEPT !.n = made + i]
  <2>1. i \in 1 .. m /\ i \in 1 .. Len(evs)
    BY <1>1, <1>7
  <2> QED BY <1>5, <1>7, <2>1
<1>9. \A i \in 1 .. Len(evs) : i <= Len(new) \/ About(evs[i].kind) \subseteq lost'
  <2> SUFFICES ASSUME NEW i \in 1 .. Len(evs), ~(i <= m)
               PROVE  About(evs[i].kind) \subseteq lost'
    BY <1>7
  <2>1. i - m \in 1 .. Len(evs) - m /\ m + (i - m) = i
    BY <1>1, <1>7
  <2>2. rest[i - m] = numbered[i]
    BY <1>7, <2>1
  <2>3. About(rest[i - m].kind) \subseteq AboutAll(rest)
    BY <1>7, <2>1, RefusedMarked
  <2>4. rest[i - m].kind = evs[i].kind
    BY <1>2, <2>2
  <2> QED BY <1>4, <2>3, <2>4
<1>10. ring' \in Seq(Evt) /\ Len(ring') <= RingCap
  BY <1>1, <1>4, <1>7, ConcatProperties
<1>11. made' \in 0 .. MaxEvents /\ lost \subseteq lost' /\ Len(new) <= Len(evs)
  BY <1>1, <1>4, <1>7
<1> QED BY <1>4, <1>7, <1>8, <1>9, <1>10, <1>11 DEF Pushed

-----------------------------------------------------------------------------
(* What the window procedure and the poll of a controller emit.            *)

(* Events about controllers.                                               *)
PadKind == {"added", "removed", "padInput"}

(* A step of the platform that emits evs and is about no controller.       *)
Emits(evs) ==
    /\ Emit(evs) /\ input' \in Input /\ input'.pads = input.pads
    /\ \A i \in 1 .. Len(evs) : evs[i].kind \notin PadKind

(* Events without an argument, and with one.                               *)
LEMMA EventKinds ==
    /\ \A kind \in {"blur", "motion", "window", "commit", "start", "update", "cancel", "quit"} :
         Plain(kind) \in Evt /\ Plain(kind).kind = kind /\ kind \notin PadKind
    /\ \A k \in Key, kind \in {"keyDown", "keyUp"} :
         Event(kind, k) \in Evt /\ Event(kind, k).kind = kind /\ Event(kind, k).arg = k
    /\ \A b \in Button, kind \in {"mouseDown", "mouseUp"} :
         Event(kind, b) \in Evt /\ Event(kind, b).kind = kind /\ Event(kind, b).arg = b
    /\ \A f \in 1 .. MaxFingers, kind \in {"touchDown", "touchUp", "touchMotion"} :
         Event(kind, f) \in Evt /\ Event(kind, f).kind = kind /\ Event(kind, f).arg = f
    /\ \A p \in Pad, kind \in PadKind :
         Event(kind, p) \in Evt /\ Event(kind, p).kind = kind /\ Event(kind, p).arg = p
<1>1. ASSUME NEW kind \in {"blur", "motion", "window", "commit", "start", "update", "cancel", "quit"}
      PROVE  Plain(kind) \in Evt /\ Plain(kind).kind = kind /\ kind \notin PadKind
  BY DEF Plain, Event, Evt, EventRecord, Suits, Kind, Argument, PadKind
<1>2. ASSUME NEW k \in Key, NEW kind \in {"keyDown", "keyUp"}
      PROVE  Event(kind, k) \in Evt /\ Event(kind, k).kind = kind /\ Event(kind, k).arg = k
  BY DEF Event, Evt, EventRecord, Suits, Kind, Argument
<1>3. ASSUME NEW b \in Button, NEW kind \in {"mouseDown", "mouseUp"}
      PROVE  Event(kind, b) \in Evt /\ Event(kind, b).kind = kind /\ Event(kind, b).arg = b
  BY DEF Event, Evt, EventRecord, Suits, Kind, Argument
<1>4. ASSUME NEW f \in 1 .. MaxFingers, NEW kind \in {"touchDown", "touchUp", "touchMotion"}
      PROVE  Event(kind, f) \in Evt /\ Event(kind, f).kind = kind /\ Event(kind, f).arg = f
  BY DEF Event, Evt, EventRecord, Suits, Kind, Argument
<1>5. ASSUME NEW p \in Pad, NEW kind \in PadKind
      PROVE  Event(kind, p) \in Evt /\ Event(kind, p).kind = kind /\ Event(kind, p).arg = p
  BY DEF Event, Evt, EventRecord, Suits, Kind, Argument, PadKind
<1> QED BY <1>1, <1>2, <1>3, <1>4, <1>5

(* A step that emits one event, or two.                                    *)
LEMMA EmitsFew ==
    ASSUME input' \in Input, input'.pads = input.pads
    PROVE  /\ Emit(<<>>) => Emits(<<>>)
           /\ \A a \in Evt : Emit(<<a>>) /\ a.kind \notin PadKind => Emits(<<a>>)
           /\ \A a \in Evt, b \in Evt :
                Emit(<<a, b>>) /\ a.kind \notin PadKind /\ b.kind \notin PadKind
                  => Emits(<<a, b>>)
BY DEF Emits

(* Keyboard, mouse and focus.                                              *)
LEMMA KeysEffect ==
    ASSUME Types, KeyMessage \/ ButtonMessage \/ KillFocus
    PROVE  \E evs \in Seq(Evt) : Emits(evs)
<1> USE DEF PadKind
<1>1. input \in Input
  BY DEF Types, TypeOK, PlatformTypeOK, Input, Composition
<1>2. CASE KeyMessage
  <2>1. PICK k \in Key, kind \in {"keyDown", "keyUp"} :
          /\ input' \in {[input EXCEPT !.keys = @ \cup {k}], [input EXCEPT !.keys = @ \ {k}]}
          /\ Emit(<<Event(kind, k)>>)
    BY <1>2 DEF KeyMessage
  <2>2. input' \in Input /\ input'.pads = input.pads
    BY <1>1, <2>1 DEF Input
  <2>3. Event(kind, k) \in Evt /\ Event(kind, k).kind \notin PadKind
    BY EventKinds
  <2>4. Emits(<<Event(kind, k)>>)
    BY <2>1, <2>2, <2>3, EmitsFew
  <2> QED BY <2>3, <2>4, Few
<1>3. CASE ButtonMessage
  <2>1. PICK b \in Button, kind \in {"mouseDown", "mouseUp"} :
          /\ input' \in {[input EXCEPT !.buttons = @ \cup {b}],
                         [input EXCEPT !.buttons = @ \ {b}]}
          /\ Emit(<<Event(kind, b)>>)
    BY <1>3 DEF ButtonMessage
  <2>2. input' \in Input /\ input'.pads = input.pads
    BY <1>1, <2>1 DEF Input
  <2>3. Event(kind, b) \in Evt /\ Event(kind, b).kind \notin PadKind
    BY EventKinds
  <2>4. Emits(<<Event(kind, b)>>)
    BY <2>1, <2>2, <2>3, EmitsFew
  <2> QED BY <2>3, <2>4, Few
<1>4. CASE KillFocus
  <2>1. input' \in Input /\ input'.pads = input.pads
    BY <1>1, <1>4 DEF KillFocus, Input
  <2>2. Plain("blur") \in Evt /\ Plain("blur").kind \notin PadKind
    BY EventKinds
  <2>3. Emits(<<Plain("blur")>>)
    BY <1>4, <2>1, <2>2, EmitsFew DEF KillFocus
  <2> QED BY <2>2, <2>3, Few
<1> QED BY <1>2, <1>3, <1>4

(* Touch: only the finger slots change.                                    *)
LEMMA TouchEffect ==
    ASSUME Types, TouchMessage
    PROVE  \E evs \in Seq(Evt) : Emits(evs)
<1> USE DEF PadKind
<1>1. input \in Input
  BY DEF Types, TypeOK, PlatformTypeOK, Input, Composition
<1>2. PICK c \in Contact : \/ TouchDown(c) \/ TouchUp(c)
                           \/ \E f \in SlotOf(c) : Emit(<<Event("touchMotion", f)>>)
                                                   /\ UNCHANGED input
  BY DEF TouchMessage
<1>3. PICK f \in 1 .. MaxFingers, kind \in {"touchDown", "touchUp", "touchMotion"} :
        /\ input' \in {[input EXCEPT !.fingers[f] = c], [input EXCEPT !.fingers[f] = None], input}
        /\ Emit(<<Event(kind, f)>>)
  BY <1>2 DEF TouchDown, TouchUp, SlotOf
<1>4. input' \in Input /\ input'.pads = input.pads
  <2>1. /\ [input.fingers EXCEPT ![f] = c] \in [1 .. MaxFingers -> Contact \cup {None}]
        /\ [input.fingers EXCEPT ![f] = None] \in [1 .. MaxFingers -> Contact \cup {None}]
    BY <1>1 DEF Input
  <2>2. /\ [input EXCEPT !.fingers[f] = c]
             = [input EXCEPT !.fingers = [input.fingers EXCEPT ![f] = c]]
        /\ [input EXCEPT !.fingers[f] = None]
             = [input EXCEPT !.fingers = [input.fingers EXCEPT ![f] = None]]
    OBVIOUS
  <2>3. ASSUME NEW g \in [1 .. MaxFingers -> Contact \cup {None}]
        PROVE  /\ [input EXCEPT !.fingers = g] \in Input
               /\ [input EXCEPT !.fingers = g].pads = input.pads
    BY <1>1 DEF Input
  <2>4. CASE input' = [input EXCEPT !.fingers[f] = c]
    BY Zenon, <2>1, <2>2, <2>3, <2>4
  <2>5. CASE input' = [input EXCEPT !.fingers[f] = None]
    BY Zenon, <2>1, <2>2, <2>3, <2>5
  <2> QED BY Zenon, <1>1, <1>3, <2>4, <2>5
<1>5. Event(kind, f) \in Evt /\ Event(kind, f).kind \notin PadKind
  BY EventKinds
<1>6. Emits(<<Event(kind, f)>>)
  BY <1>3, <1>4, <1>5, EmitsFew
<1> QED BY <1>5, <1>6, Few

(* Messages that change nothing in the input.                              *)
LEMMA PlainEffect ==
    ASSUME Types, PlainMessage \/ Size \/ QuitMessage
    PROVE  \E evs \in Seq(Evt) : Emits(evs)
<1> USE DEF PadKind
<1>1. input' \in Input /\ input'.pads = input.pads
  BY DEF Types, TypeOK, PlatformTypeOK, Input, Composition, PlainMessage, Size, QuitMessage
<1>2. /\ Plain("motion") \in Evt /\ Plain("motion").kind = "motion"
      /\ Plain("window") \in Evt /\ Plain("window").kind = "window"
      /\ Plain("quit") \in Evt /\ Plain("quit").kind = "quit"
  BY EventKinds
<1>3. \/ Emit(<<Plain("motion")>>) \/ Emit(<<Plain("window")>>) \/ Emit(<<Plain("quit")>>)
      \/ Emit(<<Plain("window"), Plain("window")>>)
  BY DEF PlainMessage, Size, QuitMessage
<1>4. \/ Emits(<<Plain("motion")>>) \/ Emits(<<Plain("window")>>) \/ Emits(<<Plain("quit")>>)
      \/ Emits(<<Plain("window"), Plain("window")>>)
  BY <1>1, <1>2, <1>3, EmitsFew
<1> QED BY <1>2, <1>4, Few

(* What is emitted about text, of which only the composition changes.      *)
TextEmits == \/ Emit(<<>>) \/ Emit(<<Plain("commit")>>) \/ Emit(<<Plain("start")>>)
             \/ Emit(<<Plain("update")>>) \/ Emit(<<Plain("cancel")>>)
             \/ Emit(<<Plain("commit"), Plain("update")>>)

(* Of a message about text only the composition changes, and the events    *)
(* are those of TextEmits.                                                 *)
LEMMA TextInput ==
    ASSUME Types, CharMessage \/ ImeStart \/ ImeComposition \/ ImeEnd
    PROVE  \E i \in Composition : input' = [input EXCEPT !.ime = i] /\ TextEmits
<1>1. input \in Input /\ input.ime \in Composition /\ NoComposition \in Composition
  BY DEF Types, TypeOK, PlatformTypeOK, Input, Composition, NoComposition
<1>3. /\ Plain("commit") \in Evt /\ Plain("commit").kind = "commit"
      /\ Plain("start") \in Evt /\ Plain("start").kind = "start"
      /\ Plain("update") \in Evt /\ Plain("update").kind = "update"
      /\ Plain("cancel") \in Evt /\ Plain("cancel").kind = "cancel"
  BY EventKinds
<1>4. ASSUME NEW i \in Composition, input' = [input EXCEPT !.ime = i], TextEmits
      PROVE  \E j \in Composition : input' = [input EXCEPT !.ime = j] /\ TextEmits
  BY <1>4
<1>5. CASE CharMessage
  <2>1. input' = [input EXCEPT !.ime = [input.ime EXCEPT !.shown = NoText]]
    BY <1>5 DEF CharMessage
  <2>2. [input.ime EXCEPT !.shown = NoText] \in Composition
    BY <1>1 DEF Composition
  <2> QED BY <1>4, <1>5, <2>1, <2>2 DEF CharMessage, TextEmits
<1>6. CASE ImeStart
  <2>1. [NoComposition EXCEPT !.on = TRUE, !.stuck = input.ime.stuck] \in Composition
    BY <1>1 DEF Composition, NoComposition
  <2> QED BY <1>4, <1>6, <2>1 DEF ImeStart, TextEmits
<1>7. CASE ImeComposition
  <2>1. CASE /\ input' = [input EXCEPT !.ime.committed = TRUE, !.ime.shown = NoText]
             /\ Emit(<<Plain("commit")>>)
    <3>1. input' = [input EXCEPT !.ime = [input.ime EXCEPT !.committed = TRUE, !.shown = NoText]]
      BY <1>1, <2>1 DEF Input
    <3>2. [input.ime EXCEPT !.committed = TRUE, !.shown = NoText] \in Composition
      BY <1>1 DEF Composition
    <3> QED BY <1>4, <2>1, <3>1, <3>2 DEF TextEmits
  <2>2. ASSUME NEW t \in Text \cup {NoText}, NEW result \in BOOLEAN,
               input' = [input EXCEPT !.ime.committed = IF result THEN TRUE ELSE @,
                                      !.ime.text = t, !.ime.shown = t],
               Emit((IF result THEN <<Plain("commit")>> ELSE <<>>) \o <<Plain("update")>>)
        PROVE  \E i \in Composition : input' = [input EXCEPT !.ime = i] /\ TextEmits
    <3>4. PICK m \in BOOLEAN : m = IF result THEN TRUE ELSE input.ime.committed
      BY <1>1 DEF Composition
    <3>1. input' = [input EXCEPT !.ime = [input.ime EXCEPT !.committed = m,
                                                            !.text = t, !.shown = t]]
      <4>1. [input EXCEPT !.ime.committed = m, !.ime.text = t, !.ime.shown = t]
              = [input EXCEPT !.ime = [input.ime EXCEPT !.committed = m, !.text = t, !.shown = t]]
        BY <1>1 DEF Input, Composition
      <4>2. input' = [input EXCEPT !.ime.committed = m, !.ime.text = t, !.ime.shown = t]
        BY <2>2, <3>4
      <4> QED BY <4>1, <4>2
    <3>2. [input.ime EXCEPT !.committed = m, !.text = t, !.shown = t] \in Composition
      BY <1>1 DEF Composition
    <3>3. Emit(<<Plain("commit"), Plain("update")>>) \/ Emit(<<Plain("update")>>)
      <4>1. CASE result
        <5>1. Emit(<<Plain("commit")>> \o <<Plain("update")>>)
          BY <2>2, <4>1
        <5>2. <<Plain("commit")>> \o <<Plain("update")>> = <<Plain("commit"), Plain("update")>>
          BY <1>3, Few
        <5> QED BY <5>1, <5>2
      <4>2. CASE ~result
        <5>1. Emit(<<>> \o <<Plain("update")>>)
          BY <2>2, <4>2
        <5>2. <<>> \o <<Plain("update")>> = <<Plain("update")>>
          BY <1>3, Few
        <5> QED BY <5>1, <5>2
      <4> QED BY <4>1, <4>2
    <3> QED BY <1>4, <3>1, <3>2, <3>3 DEF TextEmits
  <2> QED BY <1>7, <2>1, <2>2 DEF ImeComposition
<1>8. CASE ImeEnd
  <2>1. PICK s \in BOOLEAN :
          s = (input.ime.stuck \/ (input.ime.committed /\ input.ime.shown # NoText))
    BY <1>1 DEF Composition
  <2>2. [NoComposition EXCEPT !.stuck = s] \in Composition
    BY <1>1 DEF Composition, NoComposition
  <2>3. /\ input' = [input EXCEPT !.ime = [NoComposition EXCEPT !.stuck = s]]
        /\ Emit(<<Plain("cancel")>>) \/ Emit(<<>>)
    BY <1>8, <2>1 DEF ImeEnd
  <2> QED BY <1>4, <2>2, <2>3 DEF TextEmits
<1> QED BY <1>5, <1>6, <1>7, <1>8

(* Text and composition.                                                   *)
LEMMA TextEffect ==
    ASSUME Types, CharMessage \/ ImeStart \/ ImeComposition \/ ImeEnd
    PROVE  \E evs \in Seq(Evt) : Emits(evs)
<1>1. input' \in Input /\ input'.pads = input.pads
  <2>1. input \in Input
    BY DEF Types, TypeOK, PlatformTypeOK, Input, Composition
  <2>2. PICK i \in Composition : input' = [input EXCEPT !.ime = i]
    BY TextInput
  <2> QED BY <2>1, <2>2 DEF Input
<1>2. /\ Plain("commit") \in Evt /\ Plain("commit").kind = "commit"
      /\ Plain("start") \in Evt /\ Plain("start").kind = "start"
      /\ Plain("update") \in Evt /\ Plain("update").kind = "update"
      /\ Plain("cancel") \in Evt /\ Plain("cancel").kind = "cancel"
  BY EventKinds
<1>3. \/ Emits(<<>>) \/ Emits(<<Plain("commit")>>) \/ Emits(<<Plain("start")>>)
      \/ Emits(<<Plain("update")>>) \/ Emits(<<Plain("cancel")>>)
      \/ Emits(<<Plain("commit"), Plain("update")>>)
  BY <1>1, <1>2, TextInput, EmitsFew DEF TextEmits, PadKind
<1> QED BY <1>2, <1>3, Few

(* Every message emits events that suit their kind, none of them about a   *)
(* controller.                                                             *)
LEMMA MessageEffect ==
    ASSUME Types, Message
    PROVE  \E evs \in Seq(Evt) : Emits(evs)
BY KeysEffect, TouchEffect, PlainEffect, TextEffect DEF Message

(* A controller is gone, was there or is new.                              *)
LEMMA PadEffect ==
    ASSUME Types, NEW p \in Pad, PollPad(p)
    PROVE  /\ Event("removed", p) \in Evt /\ Event("added", p) \in Evt
           /\ Event("padInput", p) \in Evt
           /\ \/ UNCHANGED platformVars
              \/ /\ p \in input.pads /\ input' = [input EXCEPT !.pads = @ \ {p}]
                 /\ Emit(<<Event("removed", p)>>)
              \/ /\ input' = [input EXCEPT !.pads = @ \cup {p}]
                 /\ \/ p \in input.pads /\ Emit(<<>>)
                    \/ Emit(<<Event("padInput", p)>>) /\ p \in input.pads
                    \/ Emit(<<Event("added", p)>>) /\ p \notin input.pads
                    \/ Emit(<<Event("added", p), Event("padInput", p)>>) /\ p \notin input.pads
<1>1. /\ Event("removed", p) \in Evt /\ Event("added", p) \in Evt
      /\ Event("padInput", p) \in Evt
  BY EventKinds DEF PadKind
<1>2. /\ <<Event("added", p)>> \o <<Event("padInput", p)>> = <<Event("added", p), Event("padInput", p)>>
      /\ <<>> \o <<Event("padInput", p)>> = <<Event("padInput", p)>>
      /\ <<Event("added", p)>> \o <<>> = <<Event("added", p)>>
      /\ <<>> \o <<>> = <<>>
  BY <1>1, Few, ConcatEmptySeq
<1> QED BY <1>1, <1>2 DEF PollPad

-----------------------------------------------------------------------------
(* Handles, translation and what the guest sees.                           *)

(* A controller keeps its handle, or gets a free one with a new generation.*)
LEMMA HandleForPadEffect ==
    ASSUME Types, NEW p \in Pad, HandleForPad(p)
    PROVE  \/ UNCHANGED deviceVars
           \/ /\ devh[p] = 0
              /\ \E h \in Handle :
                   /\ htype[h] = "free" /\ htype' = [htype EXCEPT ![h] = "pad"]
                   /\ next' = h + 1
                   /\ devh' = [devh EXCEPT ![p] = h] /\ gen' = [gen EXCEPT ![p] = @ + 1]
<1>1. CASE devh[p] # 0 \/ TableFull
  BY <1>1 DEF HandleForPad
<1>2. CASE devh[p] = 0 /\ ~TableFull
  <2>1. PICK h \in Handle : /\ HandleAlloc(h, "pad") /\ devh' = [devh EXCEPT ![p] = h]
                            /\ gen' = [gen EXCEPT ![p] = @ + 1]
    BY <1>2 DEF HandleForPad
  <2>2. h \in FreeIn(next, Limit) \cup FreeIn(First, next)
    BY <2>1 DEF HandleAlloc, Found, Lowest
  <2>3. htype[h] = "free" /\ htype' = [htype EXCEPT ![h] = "pad"] /\ next' = h + 1
    BY <2>1, <2>2 DEF HandleAlloc, FreeIn
  <2> QED BY <1>2, <2>1, <2>3
<1> QED BY <1>1, <1>2

DeviceTypes ==
    /\ htype \in [Handle -> {"free", "fixed", "pad"}] /\ next \in First .. Limit
    /\ devh \in [Pad -> Handle \cup {0}] /\ gen \in [Pad -> Nat]

(* A handle given out is one of the table.                                 *)
LEMMA HandleForPadTypes ==
    ASSUME Types, NEW p \in Pad, HandleForPad(p)
    PROVE  DeviceTypes'
<1>1. DeviceTypes
  BY DEF Types, TypeOK, DeviceTypes
<1>2. CASE UNCHANGED deviceVars
  BY <1>1, <1>2 DEF DeviceTypes, deviceVars
<1>3. ASSUME NEW h \in Handle, htype' = [htype EXCEPT ![h] = "pad"], next' = h + 1,
             devh' = [devh EXCEPT ![p] = h], gen' = [gen EXCEPT ![p] = @ + 1]
      PROVE  DeviceTypes'
  <2>1. next' \in First .. Limit
    BY <1>3, HandleAssumption DEF Handle
  <2>2. htype' \in [Handle -> {"free", "fixed", "pad"}] /\ devh' \in [Pad -> Handle \cup {0}]
    BY <1>1, <1>3 DEF DeviceTypes
  <2>3. gen' \in [Pad -> Nat]
    BY <1>1, <1>3 DEF DeviceTypes
  <2> QED BY <2>1, <2>2, <2>3 DEF DeviceTypes
<1> QED BY <1>2, <1>3, HandleForPadEffect

(* A handle taken back was one of the table.                               *)
LEMMA FreePadTypes ==
    ASSUME Types, NEW p \in Pad, FreePad(p)
    PROVE  DeviceTypes'
<1>1. DeviceTypes
  BY DEF Types, TypeOK, DeviceTypes
<1>2. CASE UNCHANGED deviceVars
  BY <1>1, <1>2 DEF DeviceTypes, deviceVars
<1>3. CASE /\ htype' = [htype EXCEPT ![devh[p]] = "free"] /\ next' = next
           /\ devh' = [devh EXCEPT ![p] = 0] /\ gen' = gen
  BY <1>1, <1>3 DEF DeviceTypes
<1> QED BY <1>2, <1>3 DEF FreePad, HandleFree

(* What a translation does to the handles.                                 *)
LEMMA DevicesTypes ==
    ASSUME Types, NEW e \in Evt, Devices(e)
    PROVE  DeviceTypes'
<1>1. CASE e.kind \in {"added", "padInput"}
  <2>1. e.arg \in Pad /\ HandleForPad(e.arg)
    BY <1>1 DEF Devices, Evt, Suits
  <2> QED BY <2>1, HandleForPadTypes
<1>2. CASE e.kind = "removed"
  <2>1. e.arg \in Pad /\ FreePad(e.arg)
    BY <1>2 DEF Devices, Evt, Suits
  <2> QED BY <2>1, FreePadTypes
<1>3. CASE e.kind \notin {"added", "padInput", "removed"}
  <2>1. UNCHANGED deviceVars
    BY <1>3 DEF Devices
  <2> QED BY <2>1 DEF deviceVars, DeviceTypes, Types, TypeOK
<1> QED BY <1>1, <1>2, <1>3

(* f is what e is translated to.                                           *)
Renders(e, f) ==
    /\ f \in Evt /\ f.kind = e.kind /\ f.arg = e.arg /\ f.n = e.n
    /\ f.text = IF e.kind \in {"start", "update"} THEN input.ime.text ELSE e.text
    /\ e.kind = "added" => f.gen = IF devh'[e.arg] = 0 THEN 0 ELSE gen'[e.arg]

(* g is the pointer event beside it.                                       *)
Companion(e, g) == g \in Evt /\ g.kind = "pointer" /\ g.n = e.n /\ e.kind \in Pointing

(* A translation is one event, or it and its pointer event.                *)
LEMMA TranslatedIs ==
    ASSUME Types, NEW e \in Evt, Devices(e)
    PROVE  \E f \in Evt : /\ Renders(e, f)
                          /\ \/ Translated(e) = <<f>>
                             \/ \E g \in Evt : Companion(e, g) /\ Translated(e) = <<f, g>>
<1>1. DeviceTypes'
  BY DevicesTypes
<1>2. input.ime.text \in Text \cup {NoText}
  BY DEF Types, TypeOK, PlatformTypeOK
<1>3. e \in EventRecord
  BY DEF Evt
<1>4. CASE e.kind \in Pointing
  <2>1. PICK g : g = [e EXCEPT !.kind = "pointer"]
    OBVIOUS
  <2>2. g \in Evt /\ g.kind = "pointer" /\ g.n = e.n
    <3>1. 0 \in Nat /\ NoText \in Text \cup {NoText}
      OBVIOUS
    <3> QED BY <1>3, <2>1, <3>1, EventChanges DEF EventRecord
  <2>3. Translated(e) = <<e, g>>
    BY <1>4, <2>1 DEF Translated, Pointing
  <2>4. e.kind \notin {"start", "update", "added"}
    BY <1>4 DEF Pointing
  <2>5. Renders(e, e)
    BY <2>4 DEF Renders
  <2> QED BY <1>4, <2>2, <2>3, <2>5 DEF Companion
<1>5. CASE e.kind \in {"start", "update"}
  <2>1. PICK f : f = [e EXCEPT !.text = input.ime.text]
    OBVIOUS
  <2>2. f \in Evt
    <3>1. 0 \in Nat
      OBVIOUS
    <3> QED BY <1>2, <2>1, <3>1, EventChanges
  <2>3. f.kind = e.kind /\ f.arg = e.arg /\ f.n = e.n /\ f.text = input.ime.text
    BY <1>3, <2>1 DEF EventRecord
  <2>4. Translated(e) = <<f>>
    BY <1>5, <2>1 DEF Translated, Pointing
  <2>5. Renders(e, f)
    BY <1>5, <2>2, <2>3 DEF Renders
  <2> QED BY <2>2, <2>4, <2>5
<1>6. CASE e.kind = "added"
  <2>1. PICK k \in Nat : k = IF devh'[e.arg] = 0 THEN 0 ELSE gen'[e.arg]
    <3>1. e.arg \in Pad
      BY <1>6 DEF Evt, Suits
    <3>2. gen'[e.arg] \in Nat
      BY <1>1, <3>1 DEF DeviceTypes
    <3> QED BY <3>2
  <2>2. PICK f : f = [e EXCEPT !.gen = k]
    OBVIOUS
  <2>3. f \in Evt
    <3>1. NoText \in Text \cup {NoText}
      OBVIOUS
    <3> QED BY <2>2, <3>1, EventChanges
  <2>4. f.kind = e.kind /\ f.arg = e.arg /\ f.n = e.n /\ f.text = e.text /\ f.gen = k
    BY <1>3, <2>2 DEF EventRecord
  <2>5. Translated(e) = <<f>>
    BY <1>6, <2>1, <2>2 DEF Translated, Pointing
  <2>6. Renders(e, f)
    BY <1>6, <2>1, <2>3, <2>4 DEF Renders
  <2> QED BY <2>3, <2>5, <2>6
<1>7. CASE e.kind \notin Pointing \cup {"start", "update", "added"}
  <2>1. Translated(e) = <<e>>
    BY <1>7 DEF Translated
  <2>2. Renders(e, e)
    BY <1>7 DEF Renders
  <2> QED BY <2>1, <2>2
<1> QED BY <1>4, <1>5, <1>6, <1>7

(* What a translation puts into the queue: nothing, the event, or it and   *)
(* its companion.                                                          *)
Queued(e, new) ==
    \/ new = <<>> /\ About(e.kind) \subseteq lost'
    \/ \E f \in Evt : /\ Renders(e, f)
                      /\ \/ new = <<f>>
                         \/ \E g \in Evt : Companion(e, g) /\ new = <<f, g>>

(* Head and tail of the batch, and what came into the queue.               *)
LEMMA TranslateEffect ==
    ASSUME Types, Translate
    PROVE  /\ Head(batch) \in Evt /\ batch # <<>> /\ Devices(Head(batch))
           /\ batch' = Tail(batch) /\ batch' \in Seq(Evt) /\ lost \subseteq lost'
           /\ \E new \in Seq(Evt) :
                /\ Queued(Head(batch), new)
                /\ queue' = queue \o new /\ queue' \in Seq(Evt) /\ Len(queue') <= QueueCap
<1>1. PICK e : e = Head(batch)
  OBVIOUS
<1>2. /\ batch # <<>> /\ e \in Evt /\ batch' = Tail(batch) /\ batch' \in Seq(Evt)
      /\ Devices(e)
  <2>1. batch \in Seq(Evt) /\ batch # <<>>
    BY DEF Types, Translate
  <2>2. Head(batch) \in Evt /\ Tail(batch) \in Seq(Evt)
    BY <2>1, HeadTailProperties
  <2> QED BY <1>1, <2>1, <2>2 DEF Translate
<1>3. PICK f \in Evt : /\ Renders(e, f)
                       /\ \/ Translated(e) = <<f>>
                          \/ \E g \in Evt : Companion(e, g) /\ Translated(e) = <<f, g>>
  BY <1>2, TranslatedIs
<1>4. PICK evs \in Seq(Evt) :
        /\ evs = Translated(e) /\ Len(evs) \in {1, 2} /\ evs[1] = f
        /\ Len(evs) = 2 => \E g \in Evt : Companion(e, g) /\ evs = <<f, g>>
  <2>1. CASE Translated(e) = <<f>>
    BY <2>1, Few
  <2>2. ASSUME NEW g \in Evt, Companion(e, g), Translated(e) = <<f, g>>
        PROVE  /\ Translated(e) \in Seq(Evt) /\ Len(Translated(e)) = 2 /\ Translated(e)[1] = f
               /\ \E h \in Evt : Companion(e, h) /\ Translated(e) = <<f, h>>
    BY <2>2, Few
  <2> QED BY <1>3, <2>1, <2>2
<1>5. PICK m : m = Queue!Fitting(queue, evs)
  OBVIOUS
<1>6. Fits(queue, QueueCap, evs, m)
  BY <1>5 DEF Fits, Queue!Fitting, Types, TypeOK
<1>7. queue \in Seq(Evt) /\ QueueCap \in Nat
  BY LoopAssumption DEF Types
<1>8. /\ m \in 0 .. Len(evs) /\ Len(queue) + m <= QueueCap
      /\ SubSeq(evs, 1, m) \in Seq(Evt) /\ Len(SubSeq(evs, 1, m)) = m
      /\ \A i \in 1 .. m : SubSeq(evs, 1, m)[i] = evs[i]
      /\ Len(SubSeq(evs, m + 1, Len(evs))) = Len(evs) - m
      /\ \A i \in 1 .. Len(evs) - m : SubSeq(evs, m + 1, Len(evs))[i] = evs[m + i]
  BY <1>6, <1>7, Offered
<1>9. PICK new \in Seq(Evt) : new = SubSeq(evs, 1, m)
  BY <1>8
<1>9a. PICK rest : rest = SubSeq(evs, m + 1, Len(evs))
  OBVIOUS
<1>10. queue' = queue \o new /\ lost' = lost \cup AboutAll(rest)
  BY <1>1, <1>4, <1>5, <1>9, <1>9a DEF Translate, Queue!OfferAll, Queue!Refused
<1>11. queue' \in Seq(Evt) /\ Len(queue') <= QueueCap
  <2>1. queue \o new \in Seq(Evt) /\ Len(queue \o new) = Len(queue) + Len(new)
    BY <1>7, ConcatProperties
  <2>2. Len(new) = m
    BY <1>8, <1>9
  <2> QED BY <1>8, <1>10, <2>1, <2>2
<1>12. CASE m = 0
  <2>1. new = <<>>
    BY <1>8, <1>9, <1>12
  <2>2. 1 \in 1 .. Len(rest) /\ rest[1] = f
    BY <1>4, <1>8, <1>12, <1>9a
  <2>3. About(e.kind) \subseteq AboutAll(rest)
    BY <1>3, <2>2, RefusedMarked DEF Renders
  <2>4. Queued(e, new)
    BY <1>10, <2>1, <2>3 DEF Queued
  <2> QED BY <1>1, <1>2, <1>10, <1>11, <2>4
<1>13. CASE m = 1
  <2>1. Len(new) = 1 /\ new[1] = f
    BY <1>4, <1>8, <1>9, <1>13
  <2>2. new = <<f>>
    BY <2>1
  <2>3. Queued(e, new)
    BY <1>3, <2>2 DEF Queued
  <2> QED BY <1>1, <1>2, <1>10, <1>11, <2>3
<1>14. CASE m = 2
  <2>1. Len(new) = 2 /\ Len(evs) = 2 /\ new[1] = evs[1] /\ new[2] = evs[2]
    BY <1>4, <1>8, <1>9, <1>14
  <2>2. PICK g \in Evt : Companion(e, g) /\ evs = <<f, g>>
    BY <1>4, <2>1
  <2>3. new = <<f, g>>
    BY <2>1, <2>2
  <2>4. Queued(e, new)
    BY <1>3, <2>2, <2>3 DEF Queued
  <2> QED BY <1>1, <1>2, <1>10, <1>11, <2>4
<1>15. m \in {0, 1, 2}
  BY <1>4, <1>8
<1> QED BY <1>12, <1>13, <1>14, <1>15

(* The guest's record after one event: its number, and the kind's change.  *)
LEMMA SeenIs ==
    ASSUME NEW v \in View, NEW e \in Evt
    PROVE  /\ Seen(v, e) \in View
           /\ Seen(v, e).n = e.n
           /\ Seen(v, e).keys = CASE e.kind = "keyDown" -> v.keys \cup {e.arg}
                                  [] e.kind = "keyUp"   -> v.keys \ {e.arg}
                                  [] e.kind = "blur"    -> {}
                                  [] OTHER              -> v.keys
           /\ Seen(v, e).buttons = CASE e.kind = "mouseDown" -> v.buttons \cup {e.arg}
                                     [] e.kind = "mouseUp"   -> v.buttons \ {e.arg}
                                     [] e.kind = "blur"      -> {}
                                     [] OTHER                -> v.buttons
           /\ Seen(v, e).fingers = CASE e.kind = "touchDown" -> v.fingers \cup {e.arg}
                                     [] e.kind = "touchUp"   -> v.fingers \ {e.arg}
                                     [] OTHER                -> v.fingers
           /\ Seen(v, e).pads = CASE e.kind = "added"   -> v.pads \cup {e.arg}
                                  [] e.kind = "removed" -> v.pads \ {e.arg}
                                  [] OTHER              -> v.pads
           /\ Seen(v, e).text = CASE e.kind \in {"start", "update"}  -> e.text
                                  [] e.kind \in {"commit", "cancel"} -> NoText
                                  [] OTHER                           -> v.text
           /\ Seen(v, e).gens = IF e.kind = "added"
                                  THEN [v.gens EXCEPT ![e.arg] = Append(@, e.gen)]
                                  ELSE v.gens
<1>1. e \in EventRecord /\ Suits(e)
  BY DEF Evt
<1>2. PICK w : w = [v EXCEPT !.n = e.n]
  OBVIOUS
<1>3. w \in View /\ w.n = e.n /\ w.keys = v.keys /\ w.buttons = v.buttons
      /\ w.fingers = v.fingers /\ w.pads = v.pads /\ w.text = v.text /\ w.gens = v.gens
  BY <1>1, <1>2 DEF View, EventRecord
<1>4. CASE e.kind = "keyDown"
  <2>1. Seen(v, e) = [w EXCEPT !.keys = @ \cup {e.arg}]
    BY <1>2, <1>4 DEF Seen
  <2> QED BY <1>1, <1>3, <1>4, <2>1 DEF View, Suits
<1>5. CASE e.kind = "keyUp"
  <2>1. Seen(v, e) = [w EXCEPT !.keys = @ \ {e.arg}]
    BY <1>2, <1>5 DEF Seen
  <2> QED BY <1>1, <1>3, <1>5, <2>1 DEF View, Suits
<1>6. CASE e.kind = "mouseDown"
  <2>1. Seen(v, e) = [w EXCEPT !.buttons = @ \cup {e.arg}]
    BY <1>2, <1>6 DEF Seen
  <2> QED BY <1>1, <1>3, <1>6, <2>1 DEF View, Suits
<1>7. CASE e.kind = "mouseUp"
  <2>1. Seen(v, e) = [w EXCEPT !.buttons = @ \ {e.arg}]
    BY <1>2, <1>7 DEF Seen
  <2> QED BY <1>1, <1>3, <1>7, <2>1 DEF View, Suits
<1>8. CASE e.kind = "blur"
  <2>1. Seen(v, e) = [w EXCEPT !.keys = {}, !.buttons = {}]
    BY <1>2, <1>8 DEF Seen
  <2> QED BY <1>1, <1>3, <1>8, <2>1 DEF View
<1>9. CASE e.kind = "touchDown"
  <2>1. Seen(v, e) = [w EXCEPT !.fingers = @ \cup {e.arg}]
    BY <1>2, <1>9 DEF Seen
  <2> QED BY <1>1, <1>3, <1>9, <2>1 DEF View, Suits
<1>10. CASE e.kind = "touchUp"
  <2>1. Seen(v, e) = [w EXCEPT !.fingers = @ \ {e.arg}]
    BY <1>2, <1>10 DEF Seen
  <2> QED BY <1>1, <1>3, <1>10, <2>1 DEF View, Suits
<1>11. CASE e.kind \in {"start", "update"}
  <2>1. Seen(v, e) = [w EXCEPT !.text = e.text]
    BY <1>2, <1>11 DEF Seen
  <2> QED BY <1>1, <1>3, <1>11, <2>1 DEF View, EventRecord
<1>12. CASE e.kind \in {"commit", "cancel"}
  <2>1. Seen(v, e) = [w EXCEPT !.text = NoText]
    BY <1>2, <1>12 DEF Seen
  <2> QED BY <1>1, <1>3, <1>12, <2>1 DEF View
<1>13. CASE e.kind = "added"
  <2>1. e.arg \in Pad /\ e.gen \in Nat
    BY <1>1, <1>13 DEF Suits, EventRecord
  <2>2. PICK s : s = [v.gens EXCEPT ![e.arg] = Append(@, e.gen)]
    OBVIOUS
  <2>3. s \in [Pad -> Seq(Nat)]
    BY <2>1, <2>2 DEF View
  <2>4. Seen(v, e) = [w EXCEPT !.pads = @ \cup {e.arg}, !.gens[e.arg] = Append(@, e.gen)]
    BY <1>2, <1>13 DEF Seen
  <2>5. Seen(v, e) = [w EXCEPT !.pads = w.pads \cup {e.arg}, !.gens = s]
    BY <1>3, <2>2, <2>4 DEF View
  <2>6. Seen(v, e) \in View
    <3>1. PICK q \in SUBSET Pad : q = w.pads \cup {e.arg}
      BY <1>3, <2>1 DEF View
    <3> QED BY <1>3, <2>3, <2>5, <3>1 DEF View
  <2>7. /\ Seen(v, e).n = w.n /\ Seen(v, e).keys = w.keys /\ Seen(v, e).buttons = w.buttons
        /\ Seen(v, e).fingers = w.fingers /\ Seen(v, e).text = w.text
        /\ Seen(v, e).pads = w.pads \cup {e.arg} /\ Seen(v, e).gens = s
    BY <1>3, <2>5 DEF View
  <2> QED BY <1>3, <1>13, <2>2, <2>6, <2>7
<1>14. CASE e.kind = "removed"
  <2>1. Seen(v, e) = [w EXCEPT !.pads = @ \ {e.arg}]
    BY <1>2, <1>14 DEF Seen
  <2> QED BY <1>1, <1>3, <1>14, <2>1 DEF View, Suits
<1>15. CASE e.kind \in {"motion", "window", "touchMotion", "quit", "padInput", "pointer"}
  <2>1. Seen(v, e) = w
    BY <1>2, <1>15 DEF Seen
  <2> QED BY <1>3, <1>15, <2>1
<1>16. e.kind \in Kind
  BY <1>1 DEF EventRecord
<1> QED BY <1>4, <1>5, <1>6, <1>7, <1>8, <1>9, <1>10, <1>11, <1>12, <1>13, <1>14, <1>15, <1>16
        DEF Kind

-----------------------------------------------------------------------------
(* The type invariant.                                                     *)

(* The initial state has the types.                                        *)
LEMMA TypesInit == Init => Types
<1> SUFFICES ASSUME Init PROVE Types
  OBVIOUS
<1>1. /\ input \in Input /\ ring = <<>> /\ made = 0
  BY DEF Init, PlatformInit, Input, Composition, NoComposition
<1>2. PlatformTypeOK
  BY <1>1, InputAssumption DEF PlatformTypeOK, Input, Composition
<1>3. DeviceTypes
  <2>1. htype \in [Handle -> {"free", "fixed", "pad"}]
    BY DEF Init
  <2>2. next \in First .. Limit
    BY HandleAssumption, LoopAssumption DEF Init
  <2>3. devh \in [Pad -> Handle \cup {0}] /\ gen \in [Pad -> Nat]
    BY DEF Init
  <2> QED BY <2>1, <2>2, <2>3 DEF DeviceTypes
<1>4. view \in View
  <2>1. PICK g : g = [p \in Pad |-> <<>>]
    OBVIOUS
  <2>2. g \in [Pad -> Seq(Nat)]
    BY <2>1, Few
  <2>3. view = [n |-> 0, keys |-> {}, buttons |-> {}, fingers |-> {}, pads |-> {},
                gens |-> g, text |-> NoText]
    BY <2>1 DEF Init
  <2> QED BY <2>2, <2>3 DEF View
<1>5. /\ pc = "main" /\ from = "main" /\ pad \in Pad /\ batch = <<>> /\ queue = <<>>
      /\ running \in BOOLEAN /\ quitIn = "no" /\ frames = 0
  <2>1. 1 \in Pad
    BY InputAssumption DEF Pad
  <2> QED BY <2>1 DEF Init
<1>6. /\ Len(batch) <= Batch /\ Len(queue) <= QueueCap
      /\ ring \in Seq(Evt) /\ batch \in Seq(Evt) /\ queue \in Seq(Evt)
  BY <1>1, <1>5, LoopAssumption, Few
<1>7. view.keys \subseteq Key /\ view.pads \subseteq Pad
  BY <1>4 DEF View
<1> QED BY <1>2, <1>3, <1>4, <1>5, <1>6, <1>7 DEF Types, TypeOK, DeviceTypes

(* The parts of the type invariant that one step changes together.         *)
PlatformTypes == PlatformTypeOK /\ ring \in Seq(Evt)
ControlTypes ==
    /\ pc \in {"main", "frame", "pads", "msgs", "translate", "loop", "stopped"}
    /\ from \in {"main", "frame", "loop"} /\ pad \in Pad
    /\ running \in BOOLEAN
    /\ quitIn \in {"no", "main", "frame", "loop"} /\ frames \in Nat
    /\ pc = "translate" <=> batch # <<>>
QueueTypes ==
    /\ batch \in Seq(Evt) /\ Len(batch) <= Batch
    /\ queue \in Seq(Evt) /\ Len(queue) <= QueueCap
    /\ view \in View

(* The types in four groups, for the steps that change one group only.     *)
LEMMA TypesParts ==
    Types <=> PlatformTypes /\ DeviceTypes /\ ControlTypes /\ QueueTypes
BY DEF Types, TypeOK, PlatformTypes, DeviceTypes, ControlTypes, QueueTypes, View

(* The same, after a step.                                                 *)
LEMMA TypesPartsNext ==
    Types' <=> PlatformTypes' /\ DeviceTypes' /\ ControlTypes' /\ QueueTypes'
BY DEF Types, TypeOK, PlatformTypes, DeviceTypes, ControlTypes, QueueTypes, View

(* Numbered events in the ring have numbers that were given.               *)
LEMMA PushTypes ==
    ASSUME Types, input' \in Input, NEW evs \in Seq(Evt), Emit(evs)
    PROVE  PlatformTypes'
<1>1. PICK new \in Seq(Evt) : Pushed(evs, new)
  BY EmitEffect
<1>2. /\ ring \in Seq(Evt) /\ made \in Nat /\ \A i \in 1 .. Len(ring) : ring[i].n \in 1 .. made
  BY DEF Types, TypeOK, PlatformTypeOK
<1>3. /\ ring' = ring \o new /\ ring' \in Seq(Evt) /\ Len(ring') <= RingCap
      /\ made' = made + Len(evs) /\ made' \in 0 .. MaxEvents
      /\ Len(new) <= Len(evs) /\ Len(new) \in Nat /\ Len(evs) \in Nat /\ Len(ring) \in Nat
  BY <1>1, <1>2 DEF Pushed
<1>4. ASSUME NEW i \in 1 .. Len(ring') PROVE ring'[i].n \in 1 .. made'
  <2>1. /\ Len(ring') = Len(ring) + Len(new)
        /\ ring'[i] = IF i <= Len(ring) THEN ring[i] ELSE new[i - Len(ring)]
    BY <1>2, <1>3, ConcatProperties
  <2>2. CASE i <= Len(ring)
    BY <1>2, <1>3, <2>1, <2>2
  <2>3. CASE ~(i <= Len(ring))
    <3>1. PICK j \in 1 .. Len(new) : j = i - Len(ring)
      BY <1>3, <2>1, <2>3
    <3>2. j \in 1 .. Len(evs) /\ evs[j] \in Evt
      BY <1>3, <3>1, ElementOfSeq
    <3>3. new[j] = [evs[j] EXCEPT !.n = made + j]
      BY <1>1, <3>1 DEF Pushed
    <3>4. new[j].n = made + j
      BY <3>2, <3>3 DEF Evt, EventRecord
    <3> QED BY <1>2, <1>3, <2>1, <2>3, <3>1, <3>2, <3>4
  <2> QED BY <2>2, <2>3
<1> QED BY <1>3, <1>4 DEF PlatformTypes, PlatformTypeOK, Input, Composition

(* A poll of a controller changes the set of controllers only.             *)
LEMMA PollPadTypes ==
    ASSUME Types, NEW p \in Pad, PollPad(p)
    PROVE  PlatformTypes'
<1>1. input \in Input /\ PlatformTypes
  BY TypesParts DEF PlatformTypes, PlatformTypeOK, Input, Composition
<1>2. /\ [input EXCEPT !.pads = @ \ {p}] \in Input
      /\ [input EXCEPT !.pads = @ \cup {p}] \in Input
  BY <1>1 DEF Input
<1>3. CASE UNCHANGED platformVars
  BY <1>1, <1>3 DEF platformVars, PlatformTypes, PlatformTypeOK
<1>4. CASE ~UNCHANGED platformVars
  <2>1. /\ Event("removed", p) \in Evt /\ Event("added", p) \in Evt /\ Event("padInput", p) \in Evt
        /\ input' \in {[input EXCEPT !.pads = @ \ {p}], [input EXCEPT !.pads = @ \cup {p}]}
        /\ \/ Emit(<<Event("removed", p)>>) \/ Emit(<<>>) \/ Emit(<<Event("padInput", p)>>)
           \/ Emit(<<Event("added", p)>>) \/ Emit(<<Event("added", p), Event("padInput", p)>>)
    BY <1>4, PadEffect
  <2>2. input' \in Input
    BY <1>2, <2>1
  <2> QED BY <2>1, <2>2, Few, PushTypes
<1> QED BY <1>3, <1>4

(* A step that leaves the platform alone.                                  *)
LEMMA SamePlatform ==
    ASSUME Types, UNCHANGED platformVars
    PROVE  PlatformTypes'
BY TypesParts DEF platformVars, PlatformTypes, PlatformTypeOK

(* A step that leaves the handles alone.                                   *)
LEMMA SameDevices ==
    ASSUME Types, UNCHANGED deviceVars
    PROVE  DeviceTypes'
BY TypesParts DEF deviceVars, DeviceTypes

(* A step that leaves the batch, the queue and the guest alone.            *)
LEMMA SameQueues ==
    ASSUME Types, UNCHANGED <<batch, queue, view>>
    PROVE  QueueTypes'
BY TypesParts DEF QueueTypes

(* The next controller in turn is one.                                     *)
LEMMA PadNext ==
    ASSUME pad \in Pad
    PROVE  1 \in Pad /\ (pad # NumPads => pad + 1 \in Pad)
BY InputAssumption DEF Pad

(* Steps of the platform.                                                  *)
LEMMA PlatformStepTypes ==
    ASSUME Types, PollPads \/ TakeMessage \/ ResizeCall
    PROVE  Types'
<1>1. CASE PollPads
  <2>1. pad \in Pad
    BY DEF Types, TypeOK
  <2>2. PlatformTypes'
    BY <1>1, <2>1, PollPadTypes DEF PollPads
  <2>3. UNCHANGED deviceVars /\ UNCHANGED <<batch, queue, view>>
    BY <1>1 DEF PollPads
  <2>4. ControlTypes'
    BY <1>1, <2>1, PadNext, TypesParts DEF PollPads, ControlTypes, quitVars
  <2> QED BY <2>2, <2>3, <2>4, SameDevices, SameQueues, TypesPartsNext
<1>2. CASE TakeMessage
  <2>1. PICK evs \in Seq(Evt) : Emits(evs)
    BY <1>2, MessageEffect DEF TakeMessage
  <2>2. PlatformTypes'
    BY <2>1, PushTypes DEF Emits
  <2>3. UNCHANGED deviceVars /\ UNCHANGED <<batch, queue, view>>
    BY <1>2 DEF TakeMessage
  <2>4. ControlTypes'
    BY <1>2, TypesParts DEF TakeMessage, ControlTypes, quitVars
  <2> QED BY <2>2, <2>3, <2>4, SameDevices, SameQueues, TypesPartsNext
<1>3. CASE ResizeCall
  <2>1. PICK evs \in Seq(Evt) : Emits(evs)
    BY <1>3, PlainEffect DEF ResizeCall
  <2>2. PlatformTypes'
    BY <2>1, PushTypes DEF Emits
  <2>3. UNCHANGED deviceVars /\ UNCHANGED <<batch, queue, view>>
    BY <1>3 DEF ResizeCall
  <2>4. ControlTypes'
    BY <1>3, TypesParts DEF ResizeCall, ControlTypes, quitVars
  <2> QED BY <2>2, <2>3, <2>4, SameDevices, SameQueues, TypesPartsNext
<1> QED BY <1>1, <1>2, <1>3

(* The pump takes the first n events off the ring.                         *)
LEMMA TakeBatchEffect ==
    ASSUME Types, TakeBatch
    PROVE  \E n \in 1 .. Len(ring) :
             /\ n <= Batch
             /\ batch' = SubSeq(ring, 1, n) /\ ring' = SubSeq(ring, n + 1, Len(ring))
             /\ batch' \in Seq(Evt) /\ ring' \in Seq(Evt)
             /\ Len(batch') = n /\ Len(ring') = Len(ring) - n
             /\ \A i \in 1 .. Len(ring) - n : ring'[i] = ring[i + n]
             /\ \A i \in 1 .. n : batch'[i] = ring[i]
<1>1. ring \in Seq(Evt) /\ Len(ring) \in Nat \ {0} /\ Batch \in Nat \ {0}
  BY LoopAssumption, EmptySeq DEF Types, TakeBatch
<1>2. PICK n : n = IF Len(ring) < Batch THEN Len(ring) ELSE Batch
  OBVIOUS
<1>3. n \in 1 .. Len(ring) /\ n <= Batch
  BY <1>1, <1>2
<1>4. batch' = SubSeq(ring, 1, n) /\ ring' = SubSeq(ring, n + 1, Len(ring))
  BY <1>2 DEF TakeBatch, Left
<1>5. \A i \in 1 .. Len(ring) : ring[i] \in Evt
  BY <1>1, ElementOfSeq
<1>6. /\ SubSeq(ring, 1, n) \in Seq(Evt) /\ Len(SubSeq(ring, 1, n)) = n
      /\ \A i \in 1 .. n : SubSeq(ring, 1, n)[i] = ring[i]
      /\ SubSeq(ring, n + 1, Len(ring)) \in Seq(Evt)
      /\ Len(SubSeq(ring, n + 1, Len(ring))) = Len(ring) - n
      /\ \A i \in 1 .. Len(ring) - n : SubSeq(ring, n + 1, Len(ring))[i] = ring[i + n]
  BY <1>1, <1>3, <1>5, SubSeqProperties
<1> QED BY <1>3, <1>4, <1>6

(* A batch is not larger than its bound, and what is left is in the ring.  *)
LEMMA TakeBatchTypes ==
    ASSUME Types, TakeBatch
    PROVE  Types'
<1>1. PICK n \in 1 .. Len(ring) :
        /\ n <= Batch
        /\ batch' \in Seq(Evt) /\ ring' \in Seq(Evt)
        /\ Len(batch') = n /\ Len(ring') = Len(ring) - n
        /\ \A i \in 1 .. Len(ring) - n : ring'[i] = ring[i + n]
  BY TakeBatchEffect
<1>2. /\ ring \in Seq(Evt) /\ Len(ring) \in Nat /\ Len(ring) <= RingCap /\ RingCap \in Nat
      /\ \A i \in 1 .. Len(ring) : ring[i].n \in 1 .. made
  BY InputAssumption DEF Types, TypeOK, PlatformTypeOK
<1>3. UNCHANGED <<input, made, lost, deviceVars, quitVars, from, pad, queue, view>>
      /\ pc' = "translate"
  BY DEF TakeBatch
<1>4. PlatformTypes'
  <2>1. ASSUME NEW i \in 1 .. Len(ring') PROVE ring'[i].n \in 1 .. made'
    <3>1. PICK j \in 1 .. Len(ring) : j = i + n
      <4>1. i + n \in 1 .. Len(ring)
        BY <1>1, <1>2
      <4> QED BY <4>1
    <3>2. i \in 1 .. Len(ring) - n
      BY <1>1
    <3>3. ring'[i] = ring[j]
      BY <1>1, <3>1, <3>2
    <3> QED BY <1>2, <1>3, <3>3
  <2>2. Len(ring') <= RingCap
    BY <1>1, <1>2
  <2> QED BY <1>1, <1>3, <2>1, <2>2, TypesParts DEF PlatformTypes, PlatformTypeOK
<1>5. batch' # <<>> /\ Len(batch') <= Batch
  BY <1>1, EmptySeq
<1> QED BY <1>1, <1>3, <1>4, <1>5, SameDevices, TypesParts, TypesPartsNext
        DEF ControlTypes, QueueTypes, quitVars

(* A translation fills the queue up to its size.                           *)
LEMMA TranslateTypes ==
    ASSUME Types, Translate
    PROVE  Types'
<1>1. /\ Head(batch) \in Evt /\ batch # <<>> /\ Devices(Head(batch))
      /\ batch' = Tail(batch) /\ batch' \in Seq(Evt)
      /\ queue' \in Seq(Evt) /\ Len(queue') <= QueueCap
  BY TranslateEffect
<1>2. DeviceTypes'
  BY <1>1, DevicesTypes
<1>3. /\ UNCHANGED <<input, ring, made, frames, from, pad, view>>
      /\ running' = (running /\ ~Ends(Head(batch)))
      /\ quitIn' = IF Head(batch).kind = "quit" /\ quitIn \in {"no", "main"}
                     THEN from ELSE quitIn
      /\ pc' = IF Len(batch) = 1 THEN "pads" ELSE pc
      /\ pc = "translate"
  BY DEF Translate
<1>4. batch \in Seq(Evt) /\ Len(batch) \in Nat /\ Len(batch) <= Batch /\ Batch \in Nat
      /\ Len(batch') = Len(batch) - 1
  BY <1>1, HeadTailProperties, LoopAssumption DEF Types, TypeOK
<1>5. QueueTypes'
  <2>1. Len(batch') <= Batch
    BY <1>4
  <2> QED BY <1>1, <1>3, <2>1, TypesParts DEF QueueTypes
<1>6. PlatformTypes'
  BY <1>3, TypesParts DEF PlatformTypes, PlatformTypeOK
<1>7. running' \in BOOLEAN
  BY <1>3
<1>8. pc' = "translate" <=> batch' # <<>>
  <2>1. CASE Len(batch) = 1
    <3>1. Len(batch') = 0
      BY <1>4, <2>1
    <3>2. batch' = <<>>
      BY <1>1, <3>1, EmptySeq
    <3> QED BY <1>3, <2>1, <3>2
  <2>2. CASE Len(batch) # 1
    <3>1. Len(batch') # 0
      BY <1>4, <2>2
    <3>2. batch' # <<>>
      BY <3>1
    <3> QED BY <1>3, <2>2, <3>2
  <2> QED BY <2>1, <2>2
<1>9. ControlTypes'
  BY <1>3, <1>7, <1>8, TypesParts DEF ControlTypes
<1> QED BY <1>2, <1>5, <1>6, <1>9, TypesPartsNext

(* The guest gets the oldest event, or none.                               *)
LEMMA PollEffect ==
    ASSUME Types, PollReturns
    PROVE  \/ UNCHANGED <<queue, view>> /\ queue = <<>>
           \/ /\ queue # <<>> /\ Head(queue) \in Evt
              /\ queue' = Tail(queue) /\ queue' \in Seq(Evt) /\ Len(queue') = Len(queue) - 1
              /\ view' = Seen(view, Head(queue))
<1>1. queue \in Seq(Evt)
  BY DEF Types
<1>2. CASE queue = <<>>
  BY <1>2 DEF PollReturns
<1>3. CASE queue # <<>>
  BY <1>1, <1>3, HeadTailProperties DEF PollReturns
<1> QED BY <1>2, <1>3

(* A poll returns.                                                         *)
LEMMA PollTypes ==
    ASSUME Types, PollReturns
    PROVE  Types'
<1>1. UNCHANGED <<platformVars, deviceVars, quitVars, from, pad, batch>> /\ pc' = from
      /\ pc = "msgs" /\ from # "loop"
  BY DEF PollReturns
<1>2. ControlTypes'
  BY <1>1, TypesParts DEF ControlTypes, quitVars
<1>3. QueueTypes'
  <2>1. CASE UNCHANGED <<queue, view>>
    BY <1>1, <2>1, TypesParts DEF QueueTypes
  <2>2. CASE /\ Head(queue) \in Evt
             /\ queue' \in Seq(Evt) /\ Len(queue') = Len(queue) - 1
             /\ view' = Seen(view, Head(queue))
    <3>1. view \in View /\ queue \in Seq(Evt) /\ Len(queue) <= QueueCap /\ QueueCap \in Nat
      BY LoopAssumption, TypesParts DEF QueueTypes
    <3>2. view' \in View
      BY <2>2, <3>1, SeenIs
    <3>3. Len(queue') <= QueueCap
      BY <2>2, <3>1
    <3> QED BY <1>1, <2>2, <3>2, <3>3, TypesParts DEF QueueTypes
  <2> QED BY <2>1, <2>2, PollEffect
<1> QED BY <1>1, <1>2, <1>3, SamePlatform, SameDevices, TypesPartsNext

(* A handle is asked for.                                                  *)
LEMMA RequestTypes ==
    ASSUME Types, RequestPad
    PROVE  Types'
<1>1. PICK p \in input.pads : HandleForPad(p)
  BY DEF RequestPad
<1>2. p \in Pad
  BY DEF Types, TypeOK, PlatformTypeOK
<1>3. UNCHANGED <<platformVars, quitVars, pc, from, pad, batch, queue, view>>
  BY DEF RequestPad
<1>4. DeviceTypes'
  BY <1>1, <1>2, HandleForPadTypes
<1>5. ControlTypes'
  BY <1>3, TypesParts DEF ControlTypes, quitVars
<1> QED BY <1>3, <1>4, <1>5, SamePlatform, SameQueues, TypesPartsNext

(* The guest's other calls and the loop.                                   *)
LEMMA LoopTypes ==
    ASSUME Types,
           FrameBegins \/ Poll \/ MainReturns \/ LoopTest \/ FrameReturns \/ Exit \/ UNCHANGED vars
    PROVE  Types'
<1>1. UNCHANGED <<platformVars, deviceVars, batch, queue, view>>
  BY DEF FrameBegins, Poll, MainReturns, LoopTest, FrameReturns, Exit, vars
<1>2. /\ pc \in {"main", "frame", "pads", "msgs", "translate", "loop", "stopped"}
      /\ from \in {"main", "frame", "loop"} /\ pad \in Pad /\ 1 \in Pad
      /\ running \in BOOLEAN
      /\ quitIn \in {"no", "main", "frame", "loop"} /\ frames \in Nat
      /\ pc = "translate" <=> batch # <<>>
  BY PadNext DEF Types, TypeOK
<1>3. ControlTypes'
  <2>1. CASE FrameBegins
    BY <1>1, <1>2, <2>1 DEF FrameBegins, ControlTypes
  <2>2. CASE Poll
    BY <1>1, <1>2, <2>2 DEF Poll, GuestRuns, StartPump, ControlTypes, quitVars
  <2>3. CASE MainReturns
    BY <1>1, <1>2, <2>3 DEF MainReturns, ControlTypes
  <2>4. CASE LoopTest
    BY <1>1, <1>2, <2>4 DEF LoopTest, StartPump, ControlTypes, quitVars
  <2>5. CASE FrameReturns
    BY <1>1, <1>2, <2>5 DEF FrameReturns, ControlTypes, quitVars
  <2>6. CASE Exit
    BY <1>1, <1>2, <2>6 DEF Exit, GuestRuns, ControlTypes
  <2>7. CASE UNCHANGED vars
    BY <1>1, <1>2, <2>7 DEF vars, ControlTypes, quitVars
  <2> QED BY <2>1, <2>2, <2>3, <2>4, <2>5, <2>6, <2>7
<1> QED BY <1>1, <1>3, SamePlatform, SameDevices, SameQueues, TypesPartsNext

(* The steps of Next, named as the lemmas below treat them.                *)
LEMMA Steps ==
    [Next]_vars =>
      \/ PollPads \/ TakeMessage \/ ResizeCall
      \/ TakeBatch \/ Translate \/ PollReturns \/ RequestPad
      \/ FrameBegins \/ Poll \/ MainReturns \/ LoopTest \/ FrameReturns \/ Exit
      \/ UNCHANGED vars
BY DEF Next, HostStep, Stopped

(* Every step keeps the types.                                             *)
LEMMA TypesNext == Types /\ [Next]_vars => Types'
BY Steps, PlatformStepTypes, TakeBatchTypes, TranslateTypes, PollTypes, RequestTypes, LoopTypes

(* Every reachable state has the types, those of the events included.      *)
THEOREM TypesHold == Spec => []Types
BY TypesInit, TypesNext, PTL DEF Spec

(* No queue outgrows its size, events are numbered, handles and controllers*)
(* stay in their ranges, for every size of ring, batch, queue and table.   *)
THEOREM TypeCorrect == Spec => []TypeOK
<1>1. Types => TypeOK
  BY DEF Types
<1> QED BY <1>1, TypesHold, PTL

-----------------------------------------------------------------------------
(* One frame after a QUIT.                                                 *)

(* While the pump runs, and until wapi_main has returned.                  *)
Pumping == pc \in {"pads", "msgs", "translate"}
InMain  == pc = "main" \/ (Pumping /\ from = "main")

(* A QUIT ends the loop, so no pump before a frame starts after it; the    *)
(* only frame that begins after it is the one such a pump was for.         *)
QuitInv ==
    /\ quitIn \in {"no", "main"}     => frames = 0
    /\ quitIn \in {"frame", "loop"}  => ~running /\ ~InMain
    /\ Pumping /\ from = "loop"      => quitIn # "frame" /\ frames = 0
    /\ quitIn = "frame"              => frames = 0
    /\ quitIn = "loop" /\ ~(Pumping /\ from = "loop") => frames = 1

(* At first there was no QUIT.                                             *)
LEMMA QuitInit == Init => QuitInv
BY DEF Init, QuitInv, Pumping, InMain

(* Every step, with the place from which the pump was called.              *)
LEMMA QuitNext == Types /\ QuitInv /\ [Next]_vars => QuitInv'
<1> SUFFICES ASSUME Types, QuitInv, [Next]_vars PROVE QuitInv'
  OBVIOUS
<1> USE DEF QuitInv, Pumping, InMain
<1>1. /\ quitIn \in {"no", "main", "frame", "loop"} /\ running \in BOOLEAN
      /\ from \in {"main", "frame", "loop"} /\ frames \in Nat
  BY DEF Types, TypeOK
<1>2. CASE PollPads
  BY <1>2 DEF PollPads, quitVars
<1>3. CASE TakeMessage \/ ResizeCall \/ TakeBatch \/ RequestPad
  BY <1>3 DEF TakeMessage, ResizeCall, GuestRuns, TakeBatch, RequestPad, quitVars
<1>4. CASE Translate
  <2>1. /\ pc = "translate" /\ pc' \in {"pads", "translate"} /\ from' = from /\ frames' = frames
        /\ \/ running' = FALSE /\ quitIn' = IF quitIn \in {"no", "main"} THEN from ELSE quitIn
           \/ running' = running /\ quitIn' = quitIn
    BY <1>1, <1>4 DEF Translate, Ends
  <2> QED BY <1>1, <2>1
<1>5. CASE PollReturns
  BY <1>1, <1>5 DEF PollReturns, quitVars
<1>6. CASE FrameBegins
  BY <1>1, <1>6 DEF FrameBegins
<1>7. CASE Poll
  BY <1>1, <1>7 DEF Poll, GuestRuns, StartPump, quitVars
<1>8. CASE MainReturns
  BY <1>1, <1>8 DEF MainReturns
<1>9. CASE LoopTest
  BY <1>1, <1>9 DEF LoopTest, StartPump, quitVars
<1>10. CASE FrameReturns
  BY <1>1, <1>10 DEF FrameReturns, quitVars
<1>11. CASE Exit
  BY <1>1, <1>11 DEF Exit, GuestRuns
<1>12. CASE UNCHANGED vars
  BY <1>12 DEF vars, quitVars
<1> QED BY <1>2, <1>3, <1>4, <1>5, <1>6, <1>7, <1>8, <1>9, <1>10, <1>11, <1>12, Steps

(* After a QUIT was translated the guest runs at most one more frame, and  *)
(* one if the pump that translated it was the one before a frame.          *)
THEOREM OneFrame == Spec => []OneFrameAfterQuit
<1>1. QuitInv => OneFrameAfterQuit
  BY DEF QuitInv, OneFrameAfterQuit, Pumping
<1> QED BY <1>1, QuitInit, QuitNext, TypesHold, PTL DEF Spec

-----------------------------------------------------------------------------
(* What is on the way to the guest, and what a step does to it.            *)

(* Events that are not yet translated.                                     *)
Pending == batch \o ring

(* What is on the way are events: the translated ones, and those that are  *)
(* not.                                                                    *)
LEMMA WayTypes ==
    ASSUME Types
    PROVE  /\ queue \in Seq(Evt) /\ batch \in Seq(Evt) /\ ring \in Seq(Evt)
           /\ Pending \in Seq(Evt) /\ OnTheWay \in Seq(Evt)
           /\ OnTheWay = queue \o Pending /\ Len(OnTheWay) = Len(queue) + Len(Pending)
           /\ Len(OnTheWay) \in Nat /\ Len(Pending) \in Nat /\ Len(queue) \in Nat
<1>1. queue \in Seq(Evt) /\ batch \in Seq(Evt) /\ ring \in Seq(Evt)
  BY DEF Types
<1>2. Pending \in Seq(Evt)
  BY <1>1, ConcatProperties DEF Pending
<1>3. OnTheWay = queue \o Pending
  BY <1>1, ConcatAssociative DEF OnTheWay, Pending
<1> QED BY <1>1, <1>2, <1>3, ConcatProperties, LenProperties

(* The same, after a step.                                                 *)
LEMMA WayTypesNext ==
    ASSUME Types'
    PROVE  /\ queue' \in Seq(Evt) /\ batch' \in Seq(Evt) /\ ring' \in Seq(Evt)
           /\ Pending' \in Seq(Evt) /\ OnTheWay' \in Seq(Evt)
           /\ OnTheWay' = queue' \o Pending'
<1>1. queue' \in Seq(Evt) /\ batch' \in Seq(Evt) /\ ring' \in Seq(Evt)
  BY DEF Types
<1>2. Pending' \in Seq(Evt)
  BY <1>1, ConcatProperties DEF Pending
<1>3. OnTheWay' = queue' \o Pending'
  BY <1>1, ConcatAssociative DEF OnTheWay, Pending
<1> QED BY <1>1, <1>2, <1>3, ConcatProperties

(* A first element and the rest.                                           *)
LEMMA FirstAndRest ==
    ASSUME NEW S, NEW s \in Seq(S), s # <<>>
    PROVE  /\ Head(s) \in S /\ Tail(s) \in Seq(S) /\ s = <<Head(s)>> \o Tail(s)
           /\ <<Head(s)>> \in Seq(S)
<1>1. /\ Head(s) \in S /\ Tail(s) \in Seq(S) /\ Len(Tail(s)) = Len(s) - 1
      /\ \A i \in 1 .. Len(Tail(s)) : Tail(s)[i] = s[i + 1]
      /\ Len(s) \in Nat \ {0} /\ Head(s) = s[1]
  BY HeadTailProperties, EmptySeq
<1>2. PICK h, t : h = Head(s) /\ t = Tail(s)
  OBVIOUS
<1>3. <<h>> \in Seq(S) /\ Len(<<h>>) = 1 /\ <<h>>[1] = h
  BY <1>1, <1>2, Few
<1>4. PICK r : r = <<h>> \o t
  OBVIOUS
<1>5. /\ r \in Seq(S) /\ Len(r) = 1 + Len(t)
      /\ \A i \in 1 .. 1 + Len(t) : r[i] = IF i <= 1 THEN <<h>>[i] ELSE t[i - 1]
  <2>1. /\ <<h>> \o t \in Seq(S) /\ Len(<<h>> \o t) = Len(<<h>>) + Len(t)
        /\ \A i \in 1 .. Len(<<h>>) + Len(t) :
             (<<h>> \o t)[i] = IF i <= Len(<<h>>) THEN <<h>>[i] ELSE t[i - Len(<<h>>)]
    BY <1>1, <1>2, <1>3, ConcatProperties
  <2> QED BY <1>3, <1>4, <2>1
<1>6. Len(r) = Len(s)
  BY <1>1, <1>2, <1>5
<1>7. ASSUME NEW i \in 1 .. Len(s) PROVE r[i] = s[i]
  <2>1. CASE i = 1
    BY <1>1, <1>2, <1>3, <1>5, <1>6, <2>1
  <2>2. CASE i # 1
    <3>1. PICK j \in 1 .. Len(t) : i = j + 1
      <4>1. i - 1 \in 1 .. Len(t) /\ i = (i - 1) + 1
        BY <1>1, <1>2, <2>2
      <4> QED BY <4>1
    <3>2. t[j] = s[i]
      BY <1>1, <1>2, <3>1
    <3>3. r[i] = t[i - 1] /\ i - 1 = j
      BY <1>5, <1>6, <2>2, <3>1
    <3> QED BY <3>2, <3>3
  <2> QED BY <2>1, <2>2
<1>8. r = s
  BY <1>5, <1>6, <1>7, SeqEqual
<1> QED BY <1>1, <1>2, <1>3, <1>4, <1>8

(* The three things that happen to what is on the way: events are pushed,  *)
(* the oldest one is translated, the oldest translated one is popped.      *)
Pushes == \E evs \in Seq(Evt), new \in Seq(Evt) :
    /\ Pushed(evs, new) /\ Pending' = Pending \o new /\ OnTheWay' = OnTheWay \o new
    /\ UNCHANGED <<queue, view>>

Renderings == \E e \in Evt, new \in Seq(Evt), rest \in Seq(Evt) :
    /\ e = Head(batch) /\ Devices(e) /\ Queued(e, new)
    /\ Pending = <<e>> \o rest /\ Pending' = rest
    /\ queue' = queue \o new /\ OnTheWay' = (queue \o new) \o rest
    /\ lost \subseteq lost' /\ UNCHANGED <<input, made, view>>

Pops == \E e \in Evt, rest \in Seq(Evt) :
    /\ queue = <<e>> \o rest /\ queue' = rest /\ view' = Seen(view, e)
    /\ OnTheWay' = rest \o Pending /\ Pending' = Pending
    /\ UNCHANGED <<platformVars, deviceVars>>

Stays == /\ UNCHANGED <<input, made, lost, queue, view>>
         /\ Pending' = Pending /\ OnTheWay' = OnTheWay

(* A step that emits events appends those that found room.                 *)
LEMMA PushesStep ==
    ASSUME Types, Types', NEW evs \in Seq(Evt), Emit(evs), UNCHANGED <<batch, queue, view>>
    PROVE  \E new \in Seq(Evt) :
             Pushed(evs, new) /\ Pending' = Pending \o new /\ OnTheWay' = OnTheWay \o new
<1>1. PICK new \in Seq(Evt) : Pushed(evs, new)
  BY EmitEffect
<1>2. ring' = ring \o new
  BY <1>1 DEF Pushed
<1>3. Pending' = Pending \o new
  <2>1. batch \in Seq(Evt) /\ ring \in Seq(Evt)
    BY WayTypes
  <2>2. (batch \o ring) \o new = batch \o (ring \o new)
    BY <2>1, ConcatAssociative
  <2> QED BY Zenon, <1>2, <2>2 DEF Pending
<1>4. OnTheWay' = OnTheWay \o new
  <2>1. OnTheWay = queue \o Pending /\ OnTheWay' = queue' \o Pending'
    BY WayTypes, WayTypesNext
  <2>2. queue \in Seq(Evt) /\ Pending \in Seq(Evt)
    BY WayTypes
  <2>3. (queue \o Pending) \o new = queue \o (Pending \o new)
    BY <2>2, ConcatAssociative
  <2> QED BY Zenon, <1>3, <2>1, <2>3
<1> QED BY <1>1, <1>3, <1>4

(* A batch taken off the ring stays on the way.                            *)
LEMMA StaysStep ==
    ASSUME Types, Types', TakeBatch
    PROVE  Stays
<1>1. PICK n \in 1 .. Len(ring) :
        batch' = SubSeq(ring, 1, n) /\ ring' = SubSeq(ring, n + 1, Len(ring))
  BY TakeBatchEffect
<1>2. ring \in Seq(Evt) /\ batch = <<>>
  BY DEF Types, TakeBatch
<1>3. SubSeq(ring, 1, n) \o SubSeq(ring, n + 1, Len(ring)) = ring
  <2>1. 1 \in 1 .. Len(ring) + 1 /\ n \in 1 - 1 .. Len(ring) /\ Len(ring) \in n .. Len(ring)
    BY <1>1, <1>2
  <2>2. SubSeq(ring, 1, n) \o SubSeq(ring, n + 1, Len(ring)) = SubSeq(ring, 1, Len(ring))
    BY <1>2, <2>1, ConcatAdjacentSubSeq
  <2> QED BY <1>2, <2>2, SubSeqFull
<1>4. Pending' = ring /\ Pending = ring
  BY <1>1, <1>2, <1>3, ConcatEmptySeq DEF Pending
<1>5. UNCHANGED <<input, made, lost, queue, view>>
  BY DEF TakeBatch
<1> QED BY <1>4, <1>5, WayTypes, WayTypesNext DEF Stays

(* A translation.                                                          *)
LEMMA RendersStep ==
    ASSUME Types, Types', Translate
    PROVE  Renderings
<1>1. PICK e : e = Head(batch)
  OBVIOUS
<1>2. /\ e \in Evt /\ batch # <<>> /\ Devices(e) /\ batch' = Tail(batch) /\ lost \subseteq lost'
      /\ \E new \in Seq(Evt) : Queued(e, new) /\ queue' = queue \o new
  BY <1>1, TranslateEffect
<1>3. PICK new \in Seq(Evt) : Queued(e, new) /\ queue' = queue \o new
  BY <1>2
<1>4. batch \in Seq(Evt) /\ ring \in Seq(Evt) /\ ring' = ring /\ UNCHANGED <<input, made, view>>
  BY DEF Types, Translate
<1>5. batch = <<e>> \o Tail(batch) /\ Tail(batch) \in Seq(Evt) /\ <<e>> \in Seq(Evt)
  BY <1>1, <1>2, <1>4, FirstAndRest
<1>6. PICK rest \in Seq(Evt) : rest = Tail(batch) \o ring
  BY <1>4, <1>5, ConcatProperties
<1>7. Pending = <<e>> \o rest
  <2>1. (<<e>> \o Tail(batch)) \o ring = <<e>> \o (Tail(batch) \o ring)
    BY <1>4, <1>5, ConcatAssociative
  <2> QED BY <1>5, <1>6, <2>1 DEF Pending
<1>8. Pending' = rest
  BY <1>2, <1>4, <1>6 DEF Pending
<1>9. OnTheWay' = (queue \o new) \o rest
  BY <1>3, <1>8, WayTypesNext
<1> QED BY <1>1, <1>2, <1>3, <1>4, <1>7, <1>8, <1>9 DEF Renderings

(* The end of a poll: one event, or none.                                  *)
LEMMA PopsStep ==
    ASSUME Types, Types', PollReturns
    PROVE  Pops \/ Stays
<1>1. UNCHANGED <<platformVars, deviceVars, batch>>
  BY DEF PollReturns
<1>2. Pending' = Pending
  BY <1>1 DEF Pending, platformVars
<1>3. CASE UNCHANGED <<queue, view>>
  BY <1>1, <1>2, <1>3, WayTypes, WayTypesNext DEF Stays, platformVars
<1>4. CASE /\ queue # <<>> /\ Head(queue) \in Evt /\ queue' = Tail(queue)
           /\ queue' \in Seq(Evt) /\ view' = Seen(view, Head(queue))
  <2>1. queue = <<Head(queue)>> \o Tail(queue) /\ Tail(queue) \in Seq(Evt)
    BY <1>4, WayTypes, FirstAndRest
  <2>2. OnTheWay' = Tail(queue) \o Pending
    BY <1>2, <1>4, WayTypesNext
  <2> QED BY <1>1, <1>2, <1>4, <2>1, <2>2 DEF Pops
<1> QED BY <1>3, <1>4, PollEffect

(* Every step does one of the three, or leaves what is on the way alone.   *)
LEMMA WaySteps ==
    ASSUME Types, Types', [Next]_vars
    PROVE  Pushes \/ Renderings \/ Pops \/ Stays
<1>1. CASE PollPads
  <2>1. pad \in Pad /\ PollPad(pad) /\ UNCHANGED <<batch, queue, view>>
    BY <1>1 DEF PollPads, Types, TypeOK
  <2>2. CASE UNCHANGED platformVars
    <3>1. Pending' = Pending
      BY <2>1, <2>2 DEF platformVars, Pending
    <3> QED BY <2>1, <2>2, <3>1, WayTypes, WayTypesNext DEF platformVars, Stays
  <2>3. CASE ~UNCHANGED platformVars
    <3>1. /\ Event("removed", pad) \in Evt /\ Event("added", pad) \in Evt
          /\ Event("padInput", pad) \in Evt
          /\ \/ Emit(<<Event("removed", pad)>>) \/ Emit(<<>>) \/ Emit(<<Event("padInput", pad)>>)
             \/ Emit(<<Event("added", pad)>>)
             \/ Emit(<<Event("added", pad), Event("padInput", pad)>>)
      BY <2>1, <2>3, PadEffect
    <3>2. \E evs \in Seq(Evt) : Emit(evs)
      BY <3>1, Few
    <3> QED BY <2>1, <3>2, PushesStep DEF Pushes
  <2> QED BY <2>2, <2>3
<1>2. CASE TakeMessage
  <2>1. UNCHANGED <<batch, queue, view>> /\ \E evs \in Seq(Evt) : Emits(evs)
    BY <1>2, MessageEffect DEF TakeMessage
  <2> QED BY <2>1, PushesStep DEF Emits, Pushes
<1>3. CASE ResizeCall
  <2>1. UNCHANGED <<batch, queue, view>> /\ \E evs \in Seq(Evt) : Emits(evs)
    BY <1>3, PlainEffect DEF ResizeCall
  <2> QED BY <2>1, PushesStep DEF Emits, Pushes
<1>4. CASE \/ RequestPad \/ FrameBegins \/ Poll \/ MainReturns \/ LoopTest \/ FrameReturns
           \/ Exit \/ UNCHANGED vars
  <2>1. UNCHANGED <<platformVars, batch, queue, view>>
    BY <1>4 DEF RequestPad, FrameBegins, Poll, MainReturns, LoopTest, FrameReturns, Exit, vars
  <2>2. Pending' = Pending
    BY <2>1 DEF Pending, platformVars
  <2> QED BY <2>1, <2>2, WayTypes, WayTypesNext DEF Stays, platformVars
<1> QED BY <1>1, <1>2, <1>3, <1>4, StaysStep, RendersStep, PopsStep, Steps

-----------------------------------------------------------------------------
(* Order.                                                                  *)

Precedes(x, y) == x.n < y.n \/ (x.n = y.n /\ y.kind = "pointer")
Before(x, s) == \A i \in 1 .. Len(s) : Precedes(x, s[i])
AllBefore(a, b) == \A i \in 1 .. Len(a) : Before(a[i], b)
InOrder(s) == \A i, j \in 1 .. Len(s) : i < j => Precedes(s[i], s[j])
Upto(s, m) == \A i \in 1 .. Len(s) : s[i].n <= m

(* The elements of a concatenation are those of its parts.                 *)
LEMMA ConcatElements ==
    ASSUME NEW S, NEW a \in Seq(S), NEW b \in Seq(S)
    PROVE  /\ a \o b \in Seq(S) /\ Len(a \o b) = Len(a) + Len(b)
           /\ Len(a) \in Nat /\ Len(b) \in Nat
           /\ \A i \in 1 .. Len(a) : i \in 1 .. Len(a \o b) /\ (a \o b)[i] = a[i]
           /\ \A j \in 1 .. Len(b) : Len(a) + j \in 1 .. Len(a \o b)
                                     /\ (a \o b)[Len(a) + j] = b[j]
           /\ \A i \in 1 .. Len(a \o b) :
                \/ i \in 1 .. Len(a) /\ (a \o b)[i] = a[i]
                \/ \E j \in 1 .. Len(b) : i = Len(a) + j /\ (a \o b)[i] = b[j]
<1>1. /\ a \o b \in Seq(S) /\ Len(a \o b) = Len(a) + Len(b)
      /\ \A i \in 1 .. Len(a) + Len(b) :
           (a \o b)[i] = IF i <= Len(a) THEN a[i] ELSE b[i - Len(a)]
      /\ Len(a) \in Nat /\ Len(b) \in Nat
  BY ConcatProperties
<1>2. ASSUME NEW i \in 1 .. Len(a) PROVE i \in 1 .. Len(a \o b) /\ (a \o b)[i] = a[i]
  <2>1. i \in 1 .. Len(a) + Len(b) /\ i <= Len(a)
    BY <1>1
  <2> QED BY <1>1, <2>1
<1>3. ASSUME NEW j \in 1 .. Len(b)
      PROVE  Len(a) + j \in 1 .. Len(a \o b) /\ (a \o b)[Len(a) + j] = b[j]
  <2>1. PICK i \in 1 .. Len(a) + Len(b) : i = Len(a) + j /\ ~(i <= Len(a)) /\ i - Len(a) = j
    <3>1. /\ Len(a) + j \in 1 .. Len(a) + Len(b) /\ ~(Len(a) + j <= Len(a))
          /\ (Len(a) + j) - Len(a) = j
      BY <1>1
    <3> QED BY <3>1
  <2>2. (a \o b)[i] = b[j]
    BY <1>1, <2>1
  <2> QED BY <1>1, <2>1, <2>2
<1>4. ASSUME NEW i \in 1 .. Len(a \o b)
      PROVE  \/ i \in 1 .. Len(a) /\ (a \o b)[i] = a[i]
             \/ \E j \in 1 .. Len(b) : i = Len(a) + j /\ (a \o b)[i] = b[j]
  <2>1. CASE i <= Len(a)
    BY <1>1, <2>1
  <2>2. CASE ~(i <= Len(a))
    <3>1. i - Len(a) \in 1 .. Len(b) /\ i = Len(a) + (i - Len(a))
      BY <1>1, <2>2
    <3>2. (a \o b)[i] = b[i - Len(a)]
      BY <1>1, <2>2
    <3> QED BY <3>1, <3>2
  <2> QED BY <2>1, <2>2
<1> QED BY <1>1, <1>2, <1>3, <1>4

(* Before, of a concatenation.                                             *)
LEMMA BeforeConcat ==
    ASSUME NEW S, NEW x, NEW a \in Seq(S), NEW b \in Seq(S)
    PROVE  Before(x, a \o b) <=> Before(x, a) /\ Before(x, b)
<1> PICK c : c = a \o b
  OBVIOUS
<1>1. /\ \A i \in 1 .. Len(a) : i \in 1 .. Len(c) /\ c[i] = a[i]
      /\ \A j \in 1 .. Len(b) : Len(a) + j \in 1 .. Len(c) /\ c[Len(a) + j] = b[j]
      /\ \A i \in 1 .. Len(c) : \/ i \in 1 .. Len(a) /\ c[i] = a[i]
                                \/ \E j \in 1 .. Len(b) : i = Len(a) + j /\ c[i] = b[j]
  BY ConcatElements
<1>2. ASSUME Before(x, c) PROVE Before(x, a) /\ Before(x, b)
  BY <1>1, <1>2 DEF Before
<1>3. ASSUME Before(x, a), Before(x, b) PROVE Before(x, c)
  BY <1>1, <1>3 DEF Before
<1> QED BY <1>2, <1>3

(* Upto, of a concatenation.                                               *)
LEMMA UptoConcat ==
    ASSUME NEW S, NEW m, NEW a \in Seq(S), NEW b \in Seq(S)
    PROVE  Upto(a \o b, m) <=> Upto(a, m) /\ Upto(b, m)
<1> PICK c : c = a \o b
  OBVIOUS
<1>1. /\ \A i \in 1 .. Len(a) : i \in 1 .. Len(c) /\ c[i] = a[i]
      /\ \A j \in 1 .. Len(b) : Len(a) + j \in 1 .. Len(c) /\ c[Len(a) + j] = b[j]
      /\ \A i \in 1 .. Len(c) : \/ i \in 1 .. Len(a) /\ c[i] = a[i]
                                \/ \E j \in 1 .. Len(b) : i = Len(a) + j /\ c[i] = b[j]
  BY ConcatElements
<1>2. ASSUME Upto(c, m) PROVE Upto(a, m) /\ Upto(b, m)
  BY <1>1, <1>2 DEF Upto
<1>3. ASSUME Upto(a, m), Upto(b, m) PROVE Upto(c, m)
  BY <1>1, <1>3 DEF Upto
<1> QED BY <1>2, <1>3

(* AllBefore, of a concatenation on either side.                           *)
LEMMA AllBeforeConcat ==
    ASSUME NEW S, NEW a \in Seq(S), NEW b \in Seq(S), NEW d \in Seq(S)
    PROVE  /\ AllBefore(a \o b, d) <=> AllBefore(a, d) /\ AllBefore(b, d)
           /\ AllBefore(d, a \o b) <=> AllBefore(d, a) /\ AllBefore(d, b)
<1> PICK c : c = a \o b
  OBVIOUS
<1>1. /\ \A i \in 1 .. Len(a) : i \in 1 .. Len(c) /\ c[i] = a[i]
      /\ \A j \in 1 .. Len(b) : Len(a) + j \in 1 .. Len(c) /\ c[Len(a) + j] = b[j]
      /\ \A i \in 1 .. Len(c) : \/ i \in 1 .. Len(a) /\ c[i] = a[i]
                                \/ \E j \in 1 .. Len(b) : i = Len(a) + j /\ c[i] = b[j]
  BY ConcatElements
<1>2. AllBefore(c, d) <=> AllBefore(a, d) /\ AllBefore(b, d)
  <2>1. ASSUME AllBefore(c, d) PROVE AllBefore(a, d) /\ AllBefore(b, d)
    BY <1>1, <2>1 DEF AllBefore
  <2>2. ASSUME AllBefore(a, d), AllBefore(b, d) PROVE AllBefore(c, d)
    BY <1>1, <2>2 DEF AllBefore
  <2> QED BY <2>1, <2>2
<1>3. AllBefore(d, c) <=> AllBefore(d, a) /\ AllBefore(d, b)
  BY BeforeConcat DEF AllBefore
<1> QED BY <1>2, <1>3

(* A concatenation is in order if its parts are, and the first is before   *)
(* the second.                                                             *)
LEMMA InOrderConcat ==
    ASSUME NEW S, NEW a \in Seq(S), NEW b \in Seq(S)
    PROVE  InOrder(a \o b) <=> InOrder(a) /\ InOrder(b) /\ AllBefore(a, b)
<1> PICK c : c = a \o b
  OBVIOUS
<1>1. /\ Len(a) \in Nat /\ Len(b) \in Nat
      /\ \A i \in 1 .. Len(a) : i \in 1 .. Len(c) /\ c[i] = a[i]
      /\ \A j \in 1 .. Len(b) : Len(a) + j \in 1 .. Len(c) /\ c[Len(a) + j] = b[j]
      /\ \A i \in 1 .. Len(c) : \/ i \in 1 .. Len(a) /\ c[i] = a[i]
                                \/ \E j \in 1 .. Len(b) : i = Len(a) + j /\ c[i] = b[j]
  BY ConcatElements
<1>2. ASSUME InOrder(c) PROVE InOrder(a) /\ InOrder(b) /\ AllBefore(a, b)
  <2>1. InOrder(a)
    BY <1>1, <1>2 DEF InOrder
  <2>2. ASSUME NEW i \in 1 .. Len(b), NEW j \in 1 .. Len(b), i < j PROVE Precedes(b[i], b[j])
    <3>1. Len(a) + i < Len(a) + j
      BY <1>1, <2>2
    <3> QED BY <1>1, <1>2, <3>1 DEF InOrder
  <2>3. ASSUME NEW i \in 1 .. Len(a), NEW j \in 1 .. Len(b) PROVE Precedes(a[i], b[j])
    <3>1. i < Len(a) + j
      BY <1>1
    <3> QED BY <1>1, <1>2, <3>1 DEF InOrder
  <2> QED BY <2>1, <2>2, <2>3 DEF InOrder, AllBefore, Before
<1>3. ASSUME InOrder(a), InOrder(b), AllBefore(a, b) PROVE InOrder(c)
  <2> SUFFICES ASSUME NEW i \in 1 .. Len(c), NEW j \in 1 .. Len(c), i < j
               PROVE  Precedes(c[i], c[j])
    BY DEF InOrder
  <2>1. CASE i \in 1 .. Len(a) /\ j \in 1 .. Len(a)
    BY <1>1, <1>3, <2>1 DEF InOrder
  <2>2. ASSUME i \in 1 .. Len(a), NEW l \in 1 .. Len(b), c[j] = b[l] PROVE Precedes(c[i], c[j])
    BY <1>1, <1>3, <2>2 DEF AllBefore, Before
  <2>3. ASSUME NEW k \in 1 .. Len(b), i = Len(a) + k, c[i] = b[k],
               NEW l \in 1 .. Len(b), j = Len(a) + l, c[j] = b[l]
        PROVE  Precedes(c[i], c[j])
    <3>1. k < l
      BY <1>1, <2>3
    <3> QED BY <1>3, <2>3, <3>1 DEF InOrder
  <2>4. ASSUME NEW k \in 1 .. Len(b), i = Len(a) + k, j \in 1 .. Len(a) PROVE FALSE
    BY <1>1, <2>4
  <2> QED BY <1>1, <2>1, <2>2, <2>3, <2>4
<1> QED BY <1>2, <1>3

(* One event before others, and a sequence before one event.               *)
LEMMA OneEvent ==
    ASSUME NEW S, NEW x \in S, NEW s \in Seq(S)
    PROVE  /\ AllBefore(<<x>>, s) <=> Before(x, s)
           /\ AllBefore(<<>>, s) /\ AllBefore(s, <<>>) /\ InOrder(<<>>) /\ InOrder(<<x>>)
           /\ \A y : Before(y, <<>>) /\ (Before(y, <<x>>) <=> Precedes(y, x))
           /\ \A m : Upto(<<>>, m) /\ (Upto(<<x>>, m) <=> x.n <= m)
<1>1. Len(<<x>>) = 1 /\ <<x>>[1] = x /\ Len(<<>>) = 0
  BY Few
<1>2. \A i : i \in 1 .. 1 <=> i = 1
  OBVIOUS
<1>3. \A i : i \notin 1 .. 0
  OBVIOUS
<1> QED BY <1>1, <1>2, <1>3 DEF AllBefore, Before, InOrder, Upto

(* What a translation puts in the place of an event keeps its place.       *)
LEMMA InPlace ==
    ASSUME NEW e \in Evt, NEW new \in Seq(Evt), Queued(e, new),
           NEW q \in Seq(Evt), NEW rest \in Seq(Evt), NEW v, NEW m,
           AllBefore(q, <<e>>), Before(e, rest), Before(v, <<e>>), e.n <= m
    PROVE  /\ InOrder(new) /\ AllBefore(q, new) /\ AllBefore(new, rest)
           /\ Before(v, new) /\ Upto(new, m)
<1>1. CASE new = <<>>
  BY <1>1, OneEvent
<1>2. ASSUME NEW f \in Evt, Renders(e, f)
      PROVE  /\ \A x : Precedes(x, e) => Precedes(x, f)
             /\ \A y : Precedes(e, y) => Precedes(f, y)
             /\ f.n <= m
  BY <1>2 DEF Renders, Precedes
<1>3. ASSUME NEW g \in Evt, Companion(e, g)
      PROVE  /\ \A x : Precedes(x, e) => Precedes(x, g)
             /\ \A y : Precedes(e, y) => Precedes(g, y)
             /\ g.n <= m
  BY <1>3 DEF Companion, Precedes
<1>4. ASSUME NEW f \in Evt, f.n <= m,
             \A x : Precedes(x, e) => Precedes(x, f),
             \A y : Precedes(e, y) => Precedes(f, y)
      PROVE  /\ AllBefore(q, <<f>>) /\ Before(f, rest) /\ AllBefore(<<f>>, rest)
             /\ Before(v, <<f>>) /\ Upto(<<f>>, m)
  <2>1. /\ \A x : Before(x, <<e>>) <=> Precedes(x, e)
        /\ \A x : Before(x, <<f>>) <=> Precedes(x, f)
        /\ AllBefore(<<f>>, rest) <=> Before(f, rest)
        /\ Upto(<<f>>, m) <=> f.n <= m
    BY OneEvent
  <2>2. AllBefore(q, <<f>>) /\ Before(v, <<f>>)
    BY <1>4, <2>1 DEF AllBefore
  <2>3. Before(f, rest)
    BY <1>4 DEF Before
  <2> QED BY <1>4, <2>1, <2>2, <2>3
<1>5. ASSUME NEW f \in Evt, Renders(e, f), new = <<f>>
      PROVE  /\ InOrder(new) /\ AllBefore(q, new) /\ AllBefore(new, rest)
             /\ Before(v, new) /\ Upto(new, m)
  BY <1>2, <1>4, <1>5, OneEvent
<1>6. ASSUME NEW f \in Evt, Renders(e, f), NEW g \in Evt, Companion(e, g), new = <<f, g>>
      PROVE  /\ InOrder(new) /\ AllBefore(q, new) /\ AllBefore(new, rest)
             /\ Before(v, new) /\ Upto(new, m)
  <2>1. new = <<f>> \o <<g>> /\ <<f>> \in Seq(Evt) /\ <<g>> \in Seq(Evt)
    BY <1>6, Few
  <2>2. /\ AllBefore(q, <<f>>) /\ AllBefore(<<f>>, rest) /\ Before(v, <<f>>) /\ Upto(<<f>>, m)
        /\ AllBefore(q, <<g>>) /\ AllBefore(<<g>>, rest) /\ Before(v, <<g>>) /\ Upto(<<g>>, m)
    BY <1>2, <1>3, <1>4, <1>6
  <2>3. Precedes(f, g)
    BY <1>6 DEF Renders, Companion, Precedes
  <2>4. AllBefore(<<f>>, <<g>>) /\ InOrder(<<f>>) /\ InOrder(<<g>>)
    BY <2>1, <2>3, OneEvent
  <2>5. InOrder(<<f>> \o <<g>>)
    BY <2>1, <2>4, InOrderConcat
  <2>6. AllBefore(q, <<f>> \o <<g>>) /\ AllBefore(<<f>> \o <<g>>, rest)
    BY <2>1, <2>2, AllBeforeConcat
  <2>7. Before(v, <<f>> \o <<g>>) /\ Upto(<<f>> \o <<g>>, m)
    BY <2>1, <2>2, BeforeConcat, UptoConcat
  <2> QED BY Zenon, <2>1, <2>5, <2>6, <2>7
<1> QED BY <1>1, <1>5, <1>6 DEF Queued

(* What is on the way is in order and after what the guest saw, and no     *)
(* event has a number that was not given yet.                              *)
OrderInv ==
    /\ InOrder(OnTheWay) /\ Before(view, OnTheWay)
    /\ view.n <= made /\ Upto(OnTheWay, made)

(* At first nothing is on the way.                                         *)
LEMMA OrderInit == Init => OrderInv
<1> SUFFICES ASSUME Init PROVE OrderInv
  OBVIOUS
<1>1. OnTheWay = <<>> /\ view.n = 0 /\ made = 0
  BY ConcatEmptySeq DEF Init, PlatformInit, OnTheWay
<1>2. Len(<<>>) = 0 /\ \A i : i \notin 1 .. 0
  BY Few
<1> QED BY <1>1, <1>2 DEF OrderInv, InOrder, Before, Upto

(* Every step keeps the order: what is pushed is numbered last, a          *)
(* translation takes the place of the event, a pop takes the first.        *)
LEMMA OrderNext == Types /\ Types' /\ OrderInv /\ [Next]_vars => OrderInv'
<1> SUFFICES ASSUME Types, Types', OrderInv, [Next]_vars PROVE OrderInv'
  OBVIOUS
<1>1. /\ queue \in Seq(Evt) /\ Pending \in Seq(Evt) /\ OnTheWay \in Seq(Evt)
      /\ OnTheWay = queue \o Pending
  BY WayTypes
<1>2. made \in Nat /\ view.n \in Nat
  BY DEF Types, TypeOK, PlatformTypeOK, View
<1>3. /\ InOrder(OnTheWay) /\ Before(view, OnTheWay)
      /\ view.n <= made /\ Upto(OnTheWay, made)
  BY DEF OrderInv
<1>4. CASE Pushes
  <2>1. PICK evs \in Seq(Evt), new \in Seq(Evt) :
          Pushed(evs, new) /\ OnTheWay' = OnTheWay \o new /\ view' = view
    BY <1>4 DEF Pushes
  <2>2. /\ Len(new) \in Nat /\ Len(evs) \in Nat /\ Len(new) <= Len(evs)
        /\ made' = made + Len(evs)
    BY <2>1 DEF Pushed
  <2>3. \A i \in 1 .. Len(new) : new[i].n = made + i
    <3> SUFFICES ASSUME NEW i \in 1 .. Len(new) PROVE new[i].n = made + i
      OBVIOUS
    <3>1. i \in 1 .. Len(evs)
      BY <2>2
    <3>2. evs[i] \in EventRecord
      BY <3>1, ElementOfSeq DEF Evt
    <3> QED BY <2>1, <3>2 DEF Pushed, EventRecord
  <2>4. InOrder(new) /\ Upto(new, made')
    BY <1>2, <2>2, <2>3 DEF InOrder, Precedes, Upto
  <2>5. ASSUME NEW x, x.n \in Nat, x.n <= made PROVE Before(x, new)
    BY <1>2, <2>2, <2>3, <2>5 DEF Before, Precedes
  <2>6. \A i \in 1 .. Len(OnTheWay) : OnTheWay[i].n \in Nat
    BY <1>1, ElementOfSeq DEF Evt, EventRecord
  <2>7. AllBefore(OnTheWay, new) /\ Before(view, new)
    BY <1>2, <1>3, <2>5, <2>6 DEF AllBefore, Upto
  <2>8. Upto(OnTheWay, made') /\ view'.n <= made'
    BY <1>2, <1>3, <2>1, <2>2, <2>6 DEF Upto
  <2>9. InOrder(OnTheWay \o new) /\ Before(view, OnTheWay \o new) /\ Upto(OnTheWay \o new, made')
    BY <1>1, <1>3, <2>4, <2>7, <2>8, InOrderConcat, BeforeConcat, UptoConcat
  <2> QED BY Zenon, <2>1, <2>8, <2>9 DEF OrderInv
<1>5. CASE Renderings
  <2>1. PICK e \in Evt, new \in Seq(Evt), rest \in Seq(Evt) :
          /\ Queued(e, new) /\ Pending = <<e>> \o rest
          /\ OnTheWay' = (queue \o new) \o rest
          /\ view' = view /\ made' = made
    BY <1>5 DEF Renderings
  <2>2. <<e>> \in Seq(Evt)
    BY Few
  <2>3. /\ InOrder(queue) /\ InOrder(<<e>> \o rest) /\ AllBefore(queue, <<e>> \o rest)
        /\ Before(view, queue) /\ Before(view, <<e>> \o rest)
        /\ Upto(queue, made) /\ Upto(<<e>> \o rest, made)
    BY <1>1, <1>3, <2>1, InOrderConcat, BeforeConcat, UptoConcat
  <2>4. /\ InOrder(rest) /\ AllBefore(<<e>>, rest) /\ AllBefore(queue, <<e>>)
        /\ AllBefore(queue, rest) /\ Before(view, <<e>>) /\ Before(view, rest)
        /\ Upto(<<e>>, made) /\ Upto(rest, made)
    BY <1>1, <2>2, <2>3, InOrderConcat, AllBeforeConcat, BeforeConcat, UptoConcat
  <2>5. Before(e, rest) /\ e.n <= made
    BY <2>4, OneEvent
  <2>6. /\ InOrder(new) /\ AllBefore(queue, new) /\ AllBefore(new, rest)
        /\ Before(view, new) /\ Upto(new, made)
    BY <1>1, <2>1, <2>4, <2>5, InPlace
  <2>7. queue \o new \in Seq(Evt) /\ InOrder(queue \o new) /\ AllBefore(queue \o new, rest)
    BY <1>1, <2>3, <2>4, <2>6, InOrderConcat, AllBeforeConcat, ConcatElements
  <2>8. Before(view, queue \o new) /\ Upto(queue \o new, made)
    BY <1>1, <2>3, <2>6, BeforeConcat, UptoConcat
  <2>9. /\ InOrder((queue \o new) \o rest) /\ Before(view, (queue \o new) \o rest)
        /\ Upto((queue \o new) \o rest, made)
    BY <2>4, <2>7, <2>8, InOrderConcat, BeforeConcat, UptoConcat
  <2> QED BY Zenon, <1>3, <2>1, <2>9 DEF OrderInv
<1>6. CASE Pops
  <2>1. PICK e \in Evt, rest \in Seq(Evt) :
          /\ queue = <<e>> \o rest /\ view' = Seen(view, e)
          /\ OnTheWay' = rest \o Pending /\ made' = made
    BY <1>6 DEF Pops, platformVars
  <2>2. <<e>> \in Seq(Evt)
    BY Few
  <2>3. /\ InOrder(<<e>> \o rest) /\ InOrder(Pending) /\ AllBefore(<<e>> \o rest, Pending)
        /\ Upto(<<e>> \o rest, made) /\ Upto(Pending, made)
    BY <1>1, <1>3, <2>1, InOrderConcat, UptoConcat
  <2>4. /\ InOrder(rest) /\ AllBefore(<<e>>, rest) /\ AllBefore(<<e>>, Pending)
        /\ AllBefore(rest, Pending) /\ Upto(<<e>>, made) /\ Upto(rest, made)
    BY <1>1, <2>2, <2>3, InOrderConcat, AllBeforeConcat, UptoConcat
  <2>5. Before(e, rest) /\ Before(e, Pending) /\ e.n <= made
    BY <1>1, <2>4, OneEvent
  <2>6. /\ InOrder(rest \o Pending) /\ Before(e, rest \o Pending)
        /\ Upto(rest \o Pending, made)
    BY <1>1, <2>3, <2>4, <2>5, InOrderConcat, BeforeConcat, UptoConcat
  <2>7. view'.n = e.n
    <3>1. view \in View
      BY DEF Types
    <3> QED BY <2>1, <3>1, SeenIs
  <2>8. Before(view', rest \o Pending)
    BY <2>6, <2>7 DEF Before, Precedes
  <2> QED BY Zenon, <2>1, <2>5, <2>6, <2>7, <2>8 DEF OrderInv
<1>7. CASE Stays
  BY <1>7 DEF Stays, OrderInv
<1> QED BY <1>4, <1>5, <1>6, <1>7, WaySteps

(* Events reach the guest in the order in which they happened, none twice. *)
THEOREM OrderKept == Spec => []EventsInOrder
<1>1. OrderInv => EventsInOrder
  BY DEF OrderInv, EventsInOrder, InOrder, Before, Precedes
<1>2. Types /\ [Next]_vars => Types'
  BY TypesNext
<1> QED BY <1>1, <1>2, OrderInit, OrderNext, TypesHold, PTL DEF Spec

-----------------------------------------------------------------------------
(* Sequences of generations.                                               *)

Distinct(s) == \A i, j \in 1 .. Len(s) : i < j /\ s[i] # 0 => s[i] # s[j]
NoneOf(a, b) == \A i \in 1 .. Len(a), j \in 1 .. Len(b) : a[i] # 0 => a[i] # b[j]
AtMost(s, m) == \A i \in 1 .. Len(s) : s[i] <= m
Has(s, m) == \E i \in 1 .. Len(s) : s[i] = m
Zeros(s) == \A i \in 1 .. Len(s) : s[i] = 0

(* The predicates, of a concatenation.                                     *)
LEMMA NumbersConcat ==
    ASSUME NEW S, NEW a \in Seq(S), NEW b \in Seq(S)
    PROVE  /\ Distinct(a \o b) <=> Distinct(a) /\ Distinct(b) /\ NoneOf(a, b)
           /\ \A m : Has(a \o b, m) <=> Has(a, m) \/ Has(b, m)
           /\ \A m : AtMost(a \o b, m) <=> AtMost(a, m) /\ AtMost(b, m)
<1> PICK c : c = a \o b
  OBVIOUS
<1>1. /\ Len(a) \in Nat /\ Len(b) \in Nat
      /\ \A i \in 1 .. Len(a) : i \in 1 .. Len(c) /\ c[i] = a[i]
      /\ \A j \in 1 .. Len(b) : Len(a) + j \in 1 .. Len(c) /\ c[Len(a) + j] = b[j]
      /\ \A i \in 1 .. Len(c) : \/ i \in 1 .. Len(a) /\ c[i] = a[i]
                                \/ \E j \in 1 .. Len(b) : i = Len(a) + j /\ c[i] = b[j]
  BY ConcatElements
<1>2. ASSUME Distinct(c) PROVE Distinct(a) /\ Distinct(b) /\ NoneOf(a, b)
  <2>1. Distinct(a)
    BY <1>1, <1>2 DEF Distinct
  <2>2. ASSUME NEW i \in 1 .. Len(b), NEW j \in 1 .. Len(b), i < j, b[i] # 0 PROVE b[i] # b[j]
    <3>1. Len(a) + i < Len(a) + j
      BY <1>1, <2>2
    <3>2. PICK k \in 1 .. Len(c), l \in 1 .. Len(c) : k < l /\ c[k] = b[i] /\ c[l] = b[j]
      BY <1>1, <3>1
    <3>3. c[k] # c[l]
      BY <1>2, <2>2, <3>2 DEF Distinct
    <3> QED BY <3>2, <3>3
  <2>3. ASSUME NEW i \in 1 .. Len(a), NEW j \in 1 .. Len(b), a[i] # 0 PROVE a[i] # b[j]
    <3>1. i < Len(a) + j
      BY <1>1
    <3>2. PICK k \in 1 .. Len(c), l \in 1 .. Len(c) : k < l /\ c[k] = a[i] /\ c[l] = b[j]
      BY <1>1, <3>1
    <3>3. c[k] # c[l]
      BY <1>2, <2>3, <3>2 DEF Distinct
    <3> QED BY <3>2, <3>3
  <2> QED BY <2>1, <2>2, <2>3 DEF Distinct, NoneOf
<1>3. ASSUME Distinct(a), Distinct(b), NoneOf(a, b) PROVE Distinct(c)
  <2> SUFFICES ASSUME NEW i \in 1 .. Len(c), NEW j \in 1 .. Len(c), i < j, c[i] # 0
               PROVE  c[i] # c[j]
    BY DEF Distinct
  <2>1. CASE i \in 1 .. Len(a) /\ j \in 1 .. Len(a)
    BY <1>1, <1>3, <2>1 DEF Distinct
  <2>2. ASSUME i \in 1 .. Len(a), NEW l \in 1 .. Len(b), c[j] = b[l] PROVE c[i] # c[j]
    BY <1>1, <1>3, <2>2 DEF NoneOf
  <2>3. ASSUME NEW k \in 1 .. Len(b), i = Len(a) + k, c[i] = b[k],
               NEW l \in 1 .. Len(b), j = Len(a) + l, c[j] = b[l]
        PROVE  c[i] # c[j]
    <3>1. k < l
      BY <1>1, <2>3
    <3> QED BY <1>3, <2>3, <3>1 DEF Distinct
  <2>4. ASSUME NEW k \in 1 .. Len(b), i = Len(a) + k, j \in 1 .. Len(a) PROVE FALSE
    BY <1>1, <2>4
  <2> QED BY <1>1, <2>1, <2>2, <2>3, <2>4
<1>4. \A m : Has(c, m) <=> Has(a, m) \/ Has(b, m)
  <2> SUFFICES ASSUME NEW m PROVE Has(c, m) <=> Has(a, m) \/ Has(b, m)
    OBVIOUS
  <2>1. ASSUME NEW i \in 1 .. Len(a), a[i] = m PROVE Has(c, m)
    BY <1>1, <2>1 DEF Has
  <2>2. ASSUME NEW i \in 1 .. Len(b), b[i] = m PROVE Has(c, m)
    BY <1>1, <2>2 DEF Has
  <2>3. ASSUME NEW i \in 1 .. Len(c), c[i] = m PROVE Has(a, m) \/ Has(b, m)
    BY <1>1, <2>3 DEF Has
  <2>4. Has(a, m) \/ Has(b, m) => Has(c, m)
    BY <2>1, <2>2 DEF Has
  <2>5. Has(c, m) => Has(a, m) \/ Has(b, m)
    BY <2>3 DEF Has
  <2> QED BY <2>4, <2>5
<1>5. \A m : AtMost(c, m) <=> AtMost(a, m) /\ AtMost(b, m)
  <2> SUFFICES ASSUME NEW m PROVE AtMost(c, m) <=> AtMost(a, m) /\ AtMost(b, m)
    OBVIOUS
  <2>1. ASSUME AtMost(c, m) PROVE AtMost(a, m) /\ AtMost(b, m)
    BY <1>1, <2>1 DEF AtMost
  <2>2. ASSUME AtMost(a, m), AtMost(b, m) PROVE AtMost(c, m)
    BY <1>1, <2>2 DEF AtMost
  <2> QED BY <2>1, <2>2
<1> QED BY <1>2, <1>3, <1>4, <1>5

(* Zeros say nothing, wherever they stand.                                 *)
LEMMA ZerosSayNothing ==
    ASSUME NEW s \in Seq(Nat), NEW z \in Seq(Nat), Zeros(z), NEW m \in Nat
    PROVE  /\ Distinct(s) => Distinct(s \o z)
           /\ AtMost(s, m) => AtMost(s \o z, m)
           /\ Has(s \o z, m) /\ m # 0 => Has(s, m)
<1>1. Distinct(z) /\ NoneOf(s, z) /\ AtMost(z, m) /\ (Has(z, m) => m = 0)
  BY DEF Distinct, NoneOf, AtMost, Has, Zeros
<1> QED BY <1>1, NumbersConcat

(* One more generation.                                                    *)
LEMMA OneMore ==
    ASSUME NEW s \in Seq(Nat), NEW g \in Nat
    PROVE  /\ Distinct(s) /\ ~Has(s, g) => Distinct(s \o <<g>>)
           /\ Distinct(s) /\ g = 0 => Distinct(s \o <<g>>)
           /\ AtMost(s, g) => AtMost(s \o <<g>>, g)
           /\ \A m : AtMost(s, m) /\ g <= m => AtMost(s \o <<g>>, m)
<1>1. <<g>> \in Seq(Nat) /\ Len(<<g>>) = 1 /\ <<g>>[1] = g
  BY Few
<1>2. \A i : i \in 1 .. 1 <=> i = 1
  OBVIOUS
<1>3. Distinct(<<g>>) /\ \A m : AtMost(<<g>>, m) <=> g <= m
  BY <1>1, <1>2 DEF Distinct, AtMost
<1>4. ~Has(s, g) \/ g = 0 => NoneOf(s, <<g>>)
  BY <1>1, <1>2 DEF NoneOf, Has
<1>5. g <= g
  OBVIOUS
<1> QED BY <1>1, <1>3, <1>4, <1>5, NumbersConcat

(* A smaller bound is a bound, and a number above it does not occur.       *)
LEMMA Bounds ==
    ASSUME NEW s \in Seq(Nat), NEW m \in Nat, AtMost(s, m)
    PROVE  AtMost(s, m + 1) /\ ~Has(s, m + 1)
<1>1. \A i \in 1 .. Len(s) : s[i] \in Nat
  BY ElementOfSeq
<1> QED BY <1>1 DEF AtMost, Has

-----------------------------------------------------------------------------
(* Controllers among the events that are not yet translated.               *)

Adds(e, p)    == e.kind = "added" /\ e.arg = p
Removes(e, p) == e.kind = "removed" /\ e.arg = p
Wakes(e, p)   == e.kind \in {"added", "padInput"} /\ e.arg = p
Silent(s, p)  == \A i \in 1 .. Len(s) : ~Removes(s[i], p) /\ ~Wakes(s[i], p)

(* p is unplugged; whatever gives it a handle is undone by an unplugging;  *)
(* between two pluggings it is unplugged, and before any.                  *)
Goes(s, p) == \E i \in 1 .. Len(s) : Removes(s[i], p)
Undone(s, p) == \A i \in 1 .. Len(s) : Wakes(s[i], p) =>
                  \E j \in 1 .. Len(s) : i < j /\ Removes(s[j], p)
Alternates(s, p) == \A i, k \in 1 .. Len(s) : i < k /\ Adds(s[i], p) /\ Adds(s[k], p) =>
                      \E j \in 1 .. Len(s) : i < j /\ j < k /\ Removes(s[j], p)
Fresh(s, p) == \A k \in 1 .. Len(s) : Adds(s[k], p) =>
                 \E j \in 1 .. Len(s) : j < k /\ Removes(s[j], p)

(* What holds of a sequence of events holds of it without the first.       *)
LEMMA WithoutFirst ==
    ASSUME NEW e \in Evt, NEW r \in Seq(Evt), NEW p
    PROVE  /\ Goes(<<e>> \o r, p) => Removes(e, p) \/ Goes(r, p)
           /\ Undone(<<e>> \o r, p) => Undone(r, p) /\ (Wakes(e, p) => Goes(r, p))
           /\ Alternates(<<e>> \o r, p) => Alternates(r, p) /\ (Adds(e, p) => Fresh(r, p))
           /\ Fresh(<<e>> \o r, p) => ~Adds(e, p) /\ (Removes(e, p) \/ Fresh(r, p))
<1> PICK c : c = <<e>> \o r
  OBVIOUS
<1>1. /\ Len(r) \in Nat /\ Len(c) = 1 + Len(r)
      /\ 1 \in 1 .. Len(c) /\ c[1] = e
      /\ \A j \in 1 .. Len(r) : 1 + j \in 1 .. Len(c) /\ c[1 + j] = r[j]
      /\ \A i \in 1 .. Len(c) : i = 1 \/ \E j \in 1 .. Len(r) : i = 1 + j /\ c[i] = r[j]
  <2>1. <<e>> \in Seq(Evt) /\ Len(<<e>>) = 1 /\ <<e>>[1] = e
    BY Few
  <2>2. /\ Len(c) = 1 + Len(r) /\ Len(r) \in Nat
        /\ \A i \in 1 .. 1 : i \in 1 .. Len(c) /\ c[i] = <<e>>[i]
        /\ \A j \in 1 .. Len(r) : 1 + j \in 1 .. Len(c) /\ c[1 + j] = r[j]
        /\ \A i \in 1 .. Len(c) : \/ i \in 1 .. 1 /\ c[i] = <<e>>[i]
                                  \/ \E j \in 1 .. Len(r) : i = 1 + j /\ c[i] = r[j]
    BY <2>1, ConcatElements
  <2> QED BY <2>1, <2>2
<1>2. ASSUME NEW j \in 1 .. Len(r)
      PROVE  \E i \in 1 .. Len(c) : i = 1 + j /\ i > 1 /\ c[i] = r[j]
  BY <1>1
<1>3. ASSUME Goes(c, p), ~Removes(e, p) PROVE Goes(r, p)
  BY <1>1, <1>3 DEF Goes
<1>4. ASSUME Undone(c, p) PROVE Undone(r, p) /\ (Wakes(e, p) => Goes(r, p))
  <2>1. ASSUME NEW i \in 1 .. Len(c), Wakes(c[i], p)
        PROVE  \E j \in 1 .. Len(r) : i < 1 + j /\ Removes(r[j], p)
    <3>1. PICK m \in 1 .. Len(c) : i < m /\ Removes(c[m], p)
      BY <1>4, <2>1 DEF Undone
    <3>2. PICK j \in 1 .. Len(r) : m = 1 + j /\ c[m] = r[j]
      BY <1>1, <3>1
    <3> QED BY <3>1, <3>2
  <2>2. Undone(r, p)
    <3> SUFFICES ASSUME NEW k \in 1 .. Len(r), Wakes(r[k], p)
                 PROVE  \E j \in 1 .. Len(r) : k < j /\ Removes(r[j], p)
      BY DEF Undone
    <3>1. PICK i \in 1 .. Len(c) : i = 1 + k /\ c[i] = r[k]
      BY <1>2
    <3>2. PICK j \in 1 .. Len(r) : i < 1 + j /\ Removes(r[j], p)
      BY <2>1, <3>1
    <3> QED BY <1>1, <3>1, <3>2
  <2>3. Wakes(e, p) => Goes(r, p)
    BY <1>1, <2>1 DEF Goes
  <2> QED BY <2>2, <2>3
<1>5. ASSUME Alternates(c, p) PROVE Alternates(r, p) /\ (Adds(e, p) => Fresh(r, p))
  <2>1. ASSUME NEW i \in 1 .. Len(c), NEW k \in 1 .. Len(r), i < 1 + k,
               Adds(c[i], p), Adds(r[k], p)
        PROVE  \E j \in 1 .. Len(r) : i < 1 + j /\ j < k /\ Removes(r[j], p)
    <3>1. PICK l \in 1 .. Len(c) : l = 1 + k /\ c[l] = r[k]
      BY <1>2
    <3>2. PICK m \in 1 .. Len(c) : i < m /\ m < l /\ Removes(c[m], p)
      BY <1>5, <2>1, <3>1 DEF Alternates
    <3>3. PICK j \in 1 .. Len(r) : m = 1 + j /\ c[m] = r[j]
      BY <1>1, <3>2
    <3>4. j < k /\ i < 1 + j
      BY <1>1, <3>1, <3>2, <3>3
    <3> QED BY <3>2, <3>3, <3>4
  <2>2. Alternates(r, p)
    <3> SUFFICES ASSUME NEW h \in 1 .. Len(r), NEW k \in 1 .. Len(r), h < k,
                        Adds(r[h], p), Adds(r[k], p)
                 PROVE  \E j \in 1 .. Len(r) : h < j /\ j < k /\ Removes(r[j], p)
      BY DEF Alternates
    <3>1. PICK i \in 1 .. Len(c) : i = 1 + h /\ c[i] = r[h]
      BY <1>2
    <3>2. i < 1 + k
      BY <1>1, <3>1
    <3>3. PICK j \in 1 .. Len(r) : i < 1 + j /\ j < k /\ Removes(r[j], p)
      BY <2>1, <3>1, <3>2
    <3>4. h < j
      BY <1>1, <3>1, <3>3
    <3> QED BY <3>3, <3>4
  <2>3. ASSUME Adds(e, p) PROVE Fresh(r, p)
    <3> SUFFICES ASSUME NEW k \in 1 .. Len(r), Adds(r[k], p)
                 PROVE  \E j \in 1 .. Len(r) : j < k /\ Removes(r[j], p)
      BY DEF Fresh
    <3>1. 1 < 1 + k
      BY <1>1
    <3> QED BY <1>1, <2>1, <2>3, <3>1
  <2> QED BY <2>2, <2>3
<1>6. ASSUME Fresh(c, p) PROVE ~Adds(e, p) /\ (Removes(e, p) \/ Fresh(r, p))
  <2>1. ~Adds(e, p)
    BY <1>1, <1>6 DEF Fresh
  <2>2. ASSUME ~Removes(e, p) PROVE Fresh(r, p)
    <3> SUFFICES ASSUME NEW k \in 1 .. Len(r), Adds(r[k], p)
                 PROVE  \E j \in 1 .. Len(r) : j < k /\ Removes(r[j], p)
      BY DEF Fresh
    <3>1. PICK l \in 1 .. Len(c) : l = 1 + k /\ c[l] = r[k]
      BY <1>2
    <3>2. PICK m \in 1 .. Len(c) : m < l /\ Removes(c[m], p)
      BY <1>6, <3>1 DEF Fresh
    <3>3. PICK j \in 1 .. Len(r) : m = 1 + j /\ c[m] = r[j]
      BY <1>1, <2>2, <3>2
    <3>4. j < k
      BY <1>1, <3>1, <3>2, <3>3
    <3> QED BY <3>2, <3>3, <3>4
  <2> QED BY <2>1, <2>2
<1> QED BY <1>3, <1>4, <1>5, <1>6

(* An event after the others.                                              *)
LEMMA WithLast ==
    ASSUME NEW e \in Evt, NEW s \in Seq(Evt), NEW p
    PROVE  /\ Goes(s, p) \/ Removes(e, p) => Goes(s \o <<e>>, p)
           /\ Removes(e, p) \/ (Undone(s, p) /\ ~Wakes(e, p)) => Undone(s \o <<e>>, p)
           /\ Alternates(s, p) /\ (Undone(s, p) \/ ~Adds(e, p)) => Alternates(s \o <<e>>, p)
           /\ Fresh(s, p) /\ (Goes(s, p) \/ ~Adds(e, p)) => Fresh(s \o <<e>>, p)
<1> PICK c, n : c = s \o <<e>> /\ n = Len(s) + 1
  OBVIOUS
<1>1. /\ Len(s) \in Nat /\ n \in 1 .. Len(c) /\ c[n] = e
      /\ \A i \in 1 .. Len(s) : i \in 1 .. Len(c) /\ c[i] = s[i] /\ i < n
      /\ \A i \in 1 .. Len(c) : i = n \/ (i \in 1 .. Len(s) /\ c[i] = s[i] /\ i < n)
  <2>1. <<e>> \in Seq(Evt) /\ Len(<<e>>) = 1 /\ <<e>>[1] = e
    BY Few
  <2>2. /\ Len(s) \in Nat
        /\ \A i \in 1 .. Len(s) : i \in 1 .. Len(c) /\ c[i] = s[i]
        /\ \A j \in 1 .. 1 : Len(s) + j \in 1 .. Len(c) /\ c[Len(s) + j] = <<e>>[j]
        /\ \A i \in 1 .. Len(c) : \/ i \in 1 .. Len(s) /\ c[i] = s[i]
                                  \/ \E j \in 1 .. 1 : i = Len(s) + j /\ c[i] = <<e>>[j]
    BY <2>1, ConcatElements
  <2> QED BY <2>1, <2>2
<1>2. ASSUME Goes(s, p) \/ Removes(e, p) PROVE Goes(c, p)
  BY <1>1, <1>2 DEF Goes
<1>3. ASSUME Removes(e, p) PROVE Undone(c, p)
  <2>1. ~Wakes(e, p)
    BY <1>3 DEF Removes, Wakes
  <2> QED BY <1>1, <1>3, <2>1 DEF Undone
<1>4. ASSUME Undone(s, p), ~Wakes(e, p) PROVE Undone(c, p)
  BY <1>1, <1>4 DEF Undone
<1>5. ASSUME Alternates(s, p), Undone(s, p) \/ ~Adds(e, p) PROVE Alternates(c, p)
  <2> SUFFICES ASSUME NEW i \in 1 .. Len(c), NEW k \in 1 .. Len(c), i < k,
                      Adds(c[i], p), Adds(c[k], p)
               PROVE  \E j \in 1 .. Len(c) : i < j /\ j < k /\ Removes(c[j], p)
    BY DEF Alternates
  <2>1. i \in 1 .. Len(s) /\ c[i] = s[i]
    BY <1>1
  <2>2. CASE k = n
    <3>1. Wakes(s[i], p)
      BY <2>1 DEF Adds, Wakes
    <3>2. Undone(s, p)
      BY <1>1, <1>5, <2>2
    <3>3. PICK j \in 1 .. Len(s) : i < j /\ Removes(s[j], p)
      BY <2>1, <3>1, <3>2 DEF Undone
    <3> QED BY <1>1, <2>2, <3>3
  <2>3. CASE k \in 1 .. Len(s) /\ c[k] = s[k]
    <3>1. PICK j \in 1 .. Len(s) : i < j /\ j < k /\ Removes(s[j], p)
      BY <1>5, <2>1, <2>3 DEF Alternates
    <3> QED BY <1>1, <3>1
  <2> QED BY <1>1, <2>2, <2>3
<1>6. ASSUME Fresh(s, p), Goes(s, p) \/ ~Adds(e, p) PROVE Fresh(c, p)
  <2> SUFFICES ASSUME NEW k \in 1 .. Len(c), Adds(c[k], p)
               PROVE  \E j \in 1 .. Len(c) : j < k /\ Removes(c[j], p)
    BY DEF Fresh
  <2>1. CASE k = n
    <3>1. PICK j \in 1 .. Len(s) : Removes(s[j], p)
      BY <1>1, <1>6, <2>1 DEF Goes
    <3> QED BY <1>1, <2>1, <3>1
  <2>2. CASE k \in 1 .. Len(s) /\ c[k] = s[k]
    <3>1. PICK j \in 1 .. Len(s) : j < k /\ Removes(s[j], p)
      BY <1>6, <2>2 DEF Fresh
    <3> QED BY <1>1, <3>1
  <2> QED BY <1>1, <2>1, <2>2
<1> QED BY <1>2, <1>3, <1>4, <1>5, <1>6

(* Events about other things change nothing of it.                         *)
LEMMA WithSilent ==
    ASSUME NEW s \in Seq(Evt), NEW b \in Seq(Evt), NEW p, Silent(b, p)
    PROVE  /\ Goes(s, p) => Goes(s \o b, p)
           /\ Undone(s, p) => Undone(s \o b, p)
           /\ Alternates(s, p) => Alternates(s \o b, p)
           /\ Fresh(s, p) => Fresh(s \o b, p)
<1> PICK c : c = s \o b
  OBVIOUS
<1>1. /\ \A i \in 1 .. Len(s) : i \in 1 .. Len(c) /\ c[i] = s[i]
      /\ \A i \in 1 .. Len(c) : \/ i \in 1 .. Len(s) /\ c[i] = s[i]
                                \/ ~Removes(c[i], p) /\ ~Wakes(c[i], p)
  <2>1. /\ \A i \in 1 .. Len(s) : i \in 1 .. Len(c) /\ c[i] = s[i]
        /\ \A i \in 1 .. Len(c) : \/ i \in 1 .. Len(s) /\ c[i] = s[i]
                                  \/ \E j \in 1 .. Len(b) : i = Len(s) + j /\ c[i] = b[j]
    BY ConcatElements
  <2> QED BY <2>1 DEF Silent
<1>2. \A i \in 1 .. Len(c) : Adds(c[i], p) => Wakes(c[i], p)
  BY DEF Adds, Wakes
<1>3. Goes(s, p) => Goes(c, p)
  BY <1>1 DEF Goes
<1>4. ASSUME Undone(s, p) PROVE Undone(c, p)
  BY <1>1, <1>4 DEF Undone
<1>5. ASSUME Alternates(s, p) PROVE Alternates(c, p)
  BY <1>1, <1>2, <1>5 DEF Alternates
<1>6. ASSUME Fresh(s, p) PROVE Fresh(c, p)
  BY <1>1, <1>2, <1>6 DEF Fresh
<1> QED BY <1>3, <1>4, <1>5, <1>6

-----------------------------------------------------------------------------
(* Handles.                                                                *)

(* A table entry for each handle of a slot and no other, no handle for two *)
(* slots, and a slot that has one was given a generation.                  *)
Handles ==
    /\ \A h \in Handle : htype[h] = "pad" <=> \E p \in Pad : devh[p] = h
    /\ \A p, q \in Pad : devh[p] = devh[q] /\ devh[p] # 0 => p = q
    /\ \A p \in Pad : devh[p] # 0 => gen[p] # 0

(* A new handle belongs to one slot and one entry of the table.            *)
LEMMA HandlesGiven ==
    ASSUME Types, Handles, NEW p \in Pad, HandleForPad(p)
    PROVE  Handles'
<1>1. DeviceTypes
  BY DEF Types, TypeOK, DeviceTypes
<1>2. CASE UNCHANGED deviceVars
  BY <1>2 DEF Handles, deviceVars
<1>3. ASSUME devh[p] = 0, NEW h \in Handle, htype[h] = "free",
             htype' = [htype EXCEPT ![h] = "pad"],
             devh' = [devh EXCEPT ![p] = h], gen' = [gen EXCEPT ![p] = @ + 1]
      PROVE  Handles'
  <2>1. h # 0 /\ \A q \in Pad : devh[q] # h
    BY <1>3, HandleAssumption DEF Handles, Handle
  <2>2. /\ devh'[p] = h /\ \A q \in Pad \ {p} : devh'[q] = devh[q]
        /\ htype'[h] = "pad" /\ \A k \in Handle \ {h} : htype'[k] = htype[k]
        /\ gen'[p] # 0 /\ \A q \in Pad \ {p} : gen'[q] = gen[q]
    BY <1>1, <1>3 DEF DeviceTypes
  <2>3. \A q \in Pad : devh[q] \in Handle => q # p
    BY <1>3, HandleAssumption DEF Handle
  <2>4. ASSUME NEW k \in Handle PROVE htype'[k] = "pad" <=> \E q \in Pad : devh'[q] = k
    <3>1. CASE k = h
      BY <2>2, <3>1
    <3>2. CASE k # h
      <4>1. htype'[k] = "pad" <=> \E q \in Pad : devh[q] = k
        BY <2>2, <3>2 DEF Handles
      <4>2. (\E q \in Pad : devh[q] = k) <=> (\E q \in Pad : devh'[q] = k)
        BY <2>2, <2>3, <3>2
      <4> QED BY <4>1, <4>2
    <3> QED BY <3>1, <3>2
  <2>5. \A q, r \in Pad : devh'[q] = devh'[r] /\ devh'[q] # 0 => q = r
    BY <2>1, <2>2 DEF Handles
  <2>6. \A q \in Pad : devh'[q] # 0 => gen'[q] # 0
    BY <2>2 DEF Handles
  <2> QED BY <2>4, <2>5, <2>6 DEF Handles
<1> QED BY <1>2, <1>3, HandleForPadEffect

(* With the handle its entry is freed.                                     *)
LEMMA HandlesTaken ==
    ASSUME Types, Handles, NEW p \in Pad, FreePad(p)
    PROVE  Handles'
<1>1. DeviceTypes
  BY DEF Types, TypeOK, DeviceTypes
<1>2. CASE UNCHANGED deviceVars
  BY <1>2 DEF Handles, deviceVars
<1>3. CASE /\ devh[p] # 0
           /\ htype' = [htype EXCEPT ![devh[p]] = "free"]
           /\ devh' = [devh EXCEPT ![p] = 0] /\ gen' = gen
  <2>1. PICK h \in Handle : devh[p] = h /\ h # 0 /\ \A q \in Pad : devh[q] = h => q = p
    BY <1>1, <1>3 DEF DeviceTypes, Handles
  <2>2. /\ devh'[p] = 0 /\ \A q \in Pad \ {p} : devh'[q] = devh[q]
        /\ htype'[h] = "free" /\ \A k \in Handle \ {h} : htype'[k] = htype[k]
    BY <1>1, <1>3, <2>1 DEF DeviceTypes
  <2>3. 0 \notin Handle
    BY HandleAssumption DEF Handle
  <2>4. ASSUME NEW k \in Handle PROVE htype'[k] = "pad" <=> \E q \in Pad : devh'[q] = k
    <3>1. CASE k = h
      BY <2>1, <2>2, <2>3, <3>1
    <3>2. CASE k # h
      <4>1. htype'[k] = "pad" <=> \E q \in Pad : devh[q] = k
        BY <2>2, <3>2 DEF Handles
      <4>2. (\E q \in Pad : devh[q] = k) <=> (\E q \in Pad : devh'[q] = k)
        BY <2>1, <2>2, <2>3, <3>2
      <4> QED BY <4>1, <4>2
    <3> QED BY <3>1, <3>2
  <2>5. \A q, r \in Pad : devh'[q] = devh'[r] /\ devh'[q] # 0 => q = r
    BY <2>2 DEF Handles
  <2>6. \A q \in Pad : devh'[q] # 0 => gen'[q] # 0
    BY <1>3, <2>2 DEF Handles
  <2> QED BY <2>4, <2>5, <2>6 DEF Handles
<1> QED BY <1>2, <1>3 DEF FreePad, HandleFree

(* What a translation does to the slot of one controller.                  *)
LEMMA DevicesAbout ==
    ASSUME Types, NEW e \in Evt, Devices(e), NEW p \in Pad
    PROVE  /\ ~Removes(e, p) /\ ~Wakes(e, p) => devh'[p] = devh[p] /\ gen'[p] = gen[p]
           /\ Wakes(e, p) => \/ devh'[p] = devh[p] /\ gen'[p] = gen[p]
                             \/ devh[p] = 0 /\ gen'[p] = gen[p] + 1
           /\ Removes(e, p) => devh'[p] = 0 /\ gen'[p] = gen[p]
<1>1. devh \in [Pad -> Handle \cup {0}] /\ gen \in [Pad -> Nat]
  BY DEF Types, TypeOK
<1>2. CASE e.kind \in {"added", "padInput"}
  <2>1. e.arg \in Pad /\ HandleForPad(e.arg)
    BY <1>2 DEF Devices, Evt, Suits
  <2>2. \/ UNCHANGED deviceVars
        \/ /\ devh[e.arg] = 0 /\ gen' = [gen EXCEPT ![e.arg] = @ + 1]
           /\ \E h \in Handle : devh' = [devh EXCEPT ![e.arg] = h]
    BY <2>1, HandleForPadEffect
  <2>3. ~Removes(e, p) /\ (Wakes(e, p) <=> e.arg = p)
    BY <1>2 DEF Removes, Wakes
  <2>4. CASE UNCHANGED deviceVars
    BY <2>3, <2>4 DEF deviceVars
  <2>5. CASE ~UNCHANGED deviceVars
    BY <1>1, <2>1, <2>2, <2>3, <2>5
  <2> QED BY <2>4, <2>5
<1>3. CASE e.kind = "removed"
  <2>1. e.arg \in Pad /\ FreePad(e.arg)
    BY <1>3 DEF Devices, Evt, Suits
  <2>2. /\ gen' = gen
        /\ \/ devh[e.arg] = 0 /\ devh' = devh
           \/ devh' = [devh EXCEPT ![e.arg] = 0]
    BY <2>1 DEF FreePad, deviceVars
  <2>3. ~Wakes(e, p) /\ (Removes(e, p) <=> e.arg = p)
    BY <1>3 DEF Removes, Wakes
  <2> QED BY <1>1, <2>1, <2>2, <2>3
<1>4. CASE e.kind \notin {"added", "padInput", "removed"}
  <2>1. UNCHANGED deviceVars
    BY <1>4 DEF Devices
  <2> QED BY <1>4, <2>1 DEF deviceVars, Removes, Wakes
<1> QED BY <1>2, <1>3, <1>4

(* Handles, slots and generations agree after every step.                  *)
LEMMA HandlesNext == Types /\ Handles /\ [Next]_vars => Handles'
<1> SUFFICES ASSUME Types, Handles, [Next]_vars PROVE Handles'
  OBVIOUS
<1>1. CASE UNCHANGED deviceVars
  BY <1>1 DEF Handles, deviceVars
<1>2. CASE Translate
  <2>1. PICK e \in Evt : Devices(e)
    BY <1>2, TranslateEffect
  <2>2. CASE e.kind \in {"added", "padInput"}
    <3>1. e.arg \in Pad /\ HandleForPad(e.arg)
      BY <2>1, <2>2 DEF Devices, Evt, Suits
    <3> QED BY <3>1, HandlesGiven
  <2>3. CASE e.kind = "removed"
    <3>1. e.arg \in Pad /\ FreePad(e.arg)
      BY <2>1, <2>3 DEF Devices, Evt, Suits
    <3> QED BY <3>1, HandlesTaken
  <2>4. CASE e.kind \notin {"added", "padInput", "removed"}
    BY <1>1, <2>1, <2>4 DEF Devices
  <2> QED BY <2>2, <2>3, <2>4
<1>3. CASE RequestPad
  <2>1. PICK p \in input.pads : HandleForPad(p)
    BY <1>3 DEF RequestPad
  <2>2. p \in Pad
    BY DEF Types, TypeOK, PlatformTypeOK
  <2> QED BY <2>1, <2>2, HandlesGiven
<1>4. CASE ~Translate /\ ~RequestPad
  <2>1. UNCHANGED deviceVars
    BY <1>4, Steps DEF PollPads, TakeMessage, ResizeCall, TakeBatch, PollReturns, FrameBegins,
       Poll, MainReturns, LoopTest, FrameReturns, Exit, vars
  <2> QED BY <1>1, <2>1
<1> QED BY <1>2, <1>3, <1>4

-----------------------------------------------------------------------------
(* What the guest was told of the generations of a controller.             *)

Heard(s, p) == [i \in 1 .. Len(s) |->
                  IF s[i].kind = "added" /\ s[i].arg = p THEN s[i].gen ELSE 0]

(* Heard is a sequence of numbers as long as the events.                   *)
LEMMA HeardIs ==
    ASSUME NEW s \in Seq(Evt), NEW p
    PROVE  /\ Heard(s, p) \in Seq(Nat) /\ Len(Heard(s, p)) = Len(s)
           /\ \A i \in 1 .. Len(s) :
                Heard(s, p)[i] = IF Adds(s[i], p) THEN s[i].gen ELSE 0
<1>1. Len(s) \in Nat
  OBVIOUS
<1>2. \A i \in 1 .. Len(s) : s[i].gen \in Nat
  BY ElementOfSeq DEF Evt, EventRecord
<1>3. \A i \in 1 .. Len(s) : Heard(s, p)[i] = IF Adds(s[i], p) THEN s[i].gen ELSE 0
  BY DEF Heard, Adds
<1>4. Heard(s, p) \in [1 .. Len(s) -> Nat]
  BY <1>2 DEF Heard
<1>5. Heard(s, p) \in Seq(Nat)
  BY <1>1, <1>4
<1>6. DOMAIN Heard(s, p) = 1 .. Len(s)
  BY DEF Heard
<1> QED BY <1>1, <1>3, <1>5, <1>6, LenProperties

(* What is heard of two sequences, one after the other.                    *)
LEMMA HeardConcat ==
    ASSUME NEW a \in Seq(Evt), NEW b \in Seq(Evt), NEW p
    PROVE  Heard(a \o b, p) = Heard(a, p) \o Heard(b, p)
<1> PICK c, d : c = Heard(a \o b, p) /\ d = Heard(a, p) \o Heard(b, p)
  OBVIOUS
<1>1. /\ a \o b \in Seq(Evt) /\ Len(a \o b) = Len(a) + Len(b)
      /\ \A i \in 1 .. Len(a) : (a \o b)[i] = a[i]
      /\ \A j \in 1 .. Len(b) : (a \o b)[Len(a) + j] = b[j]
      /\ \A i \in 1 .. Len(a \o b) : i \in 1 .. Len(a) \/ \E j \in 1 .. Len(b) : i = Len(a) + j
  BY ConcatElements
<1>2. /\ c \in Seq(Nat) /\ Len(c) = Len(a \o b)
      /\ \A i \in 1 .. Len(a \o b) :
           c[i] = IF Adds((a \o b)[i], p) THEN (a \o b)[i].gen ELSE 0
  BY <1>1, HeardIs
<1>3. /\ Heard(a, p) \in Seq(Nat) /\ Len(Heard(a, p)) = Len(a)
      /\ Heard(b, p) \in Seq(Nat) /\ Len(Heard(b, p)) = Len(b)
      /\ \A i \in 1 .. Len(a) : Heard(a, p)[i] = IF Adds(a[i], p) THEN a[i].gen ELSE 0
      /\ \A i \in 1 .. Len(b) : Heard(b, p)[i] = IF Adds(b[i], p) THEN b[i].gen ELSE 0
  BY HeardIs
<1>4. /\ d \in Seq(Nat) /\ Len(d) = Len(a) + Len(b)
      /\ \A i \in 1 .. Len(a) : d[i] = Heard(a, p)[i]
      /\ \A j \in 1 .. Len(b) : d[Len(a) + j] = Heard(b, p)[j]
  <2>1. PICK x \in Seq(Nat), y \in Seq(Nat) :
          x = Heard(a, p) /\ y = Heard(b, p) /\ Len(x) = Len(a) /\ Len(y) = Len(b)
    BY <1>3
  <2>2. /\ x \o y \in Seq(Nat) /\ Len(x \o y) = Len(x) + Len(y)
        /\ \A i \in 1 .. Len(x) : (x \o y)[i] = x[i]
        /\ \A j \in 1 .. Len(y) : (x \o y)[Len(x) + j] = y[j]
    BY ConcatElements
  <2>3. d = x \o y
    BY <2>1
  <2> QED BY <2>1, <2>2, <2>3
<1>5. ASSUME NEW i \in 1 .. Len(a) PROVE c[i] = d[i]
  <2>1. i \in 1 .. Len(a \o b)
    BY <1>1
  <2> QED BY <1>1, <1>2, <1>3, <1>4, <2>1
<1>6. ASSUME NEW j \in 1 .. Len(b) PROVE c[Len(a) + j] = d[Len(a) + j]
  <2>1. PICK i \in 1 .. Len(a \o b) : i = Len(a) + j
    <3>1. Len(a) + j \in 1 .. Len(a \o b)
      BY <1>1
    <3> QED BY <3>1
  <2>2. (a \o b)[i] = b[j]
    BY <1>1, <2>1
  <2>3. c[i] = IF Adds(b[j], p) THEN b[j].gen ELSE 0
    BY <1>2, <2>2
  <2> QED BY <1>3, <1>4, <2>1, <2>3
<1>7. ASSUME NEW i \in 1 .. Len(c) PROVE c[i] = d[i]
  <2>1. i \in 1 .. Len(a) \/ \E j \in 1 .. Len(b) : i = Len(a) + j
    BY <1>1, <1>2
  <2> QED BY <1>5, <1>6, <2>1
<1>8. Len(c) = Len(d)
  BY <1>1, <1>2, <1>4
<1> QED BY <1>2, <1>4, <1>7, <1>8, SeqEqual

(* Told in terms of Heard.                                                 *)
LEMMA ToldIs ==
    ASSUME Types, NEW p \in Pad
    PROVE  /\ Told(p) = view.gens[p] \o Heard(queue, p)
           /\ view.gens[p] \in Seq(Nat) /\ Heard(queue, p) \in Seq(Nat) /\ Told(p) \in Seq(Nat)
<1>1. view.gens[p] \in Seq(Nat)
  BY DEF Types, View
<1>2. Heard(queue, p) \in Seq(Nat)
  BY HeardIs DEF Types
<1>3. Told(p) = view.gens[p] \o Heard(queue, p)
  BY DEF Told, Heard
<1> QED BY <1>1, <1>2, <1>3, ConcatProperties

(* What a translation and a pop do to it.                                  *)
LEMMA ToldRendered ==
    ASSUME Types, NEW p \in Pad, NEW new \in Seq(Evt),
           queue' = queue \o new, view' = view
    PROVE  Told(p)' = Told(p) \o Heard(new, p) /\ Heard(new, p) \in Seq(Nat)
<1>1. /\ Told(p) = view.gens[p] \o Heard(queue, p)
      /\ view.gens[p] \in Seq(Nat) /\ Heard(queue, p) \in Seq(Nat) /\ queue \in Seq(Evt)
  BY ToldIs DEF Types
<1>2. Told(p)' = view.gens[p] \o Heard(queue \o new, p)
  BY DEF Told, Heard
<1>3. Heard(queue \o new, p) = Heard(queue, p) \o Heard(new, p) /\ Heard(new, p) \in Seq(Nat)
  BY <1>1, HeardConcat, HeardIs
<1>4. PICK G \in Seq(Nat), H \in Seq(Nat), N \in Seq(Nat) :
        G = view.gens[p] /\ H = Heard(queue, p) /\ N = Heard(new, p)
  BY <1>1, <1>3
<1>5. (G \o H) \o N = G \o (H \o N)
  <2>1. G \in Seq(Nat) /\ H \in Seq(Nat) /\ N \in Seq(Nat)
    BY <1>4
  <2> QED BY <2>1, ConcatAssociative
<1>6. Told(p) = G \o H /\ Told(p)' = G \o (H \o N) /\ Heard(new, p) = N
  BY <1>1, <1>2, <1>3, <1>4
<1> QED BY <1>4, <1>5, <1>6

(* A pop moves a generation from the queue to the guest, or drops a zero.  *)
LEMMA ToldPopped ==
    ASSUME Types, NEW p \in Pad, NEW e \in Evt, NEW rest \in Seq(Evt),
           queue = <<e>> \o rest, queue' = rest, view' = Seen(view, e)
    PROVE  /\ Distinct(Told(p)) => Distinct(Told(p)')
           /\ \A m : AtMost(Told(p), m) => AtMost(Told(p)', m)
           /\ \A m : Has(Told(p)', m) => Has(Told(p), m)
<1>1. PICK G \in Seq(Nat), H \in Seq(Nat), x \in Nat :
        G = view.gens[p] /\ H = Heard(rest, p) /\ x = IF Adds(e, p) THEN e.gen ELSE 0
  <2>1. e.gen \in Nat
    BY DEF Evt, EventRecord
  <2>2. view.gens[p] \in Seq(Nat) /\ Heard(rest, p) \in Seq(Nat)
    BY ToldIs, HeardIs
  <2> QED BY <2>1, <2>2
<1>2. <<x>> \in Seq(Nat) /\ <<e>> \in Seq(Evt) /\ Len(<<e>>) = 1 /\ <<e>>[1] = e
      /\ Len(<<x>>) = 1 /\ <<x>>[1] = x
  BY Few
<1>3. Heard(<<e>>, p) = <<x>>
  <2>1. PICK h \in Seq(Nat) : h = Heard(<<e>>, p) /\ Len(h) = 1 /\ h[1] = x
    <3>3. PICK s \in Seq(Evt) : s = <<e>> /\ Len(s) = 1 /\ s[1] = e
      BY <1>2
    <3>1. s \in Seq(Evt) /\ s = <<e>> /\ Len(s) = 1 /\ s[1] = e /\ 1 \in 1 .. Len(s)
      BY <3>3
    <3>2. Heard(s, p) \in Seq(Nat) /\ Len(Heard(s, p)) = 1 /\ Heard(s, p)[1] = x
      BY <1>1, <3>1, HeardIs
    <3> QED BY <3>1, <3>2
  <2> QED BY <2>1
<1>4. Told(p) = G \o (<<x>> \o H)
  <2>1. Told(p) = view.gens[p] \o Heard(queue, p)
    BY ToldIs
  <2>2. Heard(<<e>> \o rest, p) = Heard(<<e>>, p) \o Heard(rest, p)
    BY <1>2, HeardConcat
  <2> QED BY <1>1, <1>3, <2>1, <2>2
<1>5. Told(p)' = view'.gens[p] \o H
  BY <1>1 DEF Told, Heard
<1>6. view'.gens = IF e.kind = "added" THEN [view.gens EXCEPT ![e.arg] = Append(@, e.gen)]
                                       ELSE view.gens
  BY SeenIs DEF Types
<1>7. view.gens \in [Pad -> Seq(Nat)]
  BY DEF Types, View
<1>8. CASE Adds(e, p)
  <2>1. view'.gens[p] = Append(G, x)
    BY <1>1, <1>6, <1>7, <1>8 DEF Adds
  <2>2. Append(G, x) = G \o <<x>>
    BY <1>1, AppendIsConcat
  <2>3. (G \o <<x>>) \o H = G \o (<<x>> \o H)
    <3>1. G \in Seq(Nat) /\ H \in Seq(Nat) /\ <<x>> \in Seq(Nat)
      BY <1>1, <1>2
    <3> QED BY <3>1, ConcatAssociative
  <2>4. Told(p)' = Told(p)
    BY <1>4, <1>5, <2>1, <2>2, <2>3
  <2> QED BY <2>4
<1>9. CASE ~Adds(e, p)
  <2>1. view'.gens[p] = G
    BY <1>1, <1>6, <1>7, <1>9 DEF Adds
  <2>2. Told(p)' = G \o H
    BY <1>5, <2>1
  <2>3. PICK y \in Seq(Nat) : y = <<x>> \o H
    BY <1>1, <1>2, ConcatProperties
  <2>4. NoneOf(G, y) => NoneOf(G, H)
    <3>1. \A j \in 1 .. Len(H) : 1 + j \in 1 .. Len(y) /\ y[1 + j] = H[j]
      BY <1>2, <2>3, ConcatElements
    <3> QED BY <3>1 DEF NoneOf
  <2>5. /\ Distinct(G \o y) <=> Distinct(G) /\ Distinct(y) /\ NoneOf(G, y)
        /\ \A m : Has(G \o y, m) <=> Has(G, m) \/ Has(y, m)
        /\ \A m : AtMost(G \o y, m) <=> AtMost(G, m) /\ AtMost(y, m)
        /\ Distinct(G \o H) <=> Distinct(G) /\ Distinct(H) /\ NoneOf(G, H)
        /\ \A m : Has(G \o H, m) <=> Has(G, m) \/ Has(H, m)
        /\ \A m : AtMost(G \o H, m) <=> AtMost(G, m) /\ AtMost(H, m)
    BY NumbersConcat
  <2>6. /\ Distinct(y) => Distinct(H)
        /\ \A m : Has(H, m) => Has(y, m)
        /\ \A m : AtMost(y, m) => AtMost(H, m)
    BY <1>1, <1>2, <2>3, NumbersConcat
  <2>7. Told(p) = G \o y
    BY <1>4, <2>3
  <2> QED BY <2>2, <2>4, <2>5, <2>6, <2>7
<1> QED BY <1>8, <1>9

-----------------------------------------------------------------------------
(* Controllers.                                                            *)

(* The controller p, as long as nothing about controllers was dropped.  If *)
(* it is unplugged, whatever it has or will get is going to be taken back; *)
(* its pluggings and unpluggings alternate; and the handle it has was      *)
(* announced only if it is taken back before the next announcement.        *)
Kept(p) ==
    /\ p \notin input.pads => Undone(Pending, p) /\ (devh[p] # 0 => Goes(Pending, p))
    /\ Alternates(Pending, p)
    /\ devh[p] # 0 /\ Has(Told(p), gen[p]) => Fresh(Pending, p)
    /\ Distinct(Told(p))

PadsInv ==
    /\ Handles
    /\ \A p \in Pad : AtMost(Told(p), gen[p])
    /\ "pads" \in lost \/ \A p \in Pad : Kept(p)

(* The number of a new event is not what makes it about a controller.      *)
LEMMA FewPushed ==
    ASSUME NEW a \in Evt, NEW new \in Seq(Evt)
    PROVE  /\ Pushed(<<>>, new) => new = <<>>
           /\ Pushed(<<a>>, new) =>
                \/ new = <<>> /\ About(a.kind) \subseteq lost'
                \/ \E x \in Evt : new = <<x>> /\ x.kind = a.kind /\ x.arg = a.arg
           /\ \A b \in Evt : Pushed(<<a, b>>, new) =>
                \/ new = <<>> /\ About(a.kind) \subseteq lost' /\ About(b.kind) \subseteq lost'
                \/ /\ About(b.kind) \subseteq lost'
                   /\ \E x \in Evt : new = <<x>> /\ x.kind = a.kind /\ x.arg = a.arg
                \/ \E x \in Evt, y \in Evt :
                     /\ new = <<x, y>> /\ x.kind = a.kind /\ x.arg = a.arg
                     /\ y.kind = b.kind /\ y.arg = b.arg
<1>1. Len(new) \in Nat /\ \A i \in 1 .. Len(new) : new[i] \in Evt
  BY ElementOfSeq
<1>2. /\ Len(<<>>) = 0 /\ Len(<<a>>) = 1 /\ <<a>>[1] = a
      /\ \A b \in Evt : Len(<<a, b>>) = 2 /\ <<a, b>>[1] = a /\ <<a, b>>[2] = b
  BY Few
<1>3. /\ Len(new) = 0 => new = <<>>
      /\ Len(new) = 1 => new = <<new[1]>>
      /\ Len(new) = 2 => new = <<new[1], new[2]>>
  BY <1>1
<1>4. ASSUME NEW evs, NEW i \in 1 .. Len(new), Pushed(evs, new), evs[i] \in Evt
      PROVE  new[i].kind = evs[i].kind /\ new[i].arg = evs[i].arg
  <2>1. new[i] = [evs[i] EXCEPT !.n = made + i] /\ evs[i] \in EventRecord
    BY <1>4 DEF Pushed, Evt
  <2> QED BY <2>1 DEF EventRecord
<1>5. ASSUME NEW evs, Pushed(evs, new)
      PROVE  /\ Len(new) <= Len(evs)
             /\ \A i \in 1 .. Len(evs) : i <= Len(new) \/ About(evs[i].kind) \subseteq lost'
  BY <1>5 DEF Pushed
<1>6. Pushed(<<>>, new) => new = <<>>
  BY <1>1, <1>2, <1>3, <1>5
<1>7. ASSUME Pushed(<<a>>, new)
      PROVE  \/ new = <<>> /\ About(a.kind) \subseteq lost'
             \/ \E x \in Evt : new = <<x>> /\ x.kind = a.kind /\ x.arg = a.arg
  <2>1. CASE Len(new) = 0
    <3>1. 1 \in 1 .. Len(<<a>>) /\ ~(1 <= Len(new))
      BY <1>2, <2>1
    <3> QED BY <1>2, <1>3, <1>5, <1>7, <2>1, <3>1
  <2>2. CASE Len(new) = 1
    <3>1. new[1].kind = a.kind /\ new[1].arg = a.arg /\ new[1] \in Evt
      BY <1>1, <1>2, <1>4, <1>7, <2>2
    <3> QED BY <1>3, <2>2, <3>1
  <2>3. Len(new) \in {0, 1}
    BY <1>1, <1>2, <1>5, <1>7
  <2> QED BY <2>1, <2>2, <2>3
<1>8. ASSUME NEW b \in Evt, Pushed(<<a, b>>, new)
      PROVE  \/ new = <<>> /\ About(a.kind) \subseteq lost' /\ About(b.kind) \subseteq lost'
             \/ /\ About(b.kind) \subseteq lost'
                /\ \E x \in Evt : new = <<x>> /\ x.kind = a.kind /\ x.arg = a.arg
             \/ \E x \in Evt, y \in Evt :
                  /\ new = <<x, y>> /\ x.kind = a.kind /\ x.arg = a.arg
                  /\ y.kind = b.kind /\ y.arg = b.arg
  <2>1. Len(new) < 2 => About(b.kind) \subseteq lost'
    <3>1. 2 \in 1 .. Len(<<a, b>>) /\ (Len(new) < 2 => ~(2 <= Len(new)))
      BY <1>1, <1>2
    <3>2. 2 <= Len(new) \/ About(<<a, b>>[2].kind) \subseteq lost'
      BY <1>5, <1>8, <3>1
    <3> QED BY <1>2, <3>1, <3>2
  <2>2. Len(new) = 0 => About(a.kind) \subseteq lost'
    <3>1. 1 \in 1 .. Len(<<a, b>>) /\ (Len(new) = 0 => ~(1 <= Len(new)))
      BY <1>2
    <3>2. 1 <= Len(new) \/ About(<<a, b>>[1].kind) \subseteq lost'
      BY <1>5, <1>8, <3>1
    <3> QED BY <1>2, <3>1, <3>2
  <2>3. Len(new) >= 1 => new[1].kind = a.kind /\ new[1].arg = a.arg /\ new[1] \in Evt
    <3>1. Len(new) >= 1 => 1 \in 1 .. Len(new)
      BY <1>1
    <3> QED BY <1>1, <1>2, <1>4, <1>8, <3>1
  <2>4. Len(new) = 2 => new[2].kind = b.kind /\ new[2].arg = b.arg /\ new[2] \in Evt
    <3>1. Len(new) = 2 => 2 \in 1 .. Len(new)
      BY <1>1
    <3> QED BY <1>1, <1>2, <1>4, <1>8, <3>1
  <2>5. Len(new) \in {0, 1, 2}
    <3>1. Len(new) <= Len(<<a, b>>)
      BY <1>5, <1>8
    <3>2. PICK n \in Nat : n = Len(new) /\ n <= 2
      BY <1>1, <1>2, <3>1
    <3>3. n \in {0, 1, 2}
      BY <3>2
    <3> QED BY <3>2, <3>3
  <2>6. CASE Len(new) = 0
    BY <1>3, <2>1, <2>2, <2>6
  <2>7. CASE Len(new) = 1
    BY <1>3, <2>1, <2>3, <2>7
  <2>8. CASE Len(new) = 2
    BY <1>3, <2>3, <2>4, <2>8
  <2> QED BY <2>5, <2>6, <2>7, <2>8
<1> QED BY <1>6, <1>7, <1>8

(* An event of another controller, or about none, says nothing about p.    *)
LEMMA PollSilent ==
    ASSUME NEW p, NEW x, x.arg # p \/ x.kind \notin PadKind
    PROVE  ~Removes(x, p) /\ ~Wakes(x, p) /\ ~Adds(x, p)
BY DEF Removes, Wakes, Adds, PadKind

(* What is to be shown of a step that leaves the slots as they are.        *)
LEMMA KeptNext ==
    ASSUME NEW p \in Pad, Kept(p), UNCHANGED <<deviceVars, queue, view>>,
           p \notin input'.pads => Undone(Pending, p)' /\ (devh[p] # 0 => Goes(Pending, p)'),
           Alternates(Pending, p)',
           devh[p] # 0 /\ Fresh(Pending, p) => Fresh(Pending, p)'
    PROVE  Kept(p)'
<1>1. Told(p)' = Told(p)
  BY DEF Told
<1>2. devh' = devh /\ gen' = gen
  BY DEF deviceVars
<1> QED BY <1>1, <1>2 DEF Kept

(* A controller is polled.                                                 *)
LEMMA KeptPolled ==
    ASSUME Types, Types', PollPads, NEW p \in Pad, "pads" \notin lost', Kept(p)
    PROVE  Kept(p)'
<1>1. pad \in Pad /\ PollPad(pad) /\ UNCHANGED <<deviceVars, batch, queue, view>>
  BY DEF PollPads, Types, TypeOK
<1>2. CASE UNCHANGED platformVars
  <2>1. Pending' = Pending /\ input' = input
    BY <1>1, <1>2 DEF platformVars, Pending
  <2>2. /\ p \notin input'.pads => Undone(Pending, p)' /\ (devh[p] # 0 => Goes(Pending, p)')
        /\ Alternates(Pending, p)' /\ (Fresh(Pending, p) => Fresh(Pending, p)')
    BY <2>1 DEF Kept, Undone, Goes, Alternates, Fresh
  <2> QED BY <1>1, <2>2, KeptNext
<1>3. PICK r \in Evt, a \in Evt, c \in Evt :
        /\ r = Event("removed", pad) /\ r.kind = "removed" /\ r.arg = pad
        /\ a = Event("added", pad) /\ a.kind = "added" /\ a.arg = pad
        /\ c = Event("padInput", pad) /\ c.kind = "padInput" /\ c.arg = pad
  BY <1>1, EventKinds DEF PadKind
<1>4. /\ Pending \in Seq(Evt)
      /\ "pads" \in About("removed") /\ "pads" \in About("added")
      /\ input.pads \subseteq Pad /\ input \in Input
  BY WayTypes DEF About, Types, TypeOK, PlatformTypeOK, Input, Composition
<1>5. ASSUME NEW evs \in Seq(Evt), Emit(evs)
      PROVE  \E new \in Seq(Evt) : Pushed(evs, new) /\ Pending' = Pending \o new
  BY <1>1, <1>5, PushesStep
<1>6. ASSUME NEW x \in Evt, x.arg = pad, p # pad
      PROVE  ~Removes(x, p) /\ ~Wakes(x, p) /\ ~Adds(x, p)
  BY <1>6, PollSilent
<1>7. ASSUME NEW x \in Evt, x.arg = pad, Pending' = Pending \o <<x>>, p # pad,
             p \in input'.pads <=> p \in input.pads
      PROVE  Kept(p)'
  <2>1. ~Removes(x, p) /\ ~Wakes(x, p) /\ ~Adds(x, p)
    BY <1>6, <1>7
  <2>2. /\ Goes(Pending, p) => Goes(Pending', p)
        /\ Undone(Pending, p) => Undone(Pending', p)
        /\ Alternates(Pending, p) => Alternates(Pending', p)
        /\ Fresh(Pending, p) => Fresh(Pending', p)
    BY <1>4, <1>7, <2>1, WithLast
  <2> QED BY <1>1, <1>7, <2>2, KeptNext DEF Kept, Goes, Undone, Alternates, Fresh
<1>8. CASE /\ pad \in input.pads /\ input' = [input EXCEPT !.pads = @ \ {pad}] /\ Emit(<<r>>)
  <2>1. PICK new \in Seq(Evt) : Pushed(<<r>>, new) /\ Pending' = Pending \o new
    BY <1>5, <1>8, Few
  <2>2. PICK x \in Evt : new = <<x>> /\ x.kind = "removed" /\ x.arg = pad
    BY <1>3, <1>4, <2>1, FewPushed
  <2>3. input'.pads = input.pads \ {pad}
    BY <1>4, <1>8 DEF Input
  <2>4. CASE p = pad
    <3>1. Removes(x, p) /\ ~Adds(x, p)
      BY <2>2, <2>4 DEF Removes, Adds
    <3>2. /\ Goes(Pending', p) /\ Undone(Pending', p)
          /\ Alternates(Pending, p) => Alternates(Pending', p)
          /\ Fresh(Pending, p) => Fresh(Pending', p)
      BY <1>4, <2>1, <2>2, <3>1, WithLast
    <3> QED BY <1>1, <3>2, KeptNext DEF Kept, Goes, Undone, Alternates, Fresh
  <2>5. CASE p # pad
    BY <1>7, <2>1, <2>2, <2>3, <2>5
  <2> QED BY <2>4, <2>5
<1>9. ASSUME input' = [input EXCEPT !.pads = @ \cup {pad}]
      PROVE  pad \in input'.pads /\ (p # pad => (p \in input'.pads <=> p \in input.pads))
  BY <1>4, <1>9 DEF Input
<1>10. ASSUME input' = [input EXCEPT !.pads = @ \cup {pad}], Pending' = Pending
       PROVE  Kept(p)'
  <2>1. p \notin input'.pads => p \notin input.pads
    BY <1>9, <1>10
  <2> QED BY <1>1, <1>10, <2>1, KeptNext DEF Kept, Goes, Undone, Alternates, Fresh
<1>11. ASSUME NEW x \in Evt, x.kind = "padInput", x.arg = pad,
              input' = [input EXCEPT !.pads = @ \cup {pad}], Pending' = Pending \o <<x>>
       PROVE  Kept(p)'
  <2>1. CASE p = pad
    <3>1. ~Adds(x, p)
      BY <1>11 DEF Adds
    <3>2. /\ Alternates(Pending, p) => Alternates(Pending', p)
          /\ Fresh(Pending, p) => Fresh(Pending', p)
      BY <1>4, <1>11, <3>1, WithLast
    <3>3. p \in input'.pads
      BY <1>9, <1>11, <2>1
    <3> QED BY <1>1, <3>2, <3>3, KeptNext DEF Kept, Alternates, Fresh
  <2>2. CASE p # pad
    BY <1>7, <1>9, <1>11, <2>2
  <2> QED BY <2>1, <2>2
<1>12. ASSUME pad \notin input.pads, NEW x \in Evt, x.kind = "added", x.arg = pad, p = pad
       PROVE  /\ Alternates(Pending \o <<x>>, p)
              /\ devh[p] # 0 /\ Fresh(Pending, p) => Fresh(Pending \o <<x>>, p)
  BY <1>4, <1>12, WithLast DEF Kept
<1>13. ASSUME pad \notin input.pads, input' = [input EXCEPT !.pads = @ \cup {pad}],
              NEW x \in Evt, x.kind = "added", x.arg = pad, Pending' = Pending \o <<x>>
       PROVE  Kept(p)'
  <2>1. CASE p = pad
    <3>1. p \in input'.pads
      BY <1>9, <1>13, <2>1
    <3> QED BY <1>1, <1>12, <1>13, <2>1, <3>1, KeptNext DEF Alternates, Fresh
  <2>2. CASE p # pad
    BY <1>7, <1>9, <1>13, <2>2
  <2> QED BY <2>1, <2>2
<1>14. ASSUME pad \notin input.pads, input' = [input EXCEPT !.pads = @ \cup {pad}],
              NEW x \in Evt, x.kind = "added", x.arg = pad,
              NEW y \in Evt, y.kind = "padInput", y.arg = pad, Pending' = Pending \o <<x, y>>
       PROVE  Kept(p)'
  <2>1. PICK s \in Seq(Evt) : s = Pending \o <<x>>
    BY <1>4, Few, ConcatProperties
  <2>2. Pending' = s \o <<y>>
    <3>1. <<x>> \o <<y>> = <<x, y>> /\ <<x>> \in Seq(Evt) /\ <<y>> \in Seq(Evt)
      BY Few
    <3>2. (Pending \o <<x>>) \o <<y>> = Pending \o (<<x>> \o <<y>>)
      BY <1>4, <3>1, ConcatAssociative
    <3> QED BY <1>14, <2>1, <3>1, <3>2
  <2>3. CASE p = pad
    <3>1. ~Adds(y, p)
      BY <1>14 DEF Adds
    <3>2. Alternates(s, p) /\ (devh[p] # 0 /\ Fresh(Pending, p) => Fresh(s, p))
      BY <1>12, <1>14, <2>1, <2>3
    <3>3. /\ Alternates(s, p) => Alternates(Pending', p)
          /\ Fresh(s, p) => Fresh(Pending', p)
      BY <2>2, <3>1, WithLast
    <3>4. p \in input'.pads
      BY <1>9, <1>14, <2>3
    <3> QED BY <1>1, <3>2, <3>3, <3>4, KeptNext DEF Alternates, Fresh
  <2>4. CASE p # pad
    <3>1. ~Removes(x, p) /\ ~Wakes(x, p) /\ ~Adds(x, p) /\ ~Removes(y, p) /\ ~Wakes(y, p) /\ ~Adds(y, p)
      BY <1>6, <1>14, <2>4
    <3>2. /\ Goes(Pending, p) => Goes(s, p)
          /\ Undone(Pending, p) => Undone(s, p)
          /\ Alternates(Pending, p) => Alternates(s, p)
          /\ Fresh(Pending, p) => Fresh(s, p)
      BY <1>4, <2>1, <3>1, WithLast
    <3>3. /\ Goes(s, p) => Goes(Pending', p)
          /\ Undone(s, p) => Undone(Pending', p)
          /\ Alternates(s, p) => Alternates(Pending', p)
          /\ Fresh(s, p) => Fresh(Pending', p)
      BY <2>2, <3>1, WithLast
    <3>4. p \in input'.pads <=> p \in input.pads
      BY <1>9, <1>14, <2>4
    <3> QED BY <1>1, <3>2, <3>3, <3>4, KeptNext DEF Kept, Goes, Undone, Alternates, Fresh
  <2> QED BY <2>3, <2>4
<1>15. ASSUME NEW new \in Seq(Evt), Pending' = Pending \o new, new = <<>>
       PROVE  Pending' = Pending
  BY <1>4, <1>15, ConcatEmptySeq
<1>16. CASE /\ input' = [input EXCEPT !.pads = @ \cup {pad}]
            /\ Emit(<<>>) \/ Emit(<<c>>)
  <2>1. PICK new \in Seq(Evt) :
          (Pushed(<<>>, new) \/ Pushed(<<c>>, new)) /\ Pending' = Pending \o new
    BY <1>5, <1>16, Few
  <2>2. new = <<>> \/ \E x \in Evt : new = <<x>> /\ x.kind = "padInput" /\ x.arg = pad
    BY <1>3, <2>1, FewPushed
  <2> QED BY <1>10, <1>11, <1>15, <1>16, <2>1, <2>2
<1>17. CASE /\ pad \notin input.pads /\ input' = [input EXCEPT !.pads = @ \cup {pad}]
            /\ Emit(<<a>>) \/ Emit(<<a, c>>)
  <2>1. PICK new \in Seq(Evt) :
          (Pushed(<<a>>, new) \/ Pushed(<<a, c>>, new)) /\ Pending' = Pending \o new
    BY <1>5, <1>17, Few
  <2>2. \/ \E x \in Evt : new = <<x>> /\ x.kind = "added" /\ x.arg = pad
        \/ \E x \in Evt, y \in Evt :
             /\ new = <<x, y>> /\ x.kind = "added" /\ x.arg = pad
             /\ y.kind = "padInput" /\ y.arg = pad
    BY <1>3, <1>4, <2>1, FewPushed
  <2> QED BY <1>13, <1>14, <1>17, <2>1, <2>2
<1> QED BY <1>1, <1>2, <1>3, <1>8, <1>16, <1>17, PadEffect

(* Messages are about no controller.                                       *)
LEMMA KeptMessage ==
    ASSUME Types, Types', TakeMessage \/ ResizeCall, NEW p \in Pad, Kept(p)
    PROVE  Kept(p)'
<1>1. UNCHANGED <<deviceVars, batch, queue, view>> /\ \E evs \in Seq(Evt) : Emits(evs)
  BY MessageEffect, PlainEffect DEF TakeMessage, ResizeCall
<1>2. PICK evs \in Seq(Evt), new \in Seq(Evt) :
        Emits(evs) /\ Pushed(evs, new) /\ Pending' = Pending \o new
  BY <1>1, PushesStep DEF Emits
<1>3. Silent(new, p)
  <2> SUFFICES ASSUME NEW i \in 1 .. Len(new) PROVE ~Removes(new[i], p) /\ ~Wakes(new[i], p)
    BY DEF Silent
  <2>1. Len(new) \in Nat /\ Len(evs) \in Nat /\ Len(new) <= Len(evs)
    BY <1>2 DEF Pushed
  <2>2. i \in 1 .. Len(evs)
    BY <2>1
  <2>3. evs[i].kind \notin PadKind /\ evs[i] \in EventRecord
    BY <1>2, <2>2, ElementOfSeq DEF Emits, Evt
  <2>4. new[i] = [evs[i] EXCEPT !.n = made + i]
    BY <1>2 DEF Pushed
  <2>5. new[i].kind = evs[i].kind
    BY <2>3, <2>4 DEF EventRecord
  <2> QED BY <2>3, <2>5, PollSilent
<1>4. Pending \in Seq(Evt) /\ input'.pads = input.pads
  BY <1>2, WayTypes DEF Emits
<1>5. /\ Goes(Pending, p) => Goes(Pending', p)
      /\ Undone(Pending, p) => Undone(Pending', p)
      /\ Alternates(Pending, p) => Alternates(Pending', p)
      /\ Fresh(Pending, p) => Fresh(Pending', p)
  BY <1>2, <1>3, <1>4, WithSilent
<1> QED BY <1>1, <1>4, <1>5, KeptNext DEF Kept, Goes, Undone, Alternates, Fresh

(* The guest pops an event it was going to be told.                        *)
LEMMA KeptPopped ==
    ASSUME Types, Pops, NEW p \in Pad, Kept(p)
    PROVE  Kept(p)'
<1>1. /\ Pending' = Pending /\ UNCHANGED <<platformVars, deviceVars>>
      /\ Distinct(Told(p)) => Distinct(Told(p)')
      /\ \A m : Has(Told(p)', m) => Has(Told(p), m)
  <2>1. PICK e \in Evt, rest \in Seq(Evt) :
          /\ queue = <<e>> \o rest /\ queue' = rest /\ view' = Seen(view, e)
          /\ Pending' = Pending /\ UNCHANGED <<platformVars, deviceVars>>
    BY DEF Pops
  <2>2. /\ Distinct(Told(p)) => Distinct(Told(p)')
        /\ \A m : Has(Told(p)', m) => Has(Told(p), m)
    BY <2>1, ToldPopped
  <2> QED BY <2>1, <2>2
<1>2. input' = input /\ devh' = devh /\ gen' = gen
  BY <1>1 DEF platformVars, deviceVars
<1>3. /\ p \notin input'.pads => Undone(Pending, p)' /\ (devh'[p] # 0 => Goes(Pending, p)')
      /\ Alternates(Pending, p)' /\ (Fresh(Pending, p) => Fresh(Pending, p)')
  BY <1>1, <1>2 DEF Kept, Undone, Goes, Alternates, Fresh
<1>4. Distinct(Told(p))' /\ (Has(Told(p), gen[p])' => Has(Told(p), gen[p]))
  BY <1>1, <1>2 DEF Kept, Distinct, Has
<1> QED BY <1>2, <1>3, <1>4 DEF Kept

(* A role request gives a connected controller its handle.                 *)
LEMMA KeptRequested ==
    ASSUME Types, RequestPad, NEW p \in Pad, Kept(p), AtMost(Told(p), gen[p])
    PROVE  Kept(p)' /\ AtMost(Told(p), gen[p])'
<1>1. PICK r \in input.pads : HandleForPad(r)
  BY DEF RequestPad
<1>2. r \in Pad /\ devh \in [Pad -> Handle \cup {0}] /\ gen \in [Pad -> Nat]
  BY DEF Types, TypeOK, PlatformTypeOK
<1>3. UNCHANGED <<platformVars, batch, queue, view>>
  BY DEF RequestPad
<1>4. Pending' = Pending /\ input' = input /\ Told(p)' = Told(p)
  BY <1>3 DEF platformVars, Pending, Told
<1>5. CASE devh'[p] = devh[p] /\ gen'[p] = gen[p]
  BY <1>4, <1>5 DEF Kept, AtMost, Has, Distinct, Undone, Goes, Alternates, Fresh
<1>6. CASE ~(devh'[p] = devh[p] /\ gen'[p] = gen[p])
  <2>1. p = r /\ gen'[p] = gen[p] + 1
    <3>1. \/ UNCHANGED deviceVars
          \/ /\ gen' = [gen EXCEPT ![r] = @ + 1]
             /\ \E h \in Handle : devh' = [devh EXCEPT ![r] = h]
      BY <1>1, <1>2, HandleForPadEffect
    <3> QED BY <1>2, <1>6, <3>1 DEF deviceVars
  <2>2. AtMost(Told(p), gen[p] + 1) /\ ~Has(Told(p), gen[p] + 1)
    BY <1>2, ToldIs, Bounds
  <2>3. AtMost(Told(p), gen[p])' /\ ~Has(Told(p), gen[p])'
    BY <1>4, <2>1, <2>2 DEF AtMost, Has
  <2>4. p \in input'.pads
    BY <1>1, <1>4, <2>1
  <2> QED BY <1>4, <2>3, <2>4 DEF Kept, Alternates, Distinct
<1> QED BY <1>5, <1>6

(* What the translation of e tells about p: its generation, or nothing.    *)
LEMMA Tells ==
    ASSUME NEW p, NEW e \in Evt, NEW new \in Seq(Evt), Queued(e, new)
    PROVE  \/ ~Adds(e, p) /\ Zeros(Heard(new, p))
           \/ Adds(e, p) /\ new = <<>> /\ "pads" \in lost' /\ Zeros(Heard(new, p))
           \/ Adds(e, p) /\ Heard(new, p) = <<IF devh'[p] = 0 THEN 0 ELSE gen'[p]>>
<1>1. /\ Len(Heard(new, p)) = Len(new) /\ Heard(new, p) \in Seq(Nat)
      /\ \A i \in 1 .. Len(new) : Heard(new, p)[i] = IF Adds(new[i], p) THEN new[i].gen ELSE 0
  BY HeardIs
<1>2. CASE new = <<>> /\ About(e.kind) \subseteq lost'
  <2>1. Zeros(Heard(new, p))
    <3>1. \A i : i \notin 1 .. 0
      OBVIOUS
    <3> QED BY <1>1, <1>2, <3>1, Few DEF Zeros
  <2>2. Adds(e, p) => "pads" \in lost'
    BY <1>2 DEF Adds, About
  <2> QED BY <1>2, <2>1, <2>2
<1>3. ASSUME NEW f \in Evt, Renders(e, f), new = <<f>>
      PROVE  \/ ~Adds(e, p) /\ Zeros(Heard(new, p))
             \/ Adds(e, p) /\ Heard(new, p) = <<IF devh'[p] = 0 THEN 0 ELSE gen'[p]>>
  <2>1. Len(new) = 1 /\ new[1] = f
    BY <1>3, Few
  <2>2. PICK h \in Seq(Nat) : h = Heard(new, p) /\ Len(h) = 1
                              /\ h[1] = IF Adds(f, p) THEN f.gen ELSE 0
    BY <1>1, <2>1
  <2>3. Adds(f, p) <=> Adds(e, p)
    BY <1>3 DEF Renders, Adds
  <2>4. CASE Adds(e, p)
    <3>1. f.gen = IF devh'[p] = 0 THEN 0 ELSE gen'[p]
      BY <1>3, <2>4 DEF Renders, Adds
    <3>2. h[1] = IF devh'[p] = 0 THEN 0 ELSE gen'[p]
      BY <2>2, <2>3, <2>4, <3>1
    <3>3. h = <<h[1]>>
      BY <2>2
    <3> QED BY <2>2, <2>4, <3>2, <3>3
  <2>5. CASE ~Adds(e, p)
    <3>1. h[1] = 0 /\ \A i \in 1 .. Len(h) : i = 1
      BY <2>2, <2>3, <2>5
    <3> QED BY <2>2, <2>5, <3>1 DEF Zeros
  <2> QED BY <2>4, <2>5
<1>4. ASSUME NEW f \in Evt, Renders(e, f), NEW g \in Evt, Companion(e, g), new = <<f, g>>
      PROVE  ~Adds(e, p) /\ Zeros(Heard(new, p))
  <2>1. Len(new) = 2 /\ new[1] = f /\ new[2] = g
    BY <1>4, Few
  <2>2. ~Adds(e, p) /\ ~Adds(f, p) /\ ~Adds(g, p)
    BY <1>4 DEF Companion, Renders, Adds, Pointing
  <2>3. PICK h : h = Heard(new, p) /\ Len(h) = 2 /\ h[1] = 0 /\ h[2] = 0
    BY <1>1, <2>1, <2>2
  <2>4. \A i \in 1 .. Len(h) : h[i] = 0
    <3>1. \A i \in 1 .. 2 : i = 1 \/ i = 2
      OBVIOUS
    <3> QED BY <2>3, <3>1
  <2> QED BY <2>2, <2>3, <2>4 DEF Zeros
<1> QED BY <1>2, <1>3, <1>4 DEF Queued

(* An event is translated.                                                 *)
LEMMA KeptRendered ==
    ASSUME Types, Types', Handles, Renderings, NEW p \in Pad, AtMost(Told(p), gen[p])
    PROVE  /\ AtMost(Told(p), gen[p])'
           /\ "pads" \notin lost' /\ Kept(p) => Kept(p)'
<1>1. PICK e \in Evt, new \in Seq(Evt), rest \in Seq(Evt) :
        /\ Devices(e) /\ Queued(e, new)
        /\ Pending = <<e>> \o rest /\ Pending' = rest /\ queue' = queue \o new
        /\ lost \subseteq lost' /\ input' = input /\ view' = view
  BY DEF Renderings
<1>2. /\ devh[p] \in Handle \cup {0} /\ gen[p] \in Nat
      /\ devh'[p] \in Handle \cup {0} /\ gen'[p] \in Nat
  BY DEF Types, TypeOK
<1>3. /\ ~Removes(e, p) /\ ~Wakes(e, p) => devh'[p] = devh[p] /\ gen'[p] = gen[p]
      /\ Wakes(e, p) => \/ devh'[p] = devh[p] /\ gen'[p] = gen[p]
                        \/ devh[p] = 0 /\ gen'[p] = gen[p] + 1
      /\ Removes(e, p) => devh'[p] = 0 /\ gen'[p] = gen[p]
  BY <1>1, DevicesAbout
<1>4. PICK T \in Seq(Nat), H \in Seq(Nat) :
        T = Told(p) /\ H = Heard(new, p) /\ Told(p)' = T \o H
  BY <1>1, ToldIs, ToldRendered
<1>5. \/ ~Adds(e, p) /\ Zeros(H)
      \/ Adds(e, p) /\ new = <<>> /\ "pads" \in lost' /\ Zeros(H)
      \/ Adds(e, p) /\ H = <<IF devh'[p] = 0 THEN 0 ELSE gen'[p]>>
  BY <1>1, <1>4, Tells
<1>6. AtMost(T, gen[p]) /\ AtMost(T, gen'[p]) /\ (gen'[p] # gen[p] => ~Has(T, gen'[p]))
  BY <1>2, <1>3, <1>4, Bounds
<1>7. AtMost(T \o H, gen'[p])
  <2>1. CASE Zeros(H)
    BY <1>2, <1>4, <1>6, <2>1, ZerosSayNothing
  <2>2. CASE H = <<0>>
    <3>1. 0 \in Nat /\ 0 <= gen'[p]
      BY <1>2
    <3> QED BY <1>4, <1>6, <2>2, <3>1, OneMore
  <2>3. CASE H = <<gen'[p]>>
    BY <1>2, <1>4, <1>6, <2>3, OneMore
  <2> QED BY <1>5, <2>1, <2>2, <2>3
<1>8. AtMost(Told(p), gen[p])'
  BY <1>4, <1>7 DEF AtMost
<1>9. ASSUME "pads" \notin lost', Kept(p) PROVE Kept(p)'
  <2>1. /\ Undone(Pending, p) => Undone(rest, p) /\ (Wakes(e, p) => Goes(rest, p))
        /\ Goes(Pending, p) => Removes(e, p) \/ Goes(rest, p)
        /\ Alternates(Pending, p) => Alternates(rest, p) /\ (Adds(e, p) => Fresh(rest, p))
        /\ Fresh(Pending, p) => ~Adds(e, p) /\ (Removes(e, p) \/ Fresh(rest, p))
    BY <1>1, WithoutFirst
  <2>2. p \notin input.pads => Undone(rest, p) /\ (devh'[p] # 0 => Goes(rest, p))
    BY <1>3, <1>9, <2>1 DEF Kept
  <2>3. Alternates(rest, p)
    BY <1>9, <2>1 DEF Kept
  <2>4. gen'[p] # 0 \/ devh'[p] = 0
    BY <1>2, <1>3 DEF Handles
  <2>5. /\ devh[p] # 0 /\ Has(T, gen[p]) => Fresh(Pending, p)
        /\ Distinct(T)
    BY <1>4, <1>9 DEF Kept
  <2>6. CASE ~Adds(e, p) /\ Zeros(H)
    <3>1. Distinct(T \o H)
      BY <1>2, <1>4, <2>5, <2>6, ZerosSayNothing
    <3>2. ASSUME devh'[p] # 0, Has(T \o H, gen'[p]) PROVE Fresh(rest, p)
      <4>1. Has(T, gen'[p])
        BY <1>2, <1>4, <2>4, <2>6, <3>2, ZerosSayNothing
      <4>2. devh'[p] = devh[p] /\ gen'[p] = gen[p] /\ ~Removes(e, p)
        BY <1>2, <1>3, <1>6, <3>2, <4>1
      <4> QED BY <2>1, <2>5, <3>2, <4>1, <4>2
    <3> QED BY <1>1, <1>4, <2>2, <2>3, <3>1, <3>2
            DEF Kept, Distinct, Has, Alternates, Fresh, Goes, Undone
  <2>7. CASE Adds(e, p) /\ H = <<IF devh'[p] = 0 THEN 0 ELSE gen'[p]>>
    <3>1. Fresh(rest, p)
      BY <1>9, <2>1, <2>7 DEF Kept
    <3>2. Wakes(e, p)
      BY <2>7 DEF Adds, Wakes
    <3>3. devh'[p] # 0 => ~Has(T, gen'[p])
      BY <1>3, <1>6, <2>1, <2>5, <2>7, <3>2
    <3>4. Distinct(T \o H)
      <4>1. CASE devh'[p] = 0
        <5>1. H = <<0>> /\ 0 \in Nat
          BY <2>7, <4>1
        <5> QED BY <1>4, <2>5, <5>1, OneMore
      <4>2. CASE devh'[p] # 0
        <5>1. H = <<gen'[p]>>
          BY <2>7, <4>2
        <5> QED BY <1>2, <1>4, <2>5, <3>3, <4>2, <5>1, OneMore
      <4> QED BY <4>1, <4>2
    <3> QED BY <1>1, <1>4, <2>2, <2>3, <3>1, <3>4
            DEF Kept, Distinct, Has, Alternates, Fresh, Goes, Undone
  <2> QED BY <1>5, <1>9, <2>6, <2>7
<1> QED BY <1>8, <1>9

(* At first no controller is plugged in and none has a handle.             *)
LEMMA PadsInit == Init => PadsInv
<1> SUFFICES ASSUME Init PROVE PadsInv
  OBVIOUS
<1>1. /\ Pending = <<>> /\ queue = <<>>
      /\ \A p \in Pad : devh[p] = 0 /\ gen[p] = 0 /\ view.gens[p] = <<>>
      /\ \A h \in Handle : htype[h] # "pad" /\ h # 0
  BY ConcatEmptySeq, HandleAssumption DEF Init, PlatformInit, Pending, Handle
<1>2. \A i : i \notin 1 .. 0
  OBVIOUS
<1>3. Handles
  BY <1>1 DEF Handles
<1>4. ASSUME NEW p \in Pad PROVE Told(p) = <<>>
  <2>1. Heard(<<>>, p) \in Seq(Nat) /\ Len(Heard(<<>>, p)) = 0
    BY Few, HeardIs
  <2>2. Heard(<<>>, p) = <<>>
    BY <2>1
  <2>3. Told(p) = <<>> \o Heard(<<>>, p)
    BY <1>1 DEF Told, Heard
  <2> QED BY <2>2, <2>3, ConcatEmptySeq
<1>5. ASSUME NEW p \in Pad PROVE Kept(p) /\ AtMost(Told(p), gen[p])
  BY <1>1, <1>2, <1>4, Few DEF Kept, AtMost, Distinct, Undone, Alternates
<1> QED BY <1>3, <1>5 DEF PadsInv

(* Every step, for one controller: the generations told do not exceed the  *)
(* slot's, and the controller is kept unless something was dropped.        *)
LEMMA PadsNextOne ==
    ASSUME Types, Types', [Next]_vars, PadsInv, NEW p \in Pad
    PROVE  AtMost(Told(p), gen[p])' /\ ("pads" \notin lost' => Kept(p)')
<1>1. lost \subseteq lost'
  <2>1. CASE Pushes
    BY <2>1 DEF Pushes, Pushed
  <2>2. CASE Renderings \/ Pops \/ Stays
    BY <2>2 DEF Renderings, Pops, Stays, platformVars
  <2> QED BY <2>1, <2>2, WaySteps
<1>2. /\ Handles /\ AtMost(Told(p), gen[p])
      /\ "pads" \notin lost' => Kept(p)
  BY <1>1 DEF PadsInv
<1>3. ASSUME UNCHANGED <<deviceVars, queue, view>> PROVE AtMost(Told(p), gen[p])'
  <2>1. Told(p)' = Told(p) /\ gen' = gen
    BY <1>3 DEF Told, deviceVars
  <2> QED BY <1>2, <2>1 DEF AtMost
<1>4. CASE PollPads
  BY <1>2, <1>3, <1>4, KeptPolled DEF PollPads
<1>5. CASE TakeMessage \/ ResizeCall
  BY <1>2, <1>3, <1>5, KeptMessage DEF TakeMessage, ResizeCall
<1>6. CASE Translate
  BY <1>2, <1>6, RendersStep, KeptRendered
<1>7. CASE RequestPad
  <2>1. lost' = lost
    BY <1>7 DEF RequestPad, platformVars
  <2>2. CASE "pads" \in lost'
    <3>1. PICK r \in input.pads : HandleForPad(r)
      BY <1>7 DEF RequestPad
    <3>2. r \in Pad /\ gen \in [Pad -> Nat] /\ UNCHANGED <<queue, view>>
      BY <1>7 DEF RequestPad, Types, TypeOK, PlatformTypeOK
    <3>3. Told(p)' = Told(p)
      BY <3>2 DEF Told
    <3>4. gen'[p] = gen[p] \/ gen'[p] = gen[p] + 1
      BY <3>1, <3>2, HandleForPadEffect DEF deviceVars
    <3>5. AtMost(Told(p), gen[p] + 1) /\ gen[p] \in Nat
      BY <1>2, <3>2, ToldIs, Bounds
    <3> QED BY <1>2, <2>2, <3>3, <3>4, <3>5 DEF AtMost
  <2>3. CASE "pads" \notin lost'
    BY <1>2, <1>7, <2>3, KeptRequested
  <2> QED BY <2>2, <2>3
<1>8. ASSUME Stays, UNCHANGED deviceVars
      PROVE  AtMost(Told(p), gen[p])' /\ ("pads" \notin lost' => Kept(p)')
  <2>1. Pending' = Pending /\ input' = input /\ UNCHANGED <<queue, view>>
    BY <1>8 DEF Stays
  <2>2. "pads" \notin lost' => Kept(p)'
    BY <1>2, <1>8, <2>1, KeptNext DEF Kept, Goes, Undone, Alternates, Fresh
  <2> QED BY <1>3, <1>8, <2>1, <2>2
<1>9. CASE PollReturns
  <2>1. CASE Pops
    <3>1. AtMost(Told(p), gen[p])'
      <4>1. PICK e \in Evt, rest \in Seq(Evt) :
              /\ queue = <<e>> \o rest /\ queue' = rest /\ view' = Seen(view, e)
              /\ UNCHANGED deviceVars
        BY <2>1 DEF Pops
      <4>2. AtMost(Told(p)', gen[p]) /\ gen' = gen
        BY <1>2, <4>1, ToldPopped DEF deviceVars
      <4> QED BY <4>2 DEF AtMost
    <3> QED BY <1>2, <2>1, <3>1, KeptPopped
  <2>2. CASE Stays
    BY <1>8, <1>9, <2>2 DEF PollReturns
  <2> QED BY <1>9, <2>1, <2>2, PopsStep
<1>10. CASE TakeBatch
  BY <1>8, <1>10, StaysStep DEF TakeBatch
<1>11. CASE FrameBegins \/ Poll \/ MainReturns \/ LoopTest \/ FrameReturns \/ Exit \/ UNCHANGED vars
  <2>1. UNCHANGED <<platformVars, deviceVars, batch, queue, view>>
    BY <1>11 DEF FrameBegins, Poll, MainReturns, LoopTest, FrameReturns, Exit, vars
  <2>2. Pending' = Pending
    BY <2>1 DEF Pending, platformVars
  <2>3. Stays
    BY <2>1, <2>2, WayTypes, WayTypesNext DEF Stays, platformVars
  <2> QED BY <1>8, <2>1, <2>3
<1> QED BY <1>4, <1>5, <1>6, <1>7, <1>9, <1>10, <1>11, Steps

(* Every step, for all controllers.                                        *)
LEMMA PadsNext == Types /\ Types' /\ PadsInv /\ [Next]_vars => PadsInv'
<1> SUFFICES ASSUME Types, Types', PadsInv, [Next]_vars PROVE PadsInv'
  OBVIOUS
<1>1. Handles'
  BY HandlesNext DEF PadsInv
<1>2. \A p \in Pad : AtMost(Told(p), gen[p])' /\ ("pads" \notin lost' => Kept(p)')
  BY PadsNextOne
<1> QED BY <1>1, <1>2 DEF PadsInv

(* Outside of the pump nothing about a controller waits to be translated.  *)
Quiet == Pumping \/ \A i \in 1 .. Len(Pending) : Pending[i].kind \notin PadKind

(* The pump runs until nothing about a controller is left.                 *)
LEMMA QuietNext == Types /\ Types' /\ Quiet /\ [Next]_vars => Quiet'
<1> SUFFICES ASSUME Types, Types', Quiet, [Next]_vars PROVE Quiet'
  OBVIOUS
<1>1. CASE PollPads \/ TakeMessage \/ TakeBatch \/ Translate \/ Poll
  <2>1. Pumping'
    BY <1>1 DEF PollPads, TakeMessage, TakeBatch, Translate, Poll, StartPump, Pumping
  <2> QED BY <2>1 DEF Quiet
<1>2. CASE PollReturns \/ FrameBegins
  <2>1. pc = "msgs" /\ ring = <<>> /\ UNCHANGED <<platformVars, batch>>
    BY <1>2 DEF PollReturns, FrameBegins
  <2>2. batch' = <<>> /\ ring' = <<>>
    BY <2>1 DEF Types, platformVars
  <2>3. Pending' = <<>>
    BY <2>2, ConcatEmptySeq DEF Pending
  <2>4. \A i : i \notin 1 .. 0
    OBVIOUS
  <2> QED BY <2>3, <2>4, Few DEF Quiet
<1>3. CASE ResizeCall
  <2>1. UNCHANGED <<pc, batch, queue, view>> /\ GuestRuns /\ \E evs \in Seq(Evt) : Emits(evs)
    BY <1>3, PlainEffect DEF ResizeCall
  <2>2. PICK evs \in Seq(Evt), new \in Seq(Evt) :
          Emits(evs) /\ Pushed(evs, new) /\ Pending' = Pending \o new
    BY <2>1, PushesStep DEF Emits
  <2>3. ASSUME NEW i \in 1 .. Len(new) PROVE new[i].kind \notin PadKind
    <3>1. Len(new) \in Nat /\ Len(evs) \in Nat /\ Len(new) <= Len(evs)
      BY <2>2 DEF Pushed
    <3>2. i \in 1 .. Len(evs)
      BY <3>1
    <3>3. evs[i].kind \notin PadKind /\ evs[i] \in EventRecord
      BY <2>2, <3>2, ElementOfSeq DEF Emits, Evt
    <3>4. new[i] = [evs[i] EXCEPT !.n = made + i]
      BY <2>2 DEF Pushed
    <3> QED BY <3>3, <3>4 DEF EventRecord
  <2>4. \A i \in 1 .. Len(Pending) : Pending[i].kind \notin PadKind
    BY <2>1 DEF Quiet, Pumping, GuestRuns
  <2>5. Pending \in Seq(Evt)
    BY WayTypes
  <2>6. \A i \in 1 .. Len(Pending \o new) :
          \/ i \in 1 .. Len(Pending) /\ (Pending \o new)[i] = Pending[i]
          \/ \E j \in 1 .. Len(new) : i = Len(Pending) + j /\ (Pending \o new)[i] = new[j]
    BY <2>5, ConcatElements
  <2> QED BY <2>2, <2>3, <2>4, <2>6 DEF Quiet
<1>4. CASE RequestPad \/ MainReturns \/ LoopTest \/ FrameReturns \/ Exit \/ UNCHANGED vars
  <2>1. /\ UNCHANGED <<platformVars, batch>>
        /\ Pumping' \/ (~Pumping /\ ~Pumping') \/ pc' = pc
    BY <1>4 DEF RequestPad, MainReturns, LoopTest, FrameReturns, Exit, vars, GuestRuns,
       StartPump, Pumping
  <2>2. Pending' = Pending
    BY <2>1 DEF platformVars, Pending
  <2> QED BY <2>1, <2>2 DEF Quiet, Pumping
<1> QED BY <1>1, <1>2, <1>3, <1>4, Steps

(* Two sessions of a slot that share their uid are GenRange sessions apart.*)
LEMMA UidRepeats ==
    ASSUME NEW m \in Nat, NEW n \in Nat, m # n, Uid(m) = Uid(n)
    PROVE  Apart(m, n)
<1>1. GenRange \in Nat /\ GenRange > 0
  BY LoopAssumption
<1>2. PICK r \in Nat : r = GenRange /\ r > 0
  BY <1>1
<1>3. m % r = n % r
  BY <1>2 DEF Uid
<1>4. PICK a \in Int, c \in Int : m = r * a + c /\ c = m % r
  BY <1>2
<1>5. PICK b \in Int : n = r * b + c
  BY <1>2, <1>3, <1>4
<1>6. a < b \/ b < a
  BY <1>2, <1>4, <1>5
<1>7. ASSUME NEW x \in Int, NEW y \in Int, x < y PROVE r * x + r <= r * y
  <2>1. PICK d \in Nat : y = x + 1 + d
    <3>1. y - x - 1 \in Nat /\ y = x + 1 + (y - x - 1)
      BY <1>7
    <3> QED BY <3>1
  <2>2. r * y = r * x + r + r * d
    BY <1>2, <2>1
  <2>3. r * d \in Nat /\ r * x \in Int
    BY <1>2, <1>7
  <2> QED BY <1>2, <2>2, <2>3
<1>8. r * a + r <= r * b \/ r * b + r <= r * a
  BY <1>6, <1>7
<1>9. r * a \in Int /\ r * b \in Int
  BY <1>2
<1> QED BY <1>2, <1>4, <1>5, <1>8, <1>9 DEF Apart

(* Controllers are known by their handles while they are plugged in, and   *)
(* by a uid that only the GenRange-th session after one has again.         *)
THEOREM ControllersStayKnown == Spec => []ControllersKnown
<1>1. ASSUME Types, PadsInv, Quiet PROVE ControllersKnown
  <2>1. PadHandles
    <3>1. ASSUME GuestRuns, "pads" \notin lost, NEW p \in Pad, devh[p] # 0
          PROVE  p \in input.pads
      <4>1. ~Goes(Pending, p)
        BY <1>1, <3>1 DEF Quiet, GuestRuns, Pumping, Goes, Removes, PadKind
      <4> QED BY <1>1, <3>1, <4>1 DEF PadsInv, Kept
    <3> QED BY <1>1, <3>1 DEF PadHandles, PadsInv, Handles
  <2>2. SessionsDistinct
    <3>1. ASSUME "pads" \notin lost, NEW p \in Pad, NEW i \in 1 .. Len(Told(p)),
                 NEW j \in 1 .. Len(Told(p)), i < j, Told(p)[i] # 0, Told(p)[j] # 0,
                 Uid(Told(p)[i]) = Uid(Told(p)[j])
          PROVE  Apart(Told(p)[i], Told(p)[j])
      <4>1. Told(p)[i] # Told(p)[j]
        BY <1>1, <3>1 DEF PadsInv, Kept, Distinct
      <4>2. Told(p) \in Seq(Nat)
        BY <1>1, ToldIs DEF Types
      <4>3. Told(p)[i] \in Nat /\ Told(p)[j] \in Nat
        BY <4>2, ElementOfSeq
      <4> QED BY <3>1, <4>1, <4>3, UidRepeats
    <3> QED BY <3>1 DEF SessionsDistinct
  <2> QED BY <2>1, <2>2 DEF ControllersKnown
<1>2. Types /\ PadsInv /\ Quiet => ControllersKnown
  BY <1>1
<1>3. Init => Quiet
  <2> SUFFICES ASSUME Init PROVE Quiet
    OBVIOUS
  <2>1. Pending = <<>> /\ \A i : i \notin 1 .. 0
    BY ConcatEmptySeq DEF Init, PlatformInit, Pending
  <2> QED BY <2>1, Few DEF Quiet
<1>4. Types /\ [Next]_vars => Types'
  BY TypesNext
<1> QED BY <1>2, <1>3, <1>4, PadsInit, PadsNext, QuietNext, TypesHold, PTL DEF Spec

-----------------------------------------------------------------------------
(* What the guest knows once it has seen what is on the way.               *)

(* No event of w takes x out of the part; one puts it in, and none of the  *)
(* later ones takes it out.                                                *)
Untouched(part, w, x) == \A i \in 1 .. Len(w) : ~Leaves(part, w[i], x)
EndsIn(part, w, x) == \E i \in 1 .. Len(w) :
    Enters(part, w[i], x) /\ \A j \in 1 .. Len(w) : i < j => ~Leaves(part, w[j], x)

(* Afterwards, in terms of the two.                                        *)
LEMMA AfterwardsHas ==
    ASSUME NEW part, NEW S, NEW w \in Seq(Evt), NEW x
    PROVE  x \in Afterwards(part, S, w) <=> (x \in S /\ Untouched(part, w, x)) \/ EndsIn(part, w, x)
<1>1. Len(w) \in Nat
  OBVIOUS
<1>2. ASSUME NEW i \in 1 .. Len(w)
      PROVE  (\A j \in i + 1 .. Len(w) : ~Leaves(part, w[j], x))
               <=> (\A j \in 1 .. Len(w) : i < j => ~Leaves(part, w[j], x))
  <2>1. \A j : j \in i + 1 .. Len(w) <=> j \in 1 .. Len(w) /\ i < j
    BY <1>1
  <2> QED BY <2>1
<1>3. (\E i \in 1 .. Len(w) : /\ Enters(part, w[i], x)
                              /\ \A j \in i + 1 .. Len(w) : ~Leaves(part, w[j], x))
        <=> EndsIn(part, w, x)
  BY <1>2 DEF EndsIn
<1>4. EndsIn(part, w, x) => x \in {w[i].arg : i \in 1 .. Len(w)}
  BY DEF EndsIn, Enters
<1> QED BY <1>3, <1>4 DEF Afterwards, Untouched

(* What two sequences of events do, one after the other.                   *)
LEMMA TouchConcat ==
    ASSUME NEW part, NEW a \in Seq(Evt), NEW b \in Seq(Evt), NEW x
    PROVE  /\ Untouched(part, a \o b, x) <=> Untouched(part, a, x) /\ Untouched(part, b, x)
           /\ EndsIn(part, a \o b, x)
                <=> EndsIn(part, b, x) \/ (EndsIn(part, a, x) /\ Untouched(part, b, x))
<1> PICK c : c = a \o b
  OBVIOUS
<1>1. /\ Len(a) \in Nat /\ Len(b) \in Nat
      /\ \A i \in 1 .. Len(a) : i \in 1 .. Len(c) /\ c[i] = a[i]
      /\ \A j \in 1 .. Len(b) : Len(a) + j \in 1 .. Len(c) /\ c[Len(a) + j] = b[j]
      /\ \A i \in 1 .. Len(c) : \/ i \in 1 .. Len(a) /\ c[i] = a[i]
                                \/ \E j \in 1 .. Len(b) : i = Len(a) + j /\ c[i] = b[j]
  BY ConcatElements
<1>2. Untouched(part, c, x) <=> Untouched(part, a, x) /\ Untouched(part, b, x)
  <2>1. ASSUME Untouched(part, c, x) PROVE Untouched(part, a, x) /\ Untouched(part, b, x)
    BY <1>1, <2>1 DEF Untouched
  <2>2. ASSUME Untouched(part, a, x), Untouched(part, b, x) PROVE Untouched(part, c, x)
    BY <1>1, <2>2 DEF Untouched
  <2> QED BY <2>1, <2>2
<1>3. ASSUME EndsIn(part, c, x)
      PROVE  EndsIn(part, b, x) \/ (EndsIn(part, a, x) /\ Untouched(part, b, x))
  <2>1. PICK i \in 1 .. Len(c) :
          Enters(part, c[i], x) /\ \A j \in 1 .. Len(c) : i < j => ~Leaves(part, c[j], x)
    BY <1>3 DEF EndsIn
  <2>2. CASE i \in 1 .. Len(a) /\ c[i] = a[i]
    <3>1. ASSUME NEW j \in 1 .. Len(a), i < j PROVE ~Leaves(part, a[j], x)
      BY <1>1, <2>1, <3>1
    <3>2. EndsIn(part, a, x)
      BY <2>1, <2>2, <3>1 DEF EndsIn
    <3>3. ASSUME NEW j \in 1 .. Len(b) PROVE ~Leaves(part, b[j], x)
      <4>1. i < Len(a) + j
        BY <1>1, <2>2
      <4> QED BY <1>1, <2>1, <4>1
    <3> QED BY <3>2, <3>3 DEF Untouched
  <2>3. ASSUME NEW k \in 1 .. Len(b), i = Len(a) + k, c[i] = b[k] PROVE EndsIn(part, b, x)
    <3>1. ASSUME NEW j \in 1 .. Len(b), k < j PROVE ~Leaves(part, b[j], x)
      <4>1. i < Len(a) + j
        BY <1>1, <2>3, <3>1
      <4> QED BY <1>1, <2>1, <4>1
    <3> QED BY <2>1, <2>3, <3>1 DEF EndsIn
  <2> QED BY <1>1, <2>2, <2>3
<1>4. ASSUME EndsIn(part, b, x) PROVE EndsIn(part, c, x)
  <2>1. PICK k \in 1 .. Len(b) :
          Enters(part, b[k], x) /\ \A j \in 1 .. Len(b) : k < j => ~Leaves(part, b[j], x)
    BY <1>4 DEF EndsIn
  <2>2. PICK i \in 1 .. Len(c) : i = Len(a) + k /\ c[i] = b[k]
    BY <1>1
  <2>3. ASSUME NEW j \in 1 .. Len(c), i < j PROVE ~Leaves(part, c[j], x)
    <3>1. ~(j \in 1 .. Len(a))
      BY <1>1, <2>2, <2>3
    <3>2. PICK l \in 1 .. Len(b) : j = Len(a) + l /\ c[j] = b[l]
      BY <1>1, <3>1
    <3>3. k < l
      BY <1>1, <2>2, <2>3, <3>2
    <3> QED BY <2>1, <3>2, <3>3
  <2> QED BY <2>1, <2>2, <2>3 DEF EndsIn
<1>5. ASSUME EndsIn(part, a, x), Untouched(part, b, x) PROVE EndsIn(part, c, x)
  <2>1. PICK i \in 1 .. Len(a) :
          Enters(part, a[i], x) /\ \A j \in 1 .. Len(a) : i < j => ~Leaves(part, a[j], x)
    BY <1>5 DEF EndsIn
  <2>2. i \in 1 .. Len(c) /\ c[i] = a[i]
    BY <1>1
  <2>3. ASSUME NEW j \in 1 .. Len(c), i < j PROVE ~Leaves(part, c[j], x)
    BY <1>1, <1>5, <2>1, <2>3 DEF Untouched
  <2> QED BY <2>1, <2>2, <2>3 DEF EndsIn
<1> QED BY <1>2, <1>3, <1>4, <1>5

(* What no event does, and one.                                            *)
LEMMA TouchFew ==
    ASSUME NEW part, NEW x
    PROVE  /\ Untouched(part, <<>>, x) /\ ~EndsIn(part, <<>>, x)
           /\ \A e \in Evt : /\ Untouched(part, <<e>>, x) <=> ~Leaves(part, e, x)
                             /\ EndsIn(part, <<e>>, x) <=> Enters(part, e, x)
<1>1. /\ \A i : i \notin 1 .. 0
      /\ \A i : i \in 1 .. 1 <=> i = 1
      /\ ~(1 < 1)
  OBVIOUS
<1>2. Untouched(part, <<>>, x) /\ ~EndsIn(part, <<>>, x)
  BY <1>1, Few DEF Untouched, EndsIn
<1>3. ASSUME NEW e \in Evt
      PROVE  /\ Untouched(part, <<e>>, x) <=> ~Leaves(part, e, x)
             /\ EndsIn(part, <<e>>, x) <=> Enters(part, e, x)
  <2>1. PICK w : w = <<e>> /\ Len(w) = 1 /\ w[1] = e
    BY Few
  <2> QED BY <1>1, <2>1 DEF Untouched, EndsIn
<1> QED BY <1>2, <1>3

(* An event that changes a part of the input is about it; the number, the  *)
(* text and the generation of an event play no role; no pointer event does.*)
LEMMA PartIs ==
    /\ \A e, x : Leaves("keys", e, x) <=> (e.kind = "keyUp" /\ e.arg = x) \/ e.kind = "blur"
    /\ \A e, x : Leaves("buttons", e, x) <=> (e.kind = "mouseUp" /\ e.arg = x) \/ e.kind = "blur"
    /\ \A e, x : Leaves("fingers", e, x) <=> (e.kind = "touchUp" /\ e.arg = x)
    /\ \A e, x : Leaves("pads", e, x) <=> (e.kind = "removed" /\ e.arg = x)
    /\ \A e, x : Enters("keys", e, x) <=> (e.kind = "keyDown" /\ e.arg = x)
    /\ \A e, x : Enters("buttons", e, x) <=> (e.kind = "mouseDown" /\ e.arg = x)
    /\ \A e, x : Enters("fingers", e, x) <=> (e.kind = "touchDown" /\ e.arg = x)
    /\ \A e, x : Enters("pads", e, x) <=> (e.kind = "added" /\ e.arg = x)
BY DEF Leaves, Enters, Entry, Exits

(* The kind and the argument decide what an event does to a part, and only *)
(* events about the part do something to it.                               *)
LEMMA TouchKinds ==
    ASSUME NEW part \in Part, NEW e, NEW x
    PROVE  /\ Leaves(part, e, x) \/ Enters(part, e, x) => part \in About(e.kind)
           /\ \A f : f.kind = e.kind /\ f.arg = e.arg =>
                /\ Leaves(part, f, x) <=> Leaves(part, e, x)
                /\ Enters(part, f, x) <=> Enters(part, e, x)
           /\ e.kind \notin {"keyDown", "keyUp", "mouseDown", "mouseUp", "blur",
                             "touchDown", "touchUp", "added", "removed"} =>
                ~Leaves(part, e, x) /\ ~Enters(part, e, x)
<1>1. part = "keys" \/ part = "buttons" \/ part = "fingers" \/ part = "pads"
  BY DEF Part
<1>2. CASE part = "keys"
  BY <1>2, PartIs DEF About
<1>3. CASE part = "buttons"
  BY <1>3, PartIs DEF About
<1>4. CASE part = "fingers"
  BY <1>4, PartIs DEF About
<1>5. CASE part = "pads"
  BY <1>5, PartIs DEF About
<1> QED BY <1>1, <1>2, <1>3, <1>4, <1>5

(* The event e says what happens to the input; the events evs do.          *)
Does(e) == \A part \in Part : \A x :
    x \in Known'[part] <=> (x \in Known[part] /\ ~Leaves(part, e, x)) \/ Enters(part, e, x)
Tell(evs) == \A part \in Part : \A x :
    x \in Known'[part] <=> (x \in Known[part] /\ Untouched(part, evs, x)) \/ EndsIn(part, evs, x)
Neutral(e) == e.kind \notin {"keyDown", "keyUp", "mouseDown", "mouseUp", "blur",
                             "touchDown", "touchUp", "added", "removed"}

(* The parts of the input one by one.                                      *)
LEMMA KnownIs ==
    /\ Known["keys"] = input.keys /\ Known["buttons"] = input.buttons
    /\ Known["fingers"] = FingersDown /\ Known["pads"] = input.pads
    /\ Known'["keys"] = input'.keys /\ Known'["buttons"] = input'.buttons
    /\ Known'["fingers"] = FingersDown' /\ Known'["pads"] = input'.pads
BY DEF Known

(* To show that an event says what happens, look at the four parts.        *)
LEMMA DoesWhen ==
    ASSUME NEW e,
           \A x : x \in input'.keys <=> (x \in input.keys /\ ~Leaves("keys", e, x))
                                        \/ Enters("keys", e, x),
           \A x : x \in input'.buttons <=> (x \in input.buttons /\ ~Leaves("buttons", e, x))
                                           \/ Enters("buttons", e, x),
           \A x : x \in FingersDown' <=> (x \in FingersDown /\ ~Leaves("fingers", e, x))
                                         \/ Enters("fingers", e, x),
           \A x : x \in input'.pads <=> (x \in input.pads /\ ~Leaves("pads", e, x))
                                        \/ Enters("pads", e, x)
    PROVE  Does(e)
<1> SUFFICES ASSUME NEW part \in Part, NEW x
             PROVE  x \in Known'[part] <=>
                      (x \in Known[part] /\ ~Leaves(part, e, x)) \/ Enters(part, e, x)
  BY DEF Does
<1>1. part = "keys" \/ part = "buttons" \/ part = "fingers" \/ part = "pads"
  BY DEF Part
<1>2. CASE part = "keys"
  BY <1>2, KnownIs
<1>3. CASE part = "buttons"
  BY <1>3, KnownIs
<1>4. CASE part = "fingers"
  BY <1>4, KnownIs
<1>5. CASE part = "pads"
  BY <1>5, KnownIs
<1> QED BY <1>1, <1>2, <1>3, <1>4, <1>5

(* One event that says what happens.                                       *)
LEMMA TellOne ==
    ASSUME NEW e \in Evt, Does(e)
    PROVE  Tell(<<e>>)
BY TouchFew DEF Does, Tell

(* Neutral events, when nothing that is known changes.                     *)
LEMMA TellNothing ==
    ASSUME Known' = Known
    PROVE  /\ Tell(<<>>)
           /\ \A e \in Evt : Neutral(e) => Tell(<<e>>)
           /\ \A e \in Evt, f \in Evt : Neutral(e) /\ Neutral(f) => Tell(<<e, f>>)
<1>1. Tell(<<>>)
  BY TouchFew DEF Tell
<1>2. \A part \in Part : \A e, x : Neutral(e) => ~Leaves(part, e, x) /\ ~Enters(part, e, x)
  BY TouchKinds DEF Neutral
<1>3. ASSUME NEW e \in Evt, Neutral(e) PROVE Tell(<<e>>)
  BY <1>2, <1>3, TouchFew DEF Tell
<1>4. ASSUME NEW e \in Evt, NEW f \in Evt, Neutral(e), Neutral(f) PROVE Tell(<<e, f>>)
  <2>1. <<e>> \o <<f>> = <<e, f>> /\ <<e>> \in Seq(Evt) /\ <<f>> \in Seq(Evt)
    BY Few
  <2>2. \A part \in Part : \A x :
          Untouched(part, <<e>> \o <<f>>, x) /\ ~EndsIn(part, <<e>> \o <<f>>, x)
    BY <1>2, <1>4, <2>1, TouchFew, TouchConcat
  <2> QED BY <2>1, <2>2 DEF Tell
<1> QED BY <1>1, <1>3, <1>4

(* Every step of the platform tells in its events what it did.             *)
LEMMA KeysTell ==
    ASSUME Types, KeyMessage \/ ButtonMessage \/ KillFocus
    PROVE  \E evs \in Seq(Evt) : Emit(evs) /\ Tell(evs)
<1>1. input \in Input
  BY DEF Types, TypeOK, PlatformTypeOK, Input, Composition
<1>2. ASSUME NEW e \in Evt, Emit(<<e>>), Does(e)
      PROVE  \E evs \in Seq(Evt) : Emit(evs) /\ Tell(evs)
  BY <1>2, TellOne, Few
<1>3. ASSUME NEW k \in Key, NEW kind \in {"keyDown", "keyUp"}, Emit(<<Event(kind, k)>>),
             input' = [input EXCEPT !.keys = IF kind = "keyDown" THEN @ \cup {k} ELSE @ \ {k}]
      PROVE  \E evs \in Seq(Evt) : Emit(evs) /\ Tell(evs)
  <2>1. PICK e \in Evt : e = Event(kind, k) /\ e.kind = kind /\ e.arg = k
    BY EventKinds
  <2>2. /\ input'.keys = IF kind = "keyDown" THEN input.keys \cup {k} ELSE input.keys \ {k}
        /\ input'.buttons = input.buttons /\ input'.pads = input.pads
        /\ FingersDown' = FingersDown
    BY <1>1, <1>3 DEF Input, FingersDown
  <2>3. Does(e)
    BY <2>1, <2>2, PartIs, DoesWhen
  <2> QED BY <1>2, <1>3, <2>1, <2>3
<1>4. ASSUME NEW b \in Button, NEW kind \in {"mouseDown", "mouseUp"}, Emit(<<Event(kind, b)>>),
             input' = [input EXCEPT !.buttons = IF kind = "mouseDown" THEN @ \cup {b} ELSE @ \ {b}]
      PROVE  \E evs \in Seq(Evt) : Emit(evs) /\ Tell(evs)
  <2>1. PICK e \in Evt : e = Event(kind, b) /\ e.kind = kind /\ e.arg = b
    BY EventKinds
  <2>2. /\ input'.buttons = IF kind = "mouseDown" THEN input.buttons \cup {b}
                                                  ELSE input.buttons \ {b}
        /\ input'.keys = input.keys /\ input'.pads = input.pads /\ FingersDown' = FingersDown
    BY <1>1, <1>4 DEF Input, FingersDown
  <2>3. Does(e)
    BY <2>1, <2>2, PartIs, DoesWhen
  <2> QED BY <1>2, <1>4, <2>1, <2>3
<1>5. CASE KeyMessage
  BY <1>3, <1>5 DEF KeyMessage
<1>6. CASE ButtonMessage
  BY <1>4, <1>6 DEF ButtonMessage
<1>7. CASE KillFocus
  <2>1. PICK e \in Evt : e = Plain("blur") /\ e.kind = "blur"
    BY EventKinds
  <2>2. /\ input'.keys = {} /\ input'.buttons = {} /\ input'.pads = input.pads
        /\ FingersDown' = FingersDown
    BY <1>1, <1>7 DEF KillFocus, Input, FingersDown
  <2>3. Does(e)
    BY <2>1, <2>2, PartIs, DoesWhen
  <2> QED BY <1>2, <1>7, <2>1, <2>3 DEF KillFocus
<1> QED BY <1>5, <1>6, <1>7

(* Touch messages: a contact gets its finger slot, or gives it back.       *)
LEMMA TouchTell ==
    ASSUME Types, TouchMessage
    PROVE  \E evs \in Seq(Evt) : Emit(evs) /\ Tell(evs)
<1>1. input \in Input
  BY DEF Types, TypeOK, PlatformTypeOK, Input, Composition
<1>2. PICK c \in Contact : \/ TouchDown(c) \/ TouchUp(c)
                           \/ \E f \in SlotOf(c) : Emit(<<Event("touchMotion", f)>>)
                                                   /\ UNCHANGED input
  BY DEF TouchMessage
<1>3. ASSUME NEW f \in 1 .. MaxFingers, NEW kind \in {"touchDown", "touchUp"},
             Emit(<<Event(kind, f)>>), NEW t, t = None <=> kind = "touchUp",
             input' = [input EXCEPT !.fingers[f] = t]
      PROVE  \E evs \in Seq(Evt) : Emit(evs) /\ Tell(evs)
  <2>1. PICK e \in Evt : e = Event(kind, f) /\ e.kind = kind /\ e.arg = f
    BY EventKinds
  <2>2. /\ input'.keys = input.keys /\ input'.buttons = input.buttons
        /\ input'.pads = input.pads /\ input'.fingers = [input.fingers EXCEPT ![f] = t]
    <3>1. input' = [input EXCEPT !.fingers = [input.fingers EXCEPT ![f] = t]]
      BY <1>3
    <3> QED BY <1>1, <3>1 DEF Input
  <2>3. \A x : x \in FingersDown' <=> (x \in FingersDown /\ ~(kind = "touchUp" /\ f = x))
                                      \/ (kind = "touchDown" /\ f = x)
    <3>1. input.fingers \in [1 .. MaxFingers -> Contact \cup {None}]
      BY <1>1 DEF Input
    <3>2. \A x \in 1 .. MaxFingers : input'.fingers[x] = IF x = f THEN t ELSE input.fingers[x]
      BY <2>2, <3>1
    <3> QED BY <1>3, <3>2 DEF FingersDown
  <2>4. Does(e)
    BY <2>1, <2>2, <2>3, PartIs, DoesWhen
  <2> QED BY <1>3, <2>1, <2>4, TellOne, Few
<1>4. CASE TouchDown(c)
  <2>1. PICK f \in 1 .. MaxFingers :
          input' = [input EXCEPT !.fingers[f] = c] /\ Emit(<<Event("touchDown", f)>>)
    BY <1>4 DEF TouchDown
  <2>2. c # None
    BY InputAssumption
  <2> QED BY <1>3, <2>1, <2>2
<1>5. CASE TouchUp(c)
  <2>1. PICK f \in 1 .. MaxFingers :
          input' = [input EXCEPT !.fingers[f] = None] /\ Emit(<<Event("touchUp", f)>>)
    BY <1>5 DEF TouchUp, SlotOf
  <2> QED BY <1>3, <2>1
<1>6. ASSUME NEW f \in 1 .. MaxFingers, Emit(<<Event("touchMotion", f)>>), UNCHANGED input
      PROVE  \E evs \in Seq(Evt) : Emit(evs) /\ Tell(evs)
  <2>1. PICK e \in Evt : e = Event("touchMotion", f) /\ e.kind = "touchMotion"
    BY EventKinds
  <2>2. Known' = Known /\ Neutral(e)
    BY <1>6, <2>1 DEF Known, FingersDown, Neutral
  <2> QED BY <1>6, <2>1, <2>2, TellNothing, Few
<1> QED BY <1>2, <1>4, <1>5, <1>6 DEF SlotOf

(* Messages that leave the parts of the input alone.                       *)
LEMMA OtherTell ==
    ASSUME Types, \/ PlainMessage \/ Size \/ QuitMessage
                  \/ CharMessage \/ ImeStart \/ ImeComposition \/ ImeEnd
    PROVE  \E evs \in Seq(Evt) : Emit(evs) /\ Tell(evs)
<1>1. /\ \A kind \in {"motion", "window", "commit", "start", "update", "cancel", "quit"} :
           Plain(kind) \in Evt /\ Plain(kind).kind = kind
  BY EventKinds
<1>2. \A kind \in {"motion", "window", "commit", "start", "update", "cancel", "quit"} :
           Plain(kind) \in Evt /\ Neutral(Plain(kind))
  BY <1>1 DEF Neutral
<1>3. Known' = Known
  <2>1. CASE UNCHANGED input
    BY <2>1 DEF Known, FingersDown
  <2>2. ASSUME NEW i \in Composition, input' = [input EXCEPT !.ime = i] PROVE Known' = Known
    <3>1. input \in Input
      BY DEF Types, TypeOK, PlatformTypeOK, Input, Composition
    <3>2. /\ input'.keys = input.keys /\ input'.buttons = input.buttons
          /\ input'.pads = input.pads /\ input'.fingers = input.fingers
      BY <2>2, <3>1 DEF Input
    <3> QED BY <3>2 DEF Known, FingersDown
  <2> QED BY <2>1, <2>2, TextInput DEF PlainMessage, Size, QuitMessage
<1>4. \/ TextEmits \/ Emit(<<Plain("motion")>>) \/ Emit(<<Plain("window")>>)
      \/ Emit(<<Plain("quit")>>) \/ Emit(<<Plain("window"), Plain("window")>>)
  BY TextInput DEF PlainMessage, Size, QuitMessage
<1>5. /\ Tell(<<>>)
      /\ \A kind \in {"motion", "window", "commit", "start", "update", "cancel", "quit"} :
           Tell(<<Plain(kind)>>)
      /\ Tell(<<Plain("window"), Plain("window")>>) /\ Tell(<<Plain("commit"), Plain("update")>>)
  BY <1>2, <1>3, TellNothing
<1>6. /\ <<>> \in Seq(Evt)
      /\ \A kind \in {"motion", "window", "commit", "start", "update", "cancel", "quit"} :
           <<Plain(kind)>> \in Seq(Evt)
      /\ <<Plain("window"), Plain("window")>> \in Seq(Evt)
      /\ <<Plain("commit"), Plain("update")>> \in Seq(Evt)
  BY <1>1, Few
<1> QED BY <1>4, <1>5, <1>6 DEF TextEmits

(* A controller is polled: it goes, comes or stays.                        *)
LEMMA PollTell ==
    ASSUME Types, NEW p \in Pad, PollPad(p), ~UNCHANGED platformVars
    PROVE  \E evs \in Seq(Evt) : Emit(evs) /\ Tell(evs)
<1>1. PICK r \in Evt, a \in Evt, c \in Evt :
        /\ r = Event("removed", p) /\ r.kind = "removed" /\ r.arg = p
        /\ a = Event("added", p) /\ a.kind = "added" /\ a.arg = p
        /\ c = Event("padInput", p) /\ c.kind = "padInput" /\ c.arg = p
  BY EventKinds DEF PadKind
<1>2. input \in Input
  BY DEF Types, TypeOK, PlatformTypeOK, Input, Composition
<1>3. ASSUME NEW P, input' = [input EXCEPT !.pads = P]
      PROVE  /\ input'.pads = P /\ input'.keys = input.keys /\ input'.buttons = input.buttons
             /\ FingersDown' = FingersDown
  BY <1>2, <1>3 DEF Input, FingersDown
<1>4. CASE input' = [input EXCEPT !.pads = @ \ {p}] /\ Emit(<<r>>)
  <2>1. Does(r)
    BY <1>1, <1>3, <1>4, PartIs, DoesWhen
  <2> QED BY <1>4, <2>1, TellOne, Few
<1>5. CASE /\ input' = [input EXCEPT !.pads = @ \cup {p}] /\ p \in input.pads
           /\ Emit(<<>>) \/ Emit(<<c>>)
  <2>1. Known' = Known
    <3>1. input.pads \cup {p} = input.pads
      BY <1>5
    <3> QED BY <1>3, <1>5, <3>1 DEF Known
  <2>2. Tell(<<>>) /\ Tell(<<c>>)
    BY <1>1, <2>1, TellNothing DEF Neutral
  <2> QED BY <1>5, <2>2, Few
<1>6. CASE /\ input' = [input EXCEPT !.pads = @ \cup {p}]
           /\ Emit(<<a>>) \/ Emit(<<a, c>>)
  <2>1. Does(a)
    BY <1>1, <1>3, <1>6, PartIs, DoesWhen
  <2>2. Tell(<<a>>)
    BY <2>1, TellOne
  <2>3. Tell(<<a, c>>)
    <3>1. <<a>> \o <<c>> = <<a, c>> /\ <<a>> \in Seq(Evt) /\ <<c>> \in Seq(Evt)
      BY Few
    <3>2. \A part \in Part : \A x : ~Leaves(part, c, x) /\ ~Enters(part, c, x)
      BY <1>1, TouchKinds
    <3>3. \A part \in Part : \A x :
            /\ Untouched(part, <<a>> \o <<c>>, x) <=> Untouched(part, <<a>>, x)
            /\ EndsIn(part, <<a>> \o <<c>>, x) <=> EndsIn(part, <<a>>, x)
      BY <3>1, <3>2, TouchFew, TouchConcat
    <3> QED BY <2>2, <3>1, <3>3 DEF Tell
  <2> QED BY <1>6, <2>2, <2>3, Few
<1> QED BY <1>1, <1>4, <1>5, <1>6, PadEffect

(* What is refused is about a part that is marked: of the others, the      *)
(* events that found room say as much as all of them.                      *)
LEMMA PushedSame ==
    ASSUME NEW evs \in Seq(Evt), NEW new \in Seq(Evt), Pushed(evs, new),
           NEW part \in Part, part \notin lost', NEW x
    PROVE  /\ Untouched(part, new, x) <=> Untouched(part, evs, x)
           /\ EndsIn(part, new, x) <=> EndsIn(part, evs, x)
<1>1. Len(new) \in Nat /\ Len(evs) \in Nat /\ Len(new) <= Len(evs)
  BY DEF Pushed
<1>2. ASSUME NEW i \in 1 .. Len(new)
      PROVE  /\ i \in 1 .. Len(evs)
             /\ Leaves(part, new[i], x) <=> Leaves(part, evs[i], x)
             /\ Enters(part, new[i], x) <=> Enters(part, evs[i], x)
  <2>1. i \in 1 .. Len(evs)
    BY <1>1
  <2>2. new[i] = [evs[i] EXCEPT !.n = made + i] /\ evs[i] \in EventRecord
    BY <2>1, ElementOfSeq DEF Pushed, Evt
  <2>3. new[i].kind = evs[i].kind /\ new[i].arg = evs[i].arg
    BY <2>2 DEF EventRecord
  <2> QED BY <2>1, <2>3, TouchKinds
<1>3. ASSUME NEW i \in 1 .. Len(evs)
      PROVE  \/ i \in 1 .. Len(new)
             \/ ~Leaves(part, evs[i], x) /\ ~Enters(part, evs[i], x)
  <2>1. i \in 1 .. Len(new) \/ About(evs[i].kind) \subseteq lost'
    BY <1>1 DEF Pushed
  <2> QED BY <2>1, TouchKinds
<1>4. Untouched(part, new, x) <=> Untouched(part, evs, x)
  <2>1. ASSUME Untouched(part, new, x) PROVE Untouched(part, evs, x)
    BY <1>2, <1>3, <2>1 DEF Untouched
  <2>2. ASSUME Untouched(part, evs, x) PROVE Untouched(part, new, x)
    BY <1>2, <2>2 DEF Untouched
  <2> QED BY <2>1, <2>2
<1>5. ASSUME EndsIn(part, new, x) PROVE EndsIn(part, evs, x)
  <2>1. PICK i \in 1 .. Len(new) :
          Enters(part, new[i], x) /\ \A j \in 1 .. Len(new) : i < j => ~Leaves(part, new[j], x)
    BY <1>5 DEF EndsIn
  <2>2. \A j \in 1 .. Len(evs) : i < j => ~Leaves(part, evs[j], x)
    BY <1>2, <1>3, <2>1
  <2> QED BY <1>2, <2>1, <2>2 DEF EndsIn
<1>6. ASSUME EndsIn(part, evs, x) PROVE EndsIn(part, new, x)
  <2>1. PICK i \in 1 .. Len(evs) :
          Enters(part, evs[i], x) /\ \A j \in 1 .. Len(evs) : i < j => ~Leaves(part, evs[j], x)
    BY <1>6 DEF EndsIn
  <2>2. i \in 1 .. Len(new)
    BY <1>3, <2>1
  <2>3. \A j \in 1 .. Len(new) : i < j => ~Leaves(part, new[j], x)
    BY <1>2, <2>1
  <2> QED BY <1>2, <2>1, <2>2, <2>3 DEF EndsIn
<1> QED BY <1>4, <1>5, <1>6

(* What the platform knows is what the guest will know.                    *)
Follows(part, x) ==
    x \in Known[part] <=> (x \in view[part] /\ Untouched(part, OnTheWay, x))
                          \/ EndsIn(part, OnTheWay, x)
CatchInv == \A part \in Part \ lost : \A x : Follows(part, x)

(* GuestCatchesUp says that about every part that is not marked.           *)
LEMMA CatchUpIs == Types => (GuestCatchesUp <=> CatchInv)
<1> SUFFICES ASSUME Types PROVE GuestCatchesUp <=> CatchInv
  OBVIOUS
<1>1. OnTheWay \in Seq(Evt)
  BY WayTypes
<1>2. ASSUME NEW part PROVE (Afterwards(part, view[part], OnTheWay) = Known[part]) <=> \A x : Follows(part, x)
  <2>1. \A x : x \in Afterwards(part, view[part], OnTheWay) <=>
                 (x \in view[part] /\ Untouched(part, OnTheWay, x)) \/ EndsIn(part, OnTheWay, x)
    BY <1>1, AfterwardsHas
  <2>2. (\A x : Follows(part, x)) <=>
          \A x : x \in Known[part] <=> x \in Afterwards(part, view[part], OnTheWay)
    BY <2>1 DEF Follows
  <2> QED BY <2>2
<1> QED BY <1>2 DEF GuestCatchesUp, CatchInv

(* At first there is nothing to know.                                      *)
LEMMA CatchInit == Init => CatchInv
<1> SUFFICES ASSUME Init, NEW part \in Part, NEW x PROVE Follows(part, x)
  BY DEF CatchInv
<1>1. OnTheWay = <<>>
  BY ConcatEmptySeq DEF Init, PlatformInit, OnTheWay
<1>2. Known[part] = {} /\ view[part] = {}
  <2>1. /\ input.keys = {} /\ input.buttons = {} /\ FingersDown = {} /\ input.pads = {}
        /\ view.keys = {} /\ view.buttons = {} /\ view.fingers = {} /\ view.pads = {}
    BY DEF Init, PlatformInit, FingersDown
  <2>2. part = "keys" \/ part = "buttons" \/ part = "fingers" \/ part = "pads"
    BY DEF Part
  <2> QED BY <2>1, <2>2, KnownIs
<1> QED BY <1>1, <1>2, TouchFew DEF Follows

(* What the guest knows after one event.                                   *)
LEMMA SeenPart ==
    ASSUME NEW v \in View, NEW e \in Evt, NEW part \in Part, NEW x
    PROVE  x \in Seen(v, e)[part] <=> (x \in v[part] /\ ~Leaves(part, e, x)) \/ Enters(part, e, x)
<1>1. part = "keys" \/ part = "buttons" \/ part = "fingers" \/ part = "pads"
  BY DEF Part
<1>2. CASE part = "keys"
  <2>1. PICK s : s = Seen(v, e)
    OBVIOUS
  <2>2. s.keys = CASE e.kind = "keyDown" -> v.keys \cup {e.arg}
                 [] e.kind = "keyUp" -> v.keys \ {e.arg}
                 [] e.kind = "blur" -> {}
                 [] OTHER -> v.keys
    BY <2>1, SeenIs
  <2>3. x \in s.keys <=> (x \in v.keys /\ ~Leaves("keys", e, x)) \/ Enters("keys", e, x)
    <3>1. CASE e.kind = "keyDown"
      BY <2>2, <3>1, PartIs
    <3>2. CASE e.kind = "keyUp"
      BY <2>2, <3>2, PartIs
    <3>3. CASE e.kind = "blur"
      BY <2>2, <3>3, PartIs
    <3>4. CASE e.kind \notin {"keyDown", "keyUp", "blur"}
      BY <2>2, <3>4, PartIs
    <3> QED BY <3>1, <3>2, <3>3, <3>4
  <2> QED BY <1>2, <2>1, <2>3
<1>3. CASE part = "buttons"
  <2>1. PICK s : s = Seen(v, e)
    OBVIOUS
  <2>2. s.buttons = CASE e.kind = "mouseDown" -> v.buttons \cup {e.arg}
                 [] e.kind = "mouseUp" -> v.buttons \ {e.arg}
                 [] e.kind = "blur" -> {}
                 [] OTHER -> v.buttons
    BY <2>1, SeenIs
  <2>3. x \in s.buttons <=> (x \in v.buttons /\ ~Leaves("buttons", e, x)) \/ Enters("buttons", e, x)
    <3>1. CASE e.kind = "mouseDown"
      BY <2>2, <3>1, PartIs
    <3>2. CASE e.kind = "mouseUp"
      BY <2>2, <3>2, PartIs
    <3>3. CASE e.kind = "blur"
      BY <2>2, <3>3, PartIs
    <3>4. CASE e.kind \notin {"mouseDown", "mouseUp", "blur"}
      BY <2>2, <3>4, PartIs
    <3> QED BY <3>1, <3>2, <3>3, <3>4
  <2> QED BY <1>3, <2>1, <2>3
<1>4. CASE part = "fingers"
  <2>1. PICK s : s = Seen(v, e)
    OBVIOUS
  <2>2. s.fingers = CASE e.kind = "touchDown" -> v.fingers \cup {e.arg}
                 [] e.kind = "touchUp" -> v.fingers \ {e.arg}
                 [] OTHER -> v.fingers
    BY <2>1, SeenIs
  <2>3. x \in s.fingers <=> (x \in v.fingers /\ ~Leaves("fingers", e, x)) \/ Enters("fingers", e, x)
    <3>1. CASE e.kind = "touchDown"
      BY <2>2, <3>1, PartIs
    <3>2. CASE e.kind = "touchUp"
      BY <2>2, <3>2, PartIs
    <3>3. CASE e.kind = "blur"
      BY <2>2, <3>3, PartIs
    <3>4. CASE e.kind \notin {"touchDown", "touchUp", "blur"}
      BY <2>2, <3>4, PartIs
    <3> QED BY <3>1, <3>2, <3>3, <3>4
  <2> QED BY <1>4, <2>1, <2>3
<1>5. CASE part = "pads"
  <2>1. PICK s : s = Seen(v, e)
    OBVIOUS
  <2>2. s.pads = CASE e.kind = "added" -> v.pads \cup {e.arg}
                 [] e.kind = "removed" -> v.pads \ {e.arg}
                 [] OTHER -> v.pads
    BY <2>1, SeenIs
  <2>3. x \in s.pads <=> (x \in v.pads /\ ~Leaves("pads", e, x)) \/ Enters("pads", e, x)
    <3>1. CASE e.kind = "added"
      BY <2>2, <3>1, PartIs
    <3>2. CASE e.kind = "removed"
      BY <2>2, <3>2, PartIs
    <3>3. CASE e.kind = "blur"
      BY <2>2, <3>3, PartIs
    <3>4. CASE e.kind \notin {"added", "removed", "blur"}
      BY <2>2, <3>4, PartIs
    <3> QED BY <3>1, <3>2, <3>3, <3>4
  <2> QED BY <1>5, <2>1, <2>3
<1> QED BY <1>1, <1>2, <1>3, <1>4, <1>5

(* A translation says as much as the event did.                            *)
LEMMA RenderedSame ==
    ASSUME NEW e \in Evt, NEW new \in Seq(Evt), Queued(e, new),
           NEW part \in Part, part \notin lost', NEW x
    PROVE  /\ Untouched(part, new, x) <=> ~Leaves(part, e, x)
           /\ EndsIn(part, new, x) <=> Enters(part, e, x)
<1>1. CASE new = <<>> /\ About(e.kind) \subseteq lost'
  BY <1>1, TouchFew, TouchKinds
<1>2. ASSUME NEW f \in Evt, Renders(e, f)
      PROVE  /\ Untouched(part, <<f>>, x) <=> ~Leaves(part, e, x)
             /\ EndsIn(part, <<f>>, x) <=> Enters(part, e, x)
  BY <1>2, TouchFew, TouchKinds DEF Renders
<1>3. ASSUME NEW f \in Evt, Renders(e, f), NEW g \in Evt, Companion(e, g), new = <<f, g>>
      PROVE  /\ Untouched(part, new, x) <=> ~Leaves(part, e, x)
             /\ EndsIn(part, new, x) <=> Enters(part, e, x)
  <2>1. new = <<f>> \o <<g>> /\ <<f>> \in Seq(Evt) /\ <<g>> \in Seq(Evt)
    BY <1>3, Few
  <2>2. ~Leaves(part, g, x) /\ ~Enters(part, g, x)
    BY <1>3, TouchKinds DEF Companion
  <2>3. Untouched(part, <<g>>, x) /\ ~EndsIn(part, <<g>>, x)
    BY <2>2, TouchFew
  <2>4. /\ Untouched(part, <<f>>, x) <=> ~Leaves(part, e, x)
        /\ EndsIn(part, <<f>>, x) <=> Enters(part, e, x)
    BY <1>2, <1>3
  <2>5. /\ Untouched(part, <<f>> \o <<g>>, x) <=> ~Leaves(part, e, x)
        /\ EndsIn(part, <<f>> \o <<g>>, x) <=> Enters(part, e, x)
    BY <2>1, <2>3, <2>4, TouchConcat
  <2> QED BY <2>1, <2>5
<1> QED BY <1>1, <1>2, <1>3 DEF Queued

(* Every step keeps what the guest will know equal to what the platform    *)
(* knows.                                                                  *)
LEMMA CatchNext == Types /\ Types' /\ CatchInv /\ [Next]_vars => CatchInv'
<1> SUFFICES ASSUME Types, Types', CatchInv, [Next]_vars, NEW part \in Part, part \notin lost', NEW x
             PROVE  Follows(part, x)'
  BY DEF CatchInv
<1>1. /\ queue \in Seq(Evt) /\ Pending \in Seq(Evt) /\ OnTheWay \in Seq(Evt)
      /\ OnTheWay = queue \o Pending
  BY WayTypes
<1>2. ASSUME part \notin lost PROVE Follows(part, x)
  BY <1>2 DEF CatchInv
<1>3. CASE PollPads \/ TakeMessage \/ ResizeCall
  <2>1. CASE UNCHANGED platformVars
    <3>1. UNCHANGED <<batch, queue, view>>
      BY <1>3 DEF PollPads, TakeMessage, ResizeCall
    <3> QED BY <1>2, <2>1, <3>1
            DEF Follows, OnTheWay, platformVars, Known, FingersDown, Untouched, EndsIn
  <2>2. CASE ~UNCHANGED platformVars
    <3>1. PICK evs \in Seq(Evt) : Emit(evs) /\ Tell(evs)
      BY <1>3, <2>2, KeysTell, TouchTell, OtherTell, PollTell
         DEF TakeMessage, Message, ResizeCall, PollPads, Types, TypeOK
    <3>2. UNCHANGED <<batch, queue, view>>
      BY <1>3 DEF PollPads, TakeMessage, ResizeCall
    <3>3. PICK new \in Seq(Evt) : Pushed(evs, new) /\ OnTheWay' = OnTheWay \o new
      BY <3>1, <3>2, PushesStep
    <3>4. Follows(part, x)
      BY <1>2, <3>3 DEF Pushed
    <3>5. /\ Untouched(part, new, x) <=> Untouched(part, evs, x)
          /\ EndsIn(part, new, x) <=> EndsIn(part, evs, x)
      BY <3>3, PushedSame
    <3>6. /\ Untouched(part, OnTheWay', x)
                <=> Untouched(part, OnTheWay, x) /\ Untouched(part, evs, x)
          /\ EndsIn(part, OnTheWay', x)
                <=> EndsIn(part, evs, x) \/ (EndsIn(part, OnTheWay, x) /\ Untouched(part, evs, x))
      BY <1>1, <3>3, <3>5, TouchConcat
    <3>7. x \in Known'[part]
            <=> (x \in Known[part] /\ Untouched(part, evs, x)) \/ EndsIn(part, evs, x)
      BY <3>1 DEF Tell
    <3>8. x \in Known'[part] <=> (x \in view[part] /\ Untouched(part, OnTheWay', x))
                                 \/ EndsIn(part, OnTheWay', x)
      BY <3>4, <3>6, <3>7 DEF Follows
    <3> QED BY <3>2, <3>8 DEF Follows, Untouched, EndsIn
  <2> QED BY <2>1, <2>2
<1>4. CASE Renderings
  <2>1. PICK e \in Evt, new \in Seq(Evt), rest \in Seq(Evt) :
          /\ Queued(e, new) /\ Pending = <<e>> \o rest
          /\ OnTheWay' = (queue \o new) \o rest /\ lost \subseteq lost'
          /\ view' = view /\ input' = input
    BY <1>4 DEF Renderings
  <2>2. Follows(part, x)
    BY <1>2, <2>1
  <2>3. /\ Untouched(part, new, x) <=> ~Leaves(part, e, x)
        /\ EndsIn(part, new, x) <=> Enters(part, e, x)
    BY <2>1, RenderedSame
  <2>4. <<e>> \in Seq(Evt) /\ <<e>> \o rest \in Seq(Evt) /\ queue \o new \in Seq(Evt)
    BY <1>1, <2>1, Few, ConcatProperties
  <2>5. /\ Untouched(part, <<e>> \o rest, x) <=> ~Leaves(part, e, x) /\ Untouched(part, rest, x)
        /\ EndsIn(part, <<e>> \o rest, x)
             <=> EndsIn(part, rest, x) \/ (Enters(part, e, x) /\ Untouched(part, rest, x))
    BY <2>4, TouchFew, TouchConcat
  <2>6. /\ Untouched(part, OnTheWay, x)
             <=> Untouched(part, queue, x) /\ ~Leaves(part, e, x) /\ Untouched(part, rest, x)
        /\ EndsIn(part, OnTheWay, x)
             <=> \/ EndsIn(part, rest, x)
                 \/ Enters(part, e, x) /\ Untouched(part, rest, x)
                 \/ EndsIn(part, queue, x) /\ ~Leaves(part, e, x) /\ Untouched(part, rest, x)
    BY <1>1, <2>1, <2>4, <2>5, TouchConcat
  <2>7. /\ Untouched(part, queue \o new, x) <=> Untouched(part, queue, x) /\ ~Leaves(part, e, x)
        /\ EndsIn(part, queue \o new, x)
             <=> Enters(part, e, x) \/ (EndsIn(part, queue, x) /\ ~Leaves(part, e, x))
    BY <1>1, <2>3, TouchConcat
  <2>8. /\ Untouched(part, OnTheWay', x)
             <=> Untouched(part, queue \o new, x) /\ Untouched(part, rest, x)
        /\ EndsIn(part, OnTheWay', x)
             <=> EndsIn(part, rest, x) \/ (EndsIn(part, queue \o new, x) /\ Untouched(part, rest, x))
    BY <2>1, <2>4, TouchConcat
  <2>9. /\ Untouched(part, OnTheWay', x) <=> Untouched(part, OnTheWay, x)
        /\ EndsIn(part, OnTheWay', x) <=> EndsIn(part, OnTheWay, x)
    BY <2>6, <2>7, <2>8
  <2>10. Known' = Known
    BY <2>1 DEF Known, FingersDown
  <2> QED BY <2>1, <2>2, <2>9, <2>10 DEF Follows, Untouched, EndsIn
<1>5. CASE Pops
  <2>1. PICK e \in Evt, rest \in Seq(Evt) :
          /\ queue = <<e>> \o rest /\ view' = Seen(view, e)
          /\ OnTheWay' = rest \o Pending /\ input' = input /\ lost' = lost
    BY <1>5 DEF Pops, platformVars
  <2>2. Follows(part, x)
    BY <1>2, <2>1
  <2>3. x \in view'[part] <=> (x \in view[part] /\ ~Leaves(part, e, x)) \/ Enters(part, e, x)
    BY <2>1, SeenPart DEF Types
  <2>4. <<e>> \in Seq(Evt) /\ rest \o Pending \in Seq(Evt)
    BY <1>1, <2>1, Few, ConcatProperties
  <2>5. OnTheWay = <<e>> \o (rest \o Pending)
    BY <1>1, <2>1, <2>4, ConcatAssociative
  <2>6. /\ Untouched(part, OnTheWay, x)
             <=> ~Leaves(part, e, x) /\ Untouched(part, rest \o Pending, x)
        /\ EndsIn(part, OnTheWay, x)
             <=> \/ EndsIn(part, rest \o Pending, x)
                 \/ Enters(part, e, x) /\ Untouched(part, rest \o Pending, x)
    BY <2>4, <2>5, TouchFew, TouchConcat
  <2>7. Known' = Known
    BY <2>1 DEF Known, FingersDown
  <2>8. x \in Known[part] <=> (x \in view'[part] /\ Untouched(part, OnTheWay', x))
                              \/ EndsIn(part, OnTheWay', x)
    BY <2>1, <2>2, <2>3, <2>6 DEF Follows
  <2> QED BY <2>7, <2>8 DEF Follows, Untouched, EndsIn
<1>6. CASE Stays
  <2>1. Follows(part, x) /\ OnTheWay' = OnTheWay /\ view' = view /\ input' = input
    BY <1>2, <1>6 DEF Stays
  <2>2. Known' = Known
    BY <2>1 DEF Known, FingersDown
  <2> QED BY <2>1, <2>2 DEF Follows, Untouched, EndsIn
<1>7. CASE TakeBatch \/ Translate \/ PollReturns
  BY <1>4, <1>5, <1>6, <1>7, StaysStep, RendersStep, PopsStep
<1>8. CASE \/ RequestPad \/ FrameBegins \/ Poll \/ MainReturns \/ LoopTest \/ FrameReturns
           \/ Exit \/ UNCHANGED vars
  <2>1. UNCHANGED <<platformVars, batch, queue, view>>
    BY <1>8 DEF RequestPad, FrameBegins, Poll, MainReturns, LoopTest, FrameReturns, Exit, vars
  <2>2. Pending' = Pending
    BY <2>1 DEF Pending, platformVars
  <2>3. Stays
    BY <2>1, <2>2, WayTypes, WayTypesNext DEF Stays, platformVars
  <2> QED BY <1>6, <2>3
<1> QED BY <1>3, <1>7, <1>8, Steps

(* A guest that applies the events it pops learns what the platform knows. *)
THEOREM CatchesUp == Spec => []GuestCatchesUp
<1>1. Types /\ CatchInv => GuestCatchesUp
  BY CatchUpIs
<1>2. Types /\ [Next]_vars => Types'
  BY TypesNext
<1> QED BY <1>1, <1>2, CatchInit, CatchNext, TypesHold, PTL DEF Spec

-----------------------------------------------------------------------------
(* The text that the guest is left with.                                   *)

Speaks(e) == e.kind \in {"start", "update"}
Composes(e) == e.kind \in {"start", "update", "commit", "cancel"}

(* No event of w is about the composition; the last one that is says t.    *)
Unsaid(w) == \A i \in 1 .. Len(w) : ~Composes(w[i])
EndsWith(w, t) == \E i \in 1 .. Len(w) :
    Speaks(w[i]) /\ w[i].text = t /\ \A j \in 1 .. Len(w) : i < j => ~Composes(w[j])

(* One event after the other: what the second part says is the last word.  *)
LEMMA SaidConcat ==
    ASSUME NEW a \in Seq(Evt), NEW b \in Seq(Evt), NEW t
    PROVE  /\ Unsaid(a \o b) <=> Unsaid(a) /\ Unsaid(b)
           /\ EndsWith(a \o b, t) <=> EndsWith(b, t) \/ (EndsWith(a, t) /\ Unsaid(b))
<1> PICK c : c = a \o b
  OBVIOUS
<1>1. /\ Len(a) \in Nat /\ Len(b) \in Nat
      /\ \A i \in 1 .. Len(a) : i \in 1 .. Len(c) /\ c[i] = a[i]
      /\ \A j \in 1 .. Len(b) : Len(a) + j \in 1 .. Len(c) /\ c[Len(a) + j] = b[j]
      /\ \A i \in 1 .. Len(c) : \/ i \in 1 .. Len(a) /\ c[i] = a[i]
                                \/ \E j \in 1 .. Len(b) : i = Len(a) + j /\ c[i] = b[j]
  BY ConcatElements
<1>2. Unsaid(c) <=> Unsaid(a) /\ Unsaid(b)
  <2>1. ASSUME Unsaid(c) PROVE Unsaid(a) /\ Unsaid(b)
    BY <1>1, <2>1 DEF Unsaid
  <2>2. ASSUME Unsaid(a), Unsaid(b) PROVE Unsaid(c)
    BY <1>1, <2>2 DEF Unsaid
  <2> QED BY <2>1, <2>2
<1>3. ASSUME EndsWith(c, t) PROVE EndsWith(b, t) \/ (EndsWith(a, t) /\ Unsaid(b))
  <2>1. PICK i \in 1 .. Len(c) : /\ Speaks(c[i]) /\ c[i].text = t
                                 /\ \A j \in 1 .. Len(c) : i < j => ~Composes(c[j])
    BY <1>3 DEF EndsWith
  <2>2. CASE i \in 1 .. Len(a) /\ c[i] = a[i]
    <3>1. ASSUME NEW j \in 1 .. Len(a), i < j PROVE ~Composes(a[j])
      BY <1>1, <2>1, <3>1
    <3>2. EndsWith(a, t)
      BY <2>1, <2>2, <3>1 DEF EndsWith
    <3>3. ASSUME NEW j \in 1 .. Len(b) PROVE ~Composes(b[j])
      <4>1. i < Len(a) + j
        BY <1>1, <2>2
      <4> QED BY <1>1, <2>1, <4>1
    <3> QED BY <3>2, <3>3 DEF Unsaid
  <2>3. ASSUME NEW k \in 1 .. Len(b), i = Len(a) + k, c[i] = b[k] PROVE EndsWith(b, t)
    <3>1. ASSUME NEW j \in 1 .. Len(b), k < j PROVE ~Composes(b[j])
      <4>1. i < Len(a) + j
        BY <1>1, <2>3, <3>1
      <4> QED BY <1>1, <2>1, <4>1
    <3> QED BY <2>1, <2>3, <3>1 DEF EndsWith
  <2> QED BY <1>1, <2>2, <2>3
<1>4. ASSUME EndsWith(b, t) PROVE EndsWith(c, t)
  <2>1. PICK k \in 1 .. Len(b) : /\ Speaks(b[k]) /\ b[k].text = t
                                 /\ \A j \in 1 .. Len(b) : k < j => ~Composes(b[j])
    BY <1>4 DEF EndsWith
  <2>2. PICK i \in 1 .. Len(c) : i = Len(a) + k /\ c[i] = b[k]
    BY <1>1
  <2>3. ASSUME NEW j \in 1 .. Len(c), i < j PROVE ~Composes(c[j])
    <3>1. ~(j \in 1 .. Len(a))
      BY <1>1, <2>2, <2>3
    <3>2. PICK l \in 1 .. Len(b) : j = Len(a) + l /\ c[j] = b[l]
      BY <1>1, <3>1
    <3>3. k < l
      BY <1>1, <2>2, <2>3, <3>2
    <3> QED BY <2>1, <3>2, <3>3
  <2> QED BY <2>1, <2>2, <2>3 DEF EndsWith
<1>5. ASSUME EndsWith(a, t), Unsaid(b) PROVE EndsWith(c, t)
  <2>1. PICK i \in 1 .. Len(a) : /\ Speaks(a[i]) /\ a[i].text = t
                                 /\ \A j \in 1 .. Len(a) : i < j => ~Composes(a[j])
    BY <1>5 DEF EndsWith
  <2>2. i \in 1 .. Len(c) /\ c[i] = a[i]
    BY <1>1
  <2>3. ASSUME NEW j \in 1 .. Len(c), i < j PROVE ~Composes(c[j])
    BY <1>1, <1>5, <2>1, <2>3 DEF Unsaid
  <2> QED BY <2>1, <2>2, <2>3 DEF EndsWith
<1> QED BY <1>2, <1>3, <1>4, <1>5

(* What none, one or two events say.                                       *)
LEMMA SaidFew ==
    /\ Unsaid(<<>>) /\ \A t : ~EndsWith(<<>>, t)
    /\ \A e \in Evt : /\ Unsaid(<<e>>) <=> ~Composes(e)
                      /\ \A t : EndsWith(<<e>>, t) <=> Speaks(e) /\ e.text = t
    /\ \A e \in Evt, f \in Evt :
         /\ Unsaid(<<e, f>>) <=> ~Composes(e) /\ ~Composes(f)
         /\ Composes(f) => \A t : EndsWith(<<e, f>>, t) <=> Speaks(f) /\ f.text = t
<1>1. /\ \A i : i \notin 1 .. 0
      /\ \A i : i \in 1 .. 1 <=> i = 1
      /\ ~(1 < 1)
  OBVIOUS
<1>2. Unsaid(<<>>) /\ \A t : ~EndsWith(<<>>, t)
  BY <1>1, Few DEF Unsaid, EndsWith
<1>3. ASSUME NEW e \in Evt
      PROVE  /\ Unsaid(<<e>>) <=> ~Composes(e)
             /\ \A t : EndsWith(<<e>>, t) <=> Speaks(e) /\ e.text = t
  <2>1. PICK w : w = <<e>> /\ Len(w) = 1 /\ w[1] = e
    BY Few
  <2> QED BY <1>1, <2>1 DEF Unsaid, EndsWith
<1>4. ASSUME NEW e \in Evt, NEW f \in Evt
      PROVE  /\ Unsaid(<<e, f>>) <=> ~Composes(e) /\ ~Composes(f)
             /\ Composes(f) => \A t : EndsWith(<<e, f>>, t) <=> Speaks(f) /\ f.text = t
  <2>1. <<e>> \o <<f>> = <<e, f>> /\ <<e>> \in Seq(Evt) /\ <<f>> \in Seq(Evt)
    BY Few
  <2>2. Unsaid(<<e>> \o <<f>>) <=> ~Composes(e) /\ ~Composes(f)
    BY <1>3, <2>1, SaidConcat
  <2>3. ASSUME Composes(f), NEW t
        PROVE  EndsWith(<<e>> \o <<f>>, t) <=> Speaks(f) /\ f.text = t
    BY <1>3, <2>1, <2>3, SaidConcat
  <2> QED BY <2>1, <2>2, <2>3
<1> QED BY <1>2, <1>3, <1>4

(* What is pushed says what was to be pushed, unless an event about the    *)
(* composition was refused.                                                *)
LEMMA PushedSays ==
    ASSUME NEW evs \in Seq(Evt), NEW new \in Seq(Evt), Pushed(evs, new), "ime" \notin lost'
    PROVE  /\ Unsaid(new) <=> Unsaid(evs)
           /\ \A t : EndsWith(new, t) => EndsWith(evs, t)
<1>1. Len(new) \in Nat /\ Len(evs) \in Nat /\ Len(new) <= Len(evs)
  BY DEF Pushed
<1>2. ASSUME NEW i \in 1 .. Len(new)
      PROVE  /\ i \in 1 .. Len(evs) /\ new[i].text = evs[i].text
             /\ Composes(new[i]) <=> Composes(evs[i])
             /\ Speaks(new[i]) <=> Speaks(evs[i])
  <2>1. i \in 1 .. Len(evs)
    BY <1>1
  <2>2. new[i] = [evs[i] EXCEPT !.n = made + i] /\ evs[i] \in EventRecord
    BY <2>1, ElementOfSeq DEF Pushed, Evt
  <2>3. new[i].kind = evs[i].kind /\ new[i].text = evs[i].text
    BY <2>2 DEF EventRecord
  <2> QED BY <2>1, <2>3 DEF Composes, Speaks
<1>3. ASSUME NEW i \in 1 .. Len(evs)
      PROVE  i \in 1 .. Len(new) \/ ~Composes(evs[i])
  <2>1. i \in 1 .. Len(new) \/ About(evs[i].kind) \subseteq lost'
    BY <1>1 DEF Pushed
  <2>2. Composes(evs[i]) => About(evs[i].kind) = {"ime"}
    BY DEF About, Composes
  <2> QED BY <2>1, <2>2
<1>4. Unsaid(new) <=> Unsaid(evs)
  <2>1. ASSUME Unsaid(new) PROVE Unsaid(evs)
    BY <1>2, <1>3, <2>1 DEF Unsaid
  <2>2. ASSUME Unsaid(evs) PROVE Unsaid(new)
    BY <1>2, <2>2 DEF Unsaid
  <2> QED BY <2>1, <2>2
<1>5. ASSUME NEW t, EndsWith(new, t) PROVE EndsWith(evs, t)
  <2>1. PICK i \in 1 .. Len(new) : /\ Speaks(new[i]) /\ new[i].text = t
                                   /\ \A j \in 1 .. Len(new) : i < j => ~Composes(new[j])
    BY <1>5 DEF EndsWith
  <2>2. \A j \in 1 .. Len(evs) : i < j => ~Composes(evs[j])
    BY <1>2, <1>3, <2>1
  <2> QED BY <1>2, <2>1, <2>2 DEF EndsWith
<1> QED BY <1>4, <1>5

(* A text x may stay with the guest as long as the end of the composition  *)
(* i will take it back: it is the text, and an update has shown it.        *)
Allowed(i, x) == x = NoText \/ (x = i.text /\ i.shown # NoText)
(* Between two compositions there is nothing to take back.                 *)
Idle(i) == i.on \/ (i.text = NoText /\ i.shown = NoText /\ ~i.committed)

(* The events evs tell what a message does to the composition.             *)
Reports(evs) ==
    /\ Idle(input.ime) => Idle(input'.ime)
    /\ ~input'.ime.stuck =>
         /\ ~input.ime.stuck
         /\ \A t : EndsWith(evs, t) => Allowed(input'.ime, input'.ime.text)
         /\ Unsaid(evs) => \A x : Allowed(input.ime, x) => Allowed(input'.ime, x)
         /\ Unsaid(evs) /\ Allowed(input.ime, input.ime.text)
              => Allowed(input'.ime, input'.ime.text)

(* A message that is not about the composition leaves it alone.            *)
LEMMA NothingSaid ==
    ASSUME NEW evs, Unsaid(evs), input'.ime = input.ime
    PROVE  Reports(evs)
<1>1. \A t : ~EndsWith(evs, t)
  BY DEF Unsaid, EndsWith, Speaks, Composes
<1> QED BY <1>1 DEF Reports

(* Messages about the composition.                                         *)
LEMMA TextReports ==
    ASSUME Types, CharMessage \/ ImeStart \/ ImeComposition \/ ImeEnd
    PROVE  \E evs \in Seq(Evt) : Emit(evs) /\ Reports(evs)
<1>1. input \in Input /\ input.ime \in Composition /\ NoComposition \in Composition
  BY DEF Types, TypeOK, PlatformTypeOK, Input, Composition, NoComposition
<1>2. PICK c \in Evt, s \in Evt, u \in Evt, x \in Evt :
        /\ c = Plain("commit") /\ c.kind = "commit" /\ s = Plain("start") /\ s.kind = "start"
        /\ u = Plain("update") /\ u.kind = "update" /\ x = Plain("cancel") /\ x.kind = "cancel"
  BY EventKinds
<1>3. /\ \A t : ~EndsWith(<<c>>, t) /\ ~EndsWith(<<x>>, t)
      /\ ~Unsaid(<<c>>) /\ ~Unsaid(<<s>>) /\ ~Unsaid(<<u>>) /\ ~Unsaid(<<x>>) /\ ~Unsaid(<<c, u>>)
      /\ Unsaid(<<>>) /\ \A t : ~EndsWith(<<>>, t)
  BY <1>2, SaidFew DEF Speaks, Composes
<1>4. /\ <<c>> \in Seq(Evt) /\ <<s>> \in Seq(Evt) /\ <<u>> \in Seq(Evt) /\ <<x>> \in Seq(Evt)
      /\ <<c, u>> \in Seq(Evt) /\ <<>> \in Seq(Evt)
      /\ <<c>> \o <<u>> = <<c, u>> /\ <<>> \o <<u>> = <<u>>
  BY Few
<1>5. ASSUME NEW i, input' = [input EXCEPT !.ime = i] PROVE input'.ime = i
  BY <1>1, <1>5 DEF Input
<1>6. CASE CharMessage
  <2>1. PICK i : i = [input.ime EXCEPT !.shown = NoText]
    OBVIOUS
  <2>2. i.on = input.ime.on /\ i.text = input.ime.text /\ i.shown = NoText
        /\ i.committed = input.ime.committed /\ i.stuck = input.ime.stuck
    BY <1>1, <2>1 DEF Composition
  <2>3. input' = [input EXCEPT !.ime = i] /\ Emit(<<c>>)
    BY <1>2, <1>6, <2>1 DEF CharMessage
  <2>4. input'.ime = i
    BY <1>5, <2>3
  <2>5. Reports(<<c>>)
    BY <1>3, <2>2, <2>4 DEF Reports, Idle
  <2> QED BY <1>4, <2>3, <2>5
<1>7. CASE ImeStart
  <2>1. PICK i : i = [NoComposition EXCEPT !.on = TRUE, !.stuck = input.ime.stuck]
    OBVIOUS
  <2>2. i.on /\ i.text = NoText /\ i.stuck = input.ime.stuck
    BY <1>1, <2>1 DEF Composition, NoComposition
  <2>3. input' = [input EXCEPT !.ime = i] /\ Emit(<<s>>)
    BY <1>2, <1>7, <2>1 DEF ImeStart
  <2>4. input'.ime = i
    BY <1>5, <2>3
  <2>5. Reports(<<s>>)
    BY <1>3, <2>2, <2>4 DEF Reports, Idle, Allowed
  <2> QED BY <1>4, <2>3, <2>5
<1>8. CASE ImeComposition
  <2>1. CASE /\ input' = [input EXCEPT !.ime.committed = TRUE, !.ime.shown = NoText]
             /\ Emit(<<Plain("commit")>>)
    <3>1. PICK i : i = [input.ime EXCEPT !.committed = TRUE, !.shown = NoText]
      OBVIOUS
    <3>2. i.on = input.ime.on /\ i.stuck = input.ime.stuck
      BY <1>1, <3>1 DEF Composition
    <3>3. input' = [input EXCEPT !.ime = i]
      BY <1>1, <2>1, <3>1 DEF Input
    <3>4. input'.ime = i
      BY <1>5, <3>3
    <3>5. Reports(<<c>>)
      BY <1>3, <1>8, <3>2, <3>4 DEF Reports, Idle, ImeComposition
    <3> QED BY <1>2, <1>4, <2>1, <3>5
  <2>2. ASSUME NEW t \in Text \cup {NoText}, NEW result \in BOOLEAN,
               input' = [input EXCEPT !.ime.committed = IF result THEN TRUE ELSE @,
                                      !.ime.text = t, !.ime.shown = t],
               Emit((IF result THEN <<Plain("commit")>> ELSE <<>>) \o <<Plain("update")>>)
        PROVE  \E evs \in Seq(Evt) : Emit(evs) /\ Reports(evs)
    <3>1. PICK m \in BOOLEAN : m = IF result THEN TRUE ELSE input.ime.committed
      BY <1>1 DEF Composition
    <3>2. PICK i : i = [input.ime EXCEPT !.committed = m, !.text = t, !.shown = t]
      OBVIOUS
    <3>3. i.on = input.ime.on /\ i.stuck = input.ime.stuck /\ i.text = t /\ i.shown = t
      BY <1>1, <3>2 DEF Composition
    <3>4. input' = [input EXCEPT !.ime = i]
      <4>1. [input EXCEPT !.ime.committed = m, !.ime.text = t, !.ime.shown = t]
              = [input EXCEPT !.ime = [input.ime EXCEPT !.committed = m, !.text = t, !.shown = t]]
        BY <1>1 DEF Input, Composition
      <4>2. input' = [input EXCEPT !.ime.committed = m, !.ime.text = t, !.ime.shown = t]
        BY <2>2, <3>1
      <4> QED BY <3>2, <4>1, <4>2
    <3>5. input'.ime = i
      BY <1>5, <3>4
    <3>6. input.ime.on
      BY <1>8 DEF ImeComposition
    <3>7. Allowed(i, i.text)
      BY <3>3 DEF Allowed
    <3>8. Reports(<<u>>) /\ Reports(<<c, u>>)
      BY <1>3, <3>3, <3>5, <3>6, <3>7 DEF Reports, Idle
    <3>9. Emit(<<c, u>>) \/ Emit(<<u>>)
      <4>1. CASE result
        <5>1. Emit(<<c>> \o <<u>>)
          BY <1>2, <2>2, <4>1
        <5> QED BY <1>4, <5>1
      <4>2. CASE ~result
        <5>1. Emit(<<>> \o <<u>>)
          BY <1>2, <2>2, <4>2
        <5> QED BY <1>4, <5>1
      <4> QED BY <4>1, <4>2
    <3> QED BY <1>4, <3>8, <3>9
  <2> QED BY <1>8, <2>1, <2>2 DEF ImeComposition
<1>9. CASE ImeEnd
  <2>1. PICK b \in BOOLEAN :
          b = (input.ime.stuck \/ (input.ime.committed /\ input.ime.shown # NoText))
    BY <1>1 DEF Composition
  <2>2. PICK i : i = [NoComposition EXCEPT !.stuck = b]
    OBVIOUS
  <2>3. i.text = NoText /\ i.shown = NoText /\ ~i.committed /\ i.stuck = b
    BY <1>1, <2>2 DEF Composition, NoComposition
  <2>4. /\ input' = [input EXCEPT !.ime = i]
        /\ Emit(IF Abandoned(input.ime) THEN <<x>> ELSE <<>>)
    BY <1>2, <1>9, <2>1, <2>2 DEF ImeEnd
  <2>5. input'.ime = i
    BY <1>5, <2>4
  <2>6. Reports(<<x>>)
    BY <1>3, <2>1, <2>3, <2>5 DEF Reports, Idle, Allowed
  <2>7. ASSUME ~Abandoned(input.ime) PROVE Reports(<<>>)
    <3>1. ~b => input.ime.shown = NoText \/ input.ime.text = NoText
      BY <1>9, <2>1, <2>7 DEF Abandoned, ImeEnd
    <3>2. ~b => \A y : Allowed(input.ime, y) => y = NoText
      BY <3>1 DEF Allowed
    <3> QED BY <1>3, <2>1, <2>3, <2>5, <3>2 DEF Reports, Idle, Allowed
  <2> QED BY <1>4, <2>4, <2>6, <2>7
<1> QED BY <1>6, <1>7, <1>8, <1>9

(* The other messages, and the controllers.                                *)
LEMMA OthersReport ==
    ASSUME Types,
           \/ KeyMessage \/ ButtonMessage \/ KillFocus \/ TouchMessage
           \/ PlainMessage \/ Size \/ QuitMessage
    PROVE  \E evs \in Seq(Evt) : Emit(evs) /\ Reports(evs)
<1>1. input \in Input
  BY DEF Types, TypeOK, PlatformTypeOK, Input, Composition
<1>2. ASSUME NEW e \in Evt, ~Composes(e), Emit(<<e>>) \/ Emit(<<e, e>>), input'.ime = input.ime
      PROVE  \E evs \in Seq(Evt) : Emit(evs) /\ Reports(evs)
  <2>1. Reports(<<e>>) /\ Reports(<<e, e>>)
    BY <1>2, SaidFew, NothingSaid
  <2> QED BY <1>2, <2>1, Few
<1>3. ASSUME NEW e \in Evt, e.kind \notin {"start", "update", "commit", "cancel"},
             Emit(<<e>>) \/ Emit(<<e, e>>), input'.ime = input.ime
      PROVE  \E evs \in Seq(Evt) : Emit(evs) /\ Reports(evs)
  BY <1>2, <1>3 DEF Composes
<1>4. CASE KeyMessage
  <2>1. PICK k \in Key, kind \in {"keyDown", "keyUp"} :
          /\ input' \in {[input EXCEPT !.keys = @ \cup {k}], [input EXCEPT !.keys = @ \ {k}]}
          /\ Emit(<<Event(kind, k)>>)
    BY <1>4 DEF KeyMessage
  <2>2. input'.ime = input.ime
    BY <1>1, <2>1 DEF Input
  <2>3. Event(kind, k) \in Evt /\ Event(kind, k).kind = kind
    BY EventKinds
  <2> QED BY <1>3, <2>1, <2>2, <2>3
<1>5. CASE ButtonMessage
  <2>1. PICK b \in Button, kind \in {"mouseDown", "mouseUp"} :
          /\ input' \in {[input EXCEPT !.buttons = @ \cup {b}],
                         [input EXCEPT !.buttons = @ \ {b}]}
          /\ Emit(<<Event(kind, b)>>)
    BY <1>5 DEF ButtonMessage
  <2>2. input'.ime = input.ime
    BY <1>1, <2>1 DEF Input
  <2>3. Event(kind, b) \in Evt /\ Event(kind, b).kind = kind
    BY EventKinds
  <2> QED BY <1>3, <2>1, <2>2, <2>3
<1>6. CASE KillFocus
  <2>1. input'.ime = input.ime /\ Emit(<<Plain("blur")>>)
    BY <1>1, <1>6 DEF KillFocus, Input
  <2>2. Plain("blur") \in Evt /\ Plain("blur").kind = "blur"
    BY EventKinds
  <2> QED BY <1>3, <2>1, <2>2
<1>7. CASE TouchMessage
  <2>1. PICK c \in Contact : \/ TouchDown(c) \/ TouchUp(c)
                             \/ \E f \in SlotOf(c) : Emit(<<Event("touchMotion", f)>>)
                                                     /\ UNCHANGED input
    BY <1>7 DEF TouchMessage
  <2>2. PICK f \in 1 .. MaxFingers, kind \in {"touchDown", "touchUp", "touchMotion"} :
          /\ input' \in {[input EXCEPT !.fingers[f] = c], [input EXCEPT !.fingers[f] = None], input}
          /\ Emit(<<Event(kind, f)>>)
    BY <2>1 DEF TouchDown, TouchUp, SlotOf
  <2>3. input'.ime = input.ime
    BY <1>1, <2>2 DEF Input
  <2>4. Event(kind, f) \in Evt /\ Event(kind, f).kind = kind
    BY EventKinds
  <2> QED BY <1>3, <2>2, <2>3, <2>4
<1>8. CASE PlainMessage \/ Size \/ QuitMessage
  <2>1. /\ Plain("motion") \in Evt /\ Plain("motion").kind = "motion"
        /\ Plain("window") \in Evt /\ Plain("window").kind = "window"
        /\ Plain("quit") \in Evt /\ Plain("quit").kind = "quit"
    BY EventKinds
  <2>2. /\ \/ Emit(<<Plain("motion")>>) \/ Emit(<<Plain("window")>>) \/ Emit(<<Plain("quit")>>)
           \/ Emit(<<Plain("window"), Plain("window")>>)
        /\ input' = input
    BY <1>8 DEF PlainMessage, Size, QuitMessage
  <2> QED BY <1>3, <2>1, <2>2
<1> QED BY <1>4, <1>5, <1>6, <1>7, <1>8

(* A poll of a controller is not about the composition.                    *)
LEMMA PollReports ==
    ASSUME Types, NEW p \in Pad, PollPad(p), ~UNCHANGED platformVars
    PROVE  \E evs \in Seq(Evt) : Emit(evs) /\ Reports(evs)
<1>1. PICK r \in Evt, a \in Evt, c \in Evt :
        /\ r = Event("removed", p) /\ r.kind = "removed"
        /\ a = Event("added", p) /\ a.kind = "added"
        /\ c = Event("padInput", p) /\ c.kind = "padInput"
  BY EventKinds DEF PadKind
<1>2. input'.ime = input.ime
  <2>1. input \in Input
    BY DEF Types, TypeOK, PlatformTypeOK, Input, Composition
  <2>2. \/ input' = [input EXCEPT !.pads = @ \ {p}]
        \/ input' = [input EXCEPT !.pads = @ \cup {p}]
    BY PadEffect
  <2> QED BY <2>1, <2>2 DEF Input
<1>3. Unsaid(<<>>) /\ Unsaid(<<r>>) /\ Unsaid(<<a>>) /\ Unsaid(<<c>>) /\ Unsaid(<<a, c>>)
  BY <1>1, SaidFew DEF Composes
<1>4. Reports(<<>>) /\ Reports(<<r>>) /\ Reports(<<a>>) /\ Reports(<<c>>) /\ Reports(<<a, c>>)
  BY <1>2, <1>3, NothingSaid
<1>5. \/ Emit(<<>>) \/ Emit(<<r>>) \/ Emit(<<a>>) \/ Emit(<<c>>) \/ Emit(<<a, c>>)
  BY <1>1, PadEffect
<1> QED BY <1>4, <1>5, Few

(* The last word about the composition, on the ring or the batch, in the   *)
(* queue or with the guest, is about a text that its end takes back.       *)
TextInv ==
    /\ Idle(input.ime)
    /\ "ime" \in lost \/ input.ime.stuck \/
         /\ \A t : EndsWith(Pending, t) => Allowed(input.ime, input.ime.text)
         /\ Unsaid(Pending) => \A t : EndsWith(queue, t) => Allowed(input.ime, t)
         /\ Unsaid(Pending) /\ Unsaid(queue) => Allowed(input.ime, view.text)

(* At first no text was shown.                                             *)
LEMMA TextInit == Init => TextInv
<1> SUFFICES ASSUME Init PROVE TextInv
  OBVIOUS
<1>1. Pending = <<>> /\ queue = <<>> /\ view.text = NoText
  BY ConcatEmptySeq DEF Init, PlatformInit, Pending
<1>2. Idle(input.ime)
  BY DEF Init, PlatformInit, NoComposition, Idle
<1> QED BY <1>1, <1>2, SaidFew DEF TextInv, Allowed

(* Steps that leave the composition, and what is on the way, alone.        *)
LEMMA TextSame ==
    ASSUME TextInv, UNCHANGED <<input, lost, queue, view>>, Pending' = Pending
    PROVE  TextInv'
<1>1. /\ Unsaid(Pending') <=> Unsaid(Pending)
      /\ \A t : EndsWith(Pending', t) <=> EndsWith(Pending, t)
  OBVIOUS
<1> QED BY <1>1 DEF TextInv, Unsaid, EndsWith

(* A message of the platform whose events tell what it does.               *)
LEMMA TextPushed ==
    ASSUME Types, Types', TextInv, UNCHANGED <<batch, queue, view>>,
           NEW evs \in Seq(Evt), Emit(evs), Reports(evs)
    PROVE  TextInv'
<1>1. /\ queue \in Seq(Evt) /\ Pending \in Seq(Evt)
  BY WayTypes
<1>2. PICK new \in Seq(Evt) : Pushed(evs, new) /\ Pending' = Pending \o new
  BY PushesStep
<1>3. Idle(input'.ime)
  BY DEF TextInv, Reports
<1>4. ASSUME "ime" \notin lost', ~input'.ime.stuck
      PROVE  /\ \A t : EndsWith(Pending', t) => Allowed(input'.ime, input'.ime.text)
             /\ Unsaid(Pending') => \A t : EndsWith(queue, t) => Allowed(input'.ime, t)
             /\ Unsaid(Pending') /\ Unsaid(queue) => Allowed(input'.ime, view.text)
  <2>1. /\ "ime" \notin lost /\ ~input.ime.stuck
        /\ \A t : EndsWith(evs, t) => Allowed(input'.ime, input'.ime.text)
        /\ Unsaid(evs) => \A x : Allowed(input.ime, x) => Allowed(input'.ime, x)
        /\ Unsaid(evs) /\ Allowed(input.ime, input.ime.text) => Allowed(input'.ime, input'.ime.text)
    BY <1>2, <1>4 DEF Reports, Pushed
  <2>2. /\ \A t : EndsWith(Pending, t) => Allowed(input.ime, input.ime.text)
        /\ Unsaid(Pending) => \A t : EndsWith(queue, t) => Allowed(input.ime, t)
        /\ Unsaid(Pending) /\ Unsaid(queue) => Allowed(input.ime, view.text)
    BY <2>1 DEF TextInv
  <2>3. /\ Unsaid(new) <=> Unsaid(evs)
        /\ \A t : EndsWith(new, t) => EndsWith(evs, t)
    BY <1>2, <1>4, PushedSays
  <2>4. /\ Unsaid(Pending') <=> Unsaid(Pending) /\ Unsaid(new)
        /\ \A t : EndsWith(Pending', t) <=> EndsWith(new, t) \/ (EndsWith(Pending, t) /\ Unsaid(new))
    BY <1>1, <1>2, SaidConcat
  <2> QED BY <2>1, <2>2, <2>3, <2>4
<1>5. /\ Unsaid(queue') <=> Unsaid(queue)
      /\ \A t : EndsWith(queue', t) <=> EndsWith(queue, t)
      /\ view' = view
  OBVIOUS
<1> QED BY <1>3, <1>4, <1>5 DEF TextInv, Unsaid, EndsWith

(* A translation gives START and UPDATE the text of the moment.            *)
LEMMA TextRendered ==
    ASSUME Types, Types', TextInv, Renderings
    PROVE  TextInv'
<1>1. PICK e \in Evt, new \in Seq(Evt), rest \in Seq(Evt) :
        /\ Queued(e, new) /\ Pending = <<e>> \o rest /\ Pending' = rest
        /\ queue' = queue \o new /\ lost \subseteq lost' /\ view' = view /\ input' = input
  BY DEF Renderings
<1>2. queue \in Seq(Evt) /\ <<e>> \in Seq(Evt)
  BY WayTypes, Few
<1>3. /\ Unsaid(Pending) <=> ~Composes(e) /\ Unsaid(rest)
      /\ \A t : EndsWith(Pending, t)
                  <=> EndsWith(rest, t) \/ (Speaks(e) /\ e.text = t /\ Unsaid(rest))
  BY <1>1, <1>2, SaidFew, SaidConcat
<1>4. /\ Unsaid(queue') <=> Unsaid(queue) /\ Unsaid(new)
      /\ \A t : EndsWith(queue', t) <=> EndsWith(new, t) \/ (EndsWith(queue, t) /\ Unsaid(new))
  BY <1>1, <1>2, SaidConcat
<1>5. ASSUME "ime" \notin lost'
      PROVE  /\ Unsaid(new) <=> ~Composes(e)
             /\ \A t : EndsWith(new, t) => Speaks(e) /\ t = input.ime.text
  <2>1. CASE new = <<>> /\ About(e.kind) \subseteq lost'
    <3>1. ~Composes(e)
      BY <1>5, <2>1 DEF About, Composes
    <3> QED BY <2>1, <3>1, SaidFew
  <2>2. ASSUME NEW f \in Evt, Renders(e, f), new = <<f>>
        PROVE  /\ Unsaid(new) <=> ~Composes(e)
               /\ \A t : EndsWith(new, t) => Speaks(e) /\ t = input.ime.text
    BY <2>2, SaidFew DEF Renders, Speaks, Composes
  <2>3. ASSUME NEW f \in Evt, Renders(e, f), NEW g \in Evt, Companion(e, g), new = <<f, g>>
        PROVE  /\ Unsaid(new) <=> ~Composes(e)
               /\ \A t : EndsWith(new, t) => Speaks(e) /\ t = input.ime.text
    <3>1. ~Composes(e) /\ ~Composes(f) /\ ~Composes(g)
      BY <2>3 DEF Renders, Companion, Composes, Pointing
    <3>2. Unsaid(new)
      BY <2>3, <3>1, SaidFew
    <3>3. \A t : ~EndsWith(new, t)
      BY <3>2 DEF Unsaid, EndsWith, Speaks, Composes
    <3> QED BY <3>1, <3>2, <3>3
  <2> QED BY <1>1, <2>1, <2>2, <2>3 DEF Queued
<1>6. ASSUME "ime" \notin lost', ~input.ime.stuck
      PROVE  /\ \A t : EndsWith(rest, t) => Allowed(input.ime, input.ime.text)
             /\ Unsaid(rest) => \A t : EndsWith(queue', t) => Allowed(input.ime, t)
             /\ Unsaid(rest) /\ Unsaid(queue') => Allowed(input.ime, view.text)
  <2>1. /\ \A t : EndsWith(Pending, t) => Allowed(input.ime, input.ime.text)
        /\ Unsaid(Pending) => \A t : EndsWith(queue, t) => Allowed(input.ime, t)
        /\ Unsaid(Pending) /\ Unsaid(queue) => Allowed(input.ime, view.text)
    BY <1>1, <1>6 DEF TextInv
  <2> QED BY <1>3, <1>4, <1>5, <1>6, <2>1
<1>7. Idle(input.ime)
  BY DEF TextInv
<1> QED BY <1>1, <1>6, <1>7 DEF TextInv, Unsaid, EndsWith

(* The guest takes the oldest event from the queue.                        *)
LEMMA TextPopped ==
    ASSUME Types, Types', TextInv, Pops
    PROVE  TextInv'
<1>1. PICK e \in Evt, rest \in Seq(Evt) :
        /\ queue = <<e>> \o rest /\ queue' = rest /\ view' = Seen(view, e)
        /\ Pending' = Pending /\ input' = input /\ lost' = lost
  BY DEF Pops, platformVars
<1>2. <<e>> \in Seq(Evt)
  BY Few
<1>3. /\ Unsaid(queue) <=> ~Composes(e) /\ Unsaid(rest)
      /\ \A t : EndsWith(queue, t)
                  <=> EndsWith(rest, t) \/ (Speaks(e) /\ e.text = t /\ Unsaid(rest))
  BY <1>1, <1>2, SaidFew, SaidConcat
<1>4. view'.text = IF Speaks(e) THEN e.text ELSE IF Composes(e) THEN NoText ELSE view.text
  <2>1. view \in View
    BY DEF Types
  <2>2. Seen(view, e).text = CASE e.kind \in {"start", "update"}  -> e.text
                               [] e.kind \in {"commit", "cancel"} -> NoText
                               [] OTHER                           -> view.text
    BY <2>1, SeenIs
  <2>3. CASE Speaks(e)
    BY <1>1, <2>2, <2>3 DEF Speaks
  <2>4. CASE ~Speaks(e) /\ Composes(e)
    BY <1>1, <2>2, <2>4 DEF Speaks, Composes
  <2>5. CASE ~Speaks(e) /\ ~Composes(e)
    BY <1>1, <2>2, <2>5 DEF Speaks, Composes
  <2> QED BY <2>3, <2>4, <2>5
<1>5. ASSUME "ime" \notin lost, ~input.ime.stuck
      PROVE  /\ \A t : EndsWith(Pending, t) => Allowed(input.ime, input.ime.text)
             /\ Unsaid(Pending) => \A t : EndsWith(rest, t) => Allowed(input.ime, t)
             /\ Unsaid(Pending) /\ Unsaid(rest) => Allowed(input.ime, view'.text)
  <2>1. /\ \A t : EndsWith(Pending, t) => Allowed(input.ime, input.ime.text)
        /\ Unsaid(Pending) => \A t : EndsWith(queue, t) => Allowed(input.ime, t)
        /\ Unsaid(Pending) /\ Unsaid(queue) => Allowed(input.ime, view.text)
    BY <1>5 DEF TextInv
  <2>2. ASSUME Unsaid(Pending), Unsaid(rest) PROVE Allowed(input.ime, view'.text)
    <3>1. CASE Speaks(e)
      BY <1>3, <1>4, <2>1, <2>2, <3>1
    <3>2. CASE ~Speaks(e) /\ Composes(e)
      BY <1>4, <3>2 DEF Allowed
    <3>3. CASE ~Speaks(e) /\ ~Composes(e)
      BY <1>3, <1>4, <2>1, <2>2, <3>3
    <3> QED BY <3>1, <3>2, <3>3
  <2> QED BY <1>3, <2>1, <2>2
<1>6. Idle(input.ime)
  BY DEF TextInv
<1> QED BY <1>1, <1>5, <1>6 DEF TextInv, Unsaid, EndsWith

(* Every step keeps the invariant.                                         *)
LEMMA TextNext == Types /\ Types' /\ TextInv /\ [Next]_vars => TextInv'
<1> SUFFICES ASSUME Types, Types', TextInv, [Next]_vars PROVE TextInv'
  OBVIOUS
<1>1. CASE PollPads \/ TakeMessage \/ ResizeCall
  <2>1. UNCHANGED <<batch, queue, view>>
    BY <1>1 DEF PollPads, TakeMessage, ResizeCall
  <2>2. CASE UNCHANGED platformVars
    <3>1. Pending' = Pending
      BY <2>1, <2>2 DEF platformVars, Pending
    <3> QED BY <2>1, <2>2, <3>1, TextSame DEF platformVars
  <2>3. CASE ~UNCHANGED platformVars
    <3>1. \E evs \in Seq(Evt) : Emit(evs) /\ Reports(evs)
      BY <1>1, <2>3, TextReports, OthersReport, PollReports
         DEF TakeMessage, Message, ResizeCall, PollPads, Types, TypeOK
    <3> QED BY <2>1, <3>1, TextPushed
  <2> QED BY <2>2, <2>3
<1>2. CASE Stays
  BY <1>2, TextSame DEF Stays
<1>3. CASE TakeBatch \/ Translate \/ PollReturns
  BY <1>2, <1>3, TextRendered, TextPopped, StaysStep, RendersStep, PopsStep
<1>4. CASE \/ RequestPad \/ FrameBegins \/ Poll \/ MainReturns \/ LoopTest \/ FrameReturns
           \/ Exit \/ UNCHANGED vars
  <2>1. UNCHANGED <<platformVars, batch, queue, view>>
    BY <1>4 DEF RequestPad, FrameBegins, Poll, MainReturns, LoopTest, FrameReturns, Exit, vars
  <2>2. Pending' = Pending
    BY <2>1 DEF Pending, platformVars
  <2> QED BY <2>1, <2>2, TextSame DEF platformVars
<1> QED BY <1>1, <1>3, <1>4, Steps

(* When no composition runs, the text that may stay is none.               *)
LEMMA TextEnds == Types /\ TextInv => CompositionEnds
<1> SUFFICES ASSUME Types, TextInv, ~input.ime.on, ~input.ime.stuck, "ime" \notin lost
             PROVE  /\ view.text # NoText => \E j \in 1 .. Len(OnTheWay) : Composing(j)
                    /\ \A i \in 1 .. Len(OnTheWay) :
                         Shows(i) => \E j \in i + 1 .. Len(OnTheWay) : Composing(j)
  BY DEF CompositionEnds
<1>1. /\ input.ime.text = NoText
      /\ \A x : Allowed(input.ime, x) => x = NoText
  BY DEF TextInv, Idle, Allowed
<1>2. /\ Unsaid(Pending) => \A t : EndsWith(queue, t) => t = NoText
      /\ Unsaid(Pending) /\ Unsaid(queue) => view.text = NoText
  BY <1>1 DEF TextInv
<1>3. /\ queue \in Seq(Evt) /\ Pending \in Seq(Evt) /\ OnTheWay = queue \o Pending
      /\ Len(queue) \in Nat /\ Len(Pending) \in Nat
      /\ Len(OnTheWay) = Len(queue) + Len(Pending) /\ Len(OnTheWay) \in Nat
  BY WayTypes
<1>4. /\ \A i \in 1 .. Len(queue) : i \in 1 .. Len(OnTheWay) /\ OnTheWay[i] = queue[i]
      /\ \A j \in 1 .. Len(Pending) : /\ Len(queue) + j \in 1 .. Len(OnTheWay)
                                      /\ OnTheWay[Len(queue) + j] = Pending[j]
  BY <1>3, ConcatElements
<1>5. \A i : Composing(i) <=> Composes(OnTheWay[i])
  BY DEF Composing, Composes
<1>6. ASSUME view.text # NoText PROVE \E j \in 1 .. Len(OnTheWay) : Composing(j)
  <2>1. Unsaid(OnTheWay) <=> Unsaid(queue) /\ Unsaid(Pending)
    BY <1>3, SaidConcat
  <2> QED BY <1>2, <1>5, <1>6, <2>1 DEF Unsaid
<1>7. ASSUME NEW i \in 1 .. Len(OnTheWay), Shows(i)
      PROVE  \E j \in i + 1 .. Len(OnTheWay) : Composing(j)
  <2>1. i \in 1 .. Len(queue) /\ Speaks(OnTheWay[i]) /\ OnTheWay[i].text # NoText
    BY <1>1, <1>3, <1>7 DEF Shows, Speaks
  <2>2. CASE ~Unsaid(Pending)
    <3>1. PICK j \in 1 .. Len(Pending) : Composes(Pending[j])
      BY <2>2 DEF Unsaid
    <3>2. PICK k \in 1 .. Len(OnTheWay) : k = Len(queue) + j /\ Composes(OnTheWay[k])
      BY <1>4, <3>1
    <3>3. k \in i + 1 .. Len(OnTheWay)
      BY <1>3, <2>1, <3>1, <3>2
    <3> QED BY <1>5, <3>2, <3>3
  <2>3. CASE Unsaid(Pending)
    <3>1. ~EndsWith(queue, OnTheWay[i].text)
      BY <1>2, <2>1, <2>3
    <3>2. PICK j \in 1 .. Len(queue) : i < j /\ Composes(queue[j])
      BY <1>4, <2>1, <3>1 DEF EndsWith
    <3>3. j \in i + 1 .. Len(OnTheWay) /\ Composes(OnTheWay[j])
      BY <1>3, <1>4, <2>1, <3>2
    <3> QED BY <1>5, <3>3
  <2> QED BY <2>2, <2>3
<1> QED BY <1>6, <1>7

(* No text of a composition that has ended stays with the guest.           *)
THEOREM TextTakenBack == Spec => []CompositionEnds
<1>1. Types /\ TextInv => CompositionEnds
  BY TextEnds
<1>2. Types /\ [Next]_vars => Types'
  BY TypesNext
<1> QED BY <1>1, <1>2, TextInit, TextNext, TypesHold, PTL DEF Spec
=============================================================================
