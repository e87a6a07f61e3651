------------------------------- MODULE PageIo -------------------------------
(***************************************************************************)
(* wapi_io of a page (runtime/browser/wapi_shim.js): what becomes of an    *)
(* operation after submit -- completed at once, by a promise, a timer, a   *)
(* socket, or again and again -- with cancel, poll, flush, the handles     *)
(* that operations need and give, the bytes of sockets, serial ports and   *)
(* MIDI inputs, and the items of a drop.                                   *)
(*                                                                         *)
(* A page runs one import, callback or listener at a time, to its end; the *)
(* browser settles promises, timers and sockets between them.  A submit of *)
(* several operations is their submits one after the other.  Opcodes with  *)
(* the same control are told apart by a table: the form of the answer, the *)
(* kind of handle needed, the kind given.                                  *)
(***************************************************************************)
EXTENDS Integers, SequencesExt

CONSTANTS IoPlans,   \* bound: opcodes, first objects and budgets of a behaviour
          UserData,  \* user_data of an operation
          MaxCap,    \* bound: the buffer of a read
          MaxQueue   \* bound: events that wait, for what sends many

VARIABLES plan,     \* one of IoPlans
          ops,      \* the operations submitted
          pend,     \* _ioPending: those that cancel finds
          queue,    \* _eventQueue: <<"io", op>> and <<"drop", d>>
          objs,     \* handles: the objects ever put in, in order of their numbers
          stash,    \* _dropItems: <<drop, item>>
          drops,    \* the drops on the canvas, by state: their files loading...
          mixed     \* history: a drop came while the files of another loaded

dropVars == <<stash, drops, mixed>>
ioVars == <<plan, ops, pend, queue, objs, dropVars>>

-----------------------------------------------------------------------------
(* The opcodes.                                                            *)

Entry(form, needs, gives) == [form |-> form, needs |-> needs, gives |-> gives]
Now(needs)          == Entry("now", needs, "none")
Ask(needs, gives)   == Entry("ask", needs, gives)
Form(form, needs)   == Entry(form, needs, "none")

(* The switch of submit, and the three modules it dispatches to.           *)
Core ==
    [NOP |-> Now("none"), TIMEOUT |-> Form("timer", "none"), LOG |-> Form("log", "none"),
     READ |-> Now("file"), WRITE |-> Now("file"), LISTEN |-> Now("none"),
     CONNECT |-> Entry("connect", "none", "websocket"),
     SEND |-> Now("websocket"), RECV |-> Form("take", "websocket"),
     NOSYS |-> Now("none"), CAP_REQUEST |-> Now("none")]
Bodies == [HTTP_FETCH |-> Ask("none", "none"), COMPRESS |-> Ask("none", "none"),
           FONT_GET_BYTES |-> Ask("none", "none")]

Transfers == [TRANSFER_OFFER |-> Form("parts", "none"), CLIPBOARD_READ |-> Form("clip", "none"),
              DROP_READ |-> Now("none")]
Bluetooth ==
    [BT_DEVICE_REQUEST |-> Ask("none", "bt_device"), BT_CONNECT |-> Form("open", "bt_device"),
     BT_SERVICE_GET |-> Ask("bt_device", "bt_service"),
     BT_CHARACTERISTIC_GET |-> Ask("bt_service", "bt_char"),
     BT_VALUE_READ |-> Ask("bt_char", "none"), BT_VALUE_WRITE |-> Ask("bt_char", "none"),
     BT_NOTIFICATIONS_START |-> Form("listen", "bt_char")]
Usb ==
    [USB_DEVICE_REQUEST |-> Ask("none", "usb"), USB_OPEN |-> Form("open", "usb"),
     USB_INTERFACE_CLAIM |-> Ask("usb", "none"), USB_TRANSFER_IN |-> Ask("usb", "none"),
     USB_TRANSFER_OUT |-> Ask("usb", "none"), USB_CONTROL_TRANSFER |-> Ask("usb", "none")]
Serial ==
    [SERIAL_PORT_REQUEST |-> Ask("none", "serial"), SERIAL_OPEN |-> Form("open", "serial"),
     SERIAL_READ |-> Form("take", "serial"), SERIAL_WRITE |-> Ask("serial", "none")]
Midi == [MIDI_SEND |-> Now("midi_out"), MIDI_RECV |-> Form("take", "midi_in")]
Nfc == [NFC_SCAN_START |-> Form("nfc", "none"), NFC_WRITE |-> Ask("none", "none")]
Screens == [CAPTURE_REQUEST |-> Ask("none", "screen_cap"), XR_SESSION_REQUEST |-> Ask("none", "xr_session"),
            XR_IS_SUPPORTED |-> Ask("none", "none"), XR_REF_SPACE_CREATE |-> Ask("xr_session", "xr_space")]
Dialogs == [DIALOG_FILE_OPEN |-> Ask("none", "none"), DIALOG_FILE_SAVE |-> Ask("none", "none"),
            DIALOG_FOLDER_OPEN |-> Ask("none", "none"), DIALOG_MESSAGEBOX |-> Now("none"),
            DIALOG_PICK_COLOR |-> Ask("none", "none"), DIALOG_PICK_FONT |-> Now("none")]
Pickers == [AUTHN |-> Ask("none", "none"), BIO_AUTHENTICATE |-> Ask("none", "none"),
            PAY |-> Ask("none", "none"), CONTACTS_PICK |-> Ask("none", "none"),
            EYEDROPPER_PICK |-> Ask("none", "none")]
Geo    == [GEO_POSITION_GET |-> Ask("none", "none"), GEO_POSITION_WATCH |-> Form("geo", "none")]
Speech == [SPEECH_SPEAK |-> Form("speak", "none")]
Crypto ==
    [CRYPTO_HASH |-> Ask("none", "none"), CRYPTO_HASH_CREATE |-> Entry("make", "none", "hashctx"),
     CRYPTO_HASH_UPDATE |-> Now("hashctx"), CRYPTO_HASH_FINISH |-> Form("finish", "hashctx"),
     CRYPTO_CRYPT |-> Ask("cryptokey", "none"), CRYPTO_KEY |-> Ask("none", "cryptokey")]
Power == [POWER_INFO_GET |-> Ask("none", "none"), POWER_WAKE_ACQUIRE |-> Ask("none", "wakelock"),
          POWER_IDLE_START |-> Form("idle", "none")]
Roles == [ROLE_REQUEST |-> Entry("parts", "none", "role"), ROLE_REPICK |-> Now("none")]
Others == [NOTIFY_SHOW |-> Entry("make", "none", "notification"), FONT_FAMILY_INFO |-> Ask("none", "none"),
           FWATCH_ADD |-> Entry("fwatch", "none", "fwatch"), FWATCH_REMOVE |-> Form("unwatch", "fwatch"),
           BARCODE_IMAGE |-> Ask("none", "none"), BARCODE_CAMERA |-> Ask("camera", "none")]

Table == Core @@ Bodies @@ Transfers @@ Bluetooth @@ Usb @@ Serial @@ Midi @@ Nfc @@ Screens
           @@ Dialogs @@ Pickers @@ Geo @@ Speech @@ Crypto @@ Power @@ Roles @@ Others

Opcode     == DOMAIN Table
FormOf(i)  == Table[ops[i].code].form
Gives(i)   == Table[ops[i].code].gives

(* Audio, sensor and HID handles stand by for "camera".                    *)
RoleKind   == {"camera", "midi_in", "midi_out"}
StreamKind == {"websocket", "serial", "midi_in"}
ObjKind    == {Table[code].needs : code \in Opcode} \cup {Table[code].gives : code \in Opcode}
                \cup RoleKind \cup {"websocket", "fwatch", "geo_watch", "tts"}
Handle     == 1 .. Len(objs)

ASSUME IoAssumption ==
    \A p \in IoPlans : p.codes \subseteq Opcode /\ p.has \in Seq(ObjKind)

(* open: bt_device.server, usb.opened, serial.opened, ws.readyState; rx:   *)
(* _recvQueue, rxQueue, inbox; notify: the listener of bt_char.notify.     *)
Object(kind) == [kind |-> kind, in |-> TRUE, open |-> kind = "websocket",
                 notify |-> 0, rx |-> <<>>, sent |-> 0, got |-> <<>>]

(* The handle is there, of the kind, and opened where the handler looks.   *)
Fit(code, h) ==
    \/ h = 0 /\ Table[code].needs = "none"
    \/ /\ h \in Handle /\ objs[h].in /\ objs[h].kind = Table[code].needs
       /\ code \in {"SERIAL_READ", "SERIAL_WRITE", "BT_SERVICE_GET"} => objs[h].open

-----------------------------------------------------------------------------
(* Submitting and completing.                                              *)

(* finals counts (up to two) the completions pushed without the flag MORE; *)
(* late: cancelled, or failed, when the socket could still answer.         *)
NewOp(code, on, ud, at, parts) ==
    [code |-> code, on |-> on, ud |-> ud, at |-> at, parts |-> parts,
     finals |-> 0, said |-> FALSE, late |-> FALSE]

Self == Len(ops) + 1

Submitted(code, on, ud, at, parts) == Append(ops, NewOp(code, on, ud, at, parts))

Allowed(code) == code \in plan.codes /\ Len(ops) < plan.ops

(* Op i of all completes, more to follow or not, and is at at then.        *)
Says(all, i, at, more) ==
    /\ ops' = [all EXCEPT ![i].at = at, ![i].said = TRUE,
                          ![i].finals = IF more \/ @ = 2 THEN @ ELSE @ + 1]
    /\ queue' = Append(queue, <<"io", i>>)

(* Answered by the handler itself: an opcode that is, or an error: a wrong *)
(* handle, a capability not granted, an API this browser lacks.            *)
AtOnce(code, h, ud) ==
    LET form == Table[code].form
    IN  /\ Allowed(code) /\ form \notin {"timer", "log"}
        /\ form = "now" \/ Table[code].needs = "none" \/ ~Fit(code, h)
        /\ Says(Submitted(code, h, ud, "done", 0), Self, "done", FALSE)
        /\ UNCHANGED <<plan, pend, objs, dropVars>>

(* LOG: fire and forget.                                                   *)
Logs(code, ud) ==
    /\ Allowed(code) /\ Table[code].form = "log"
    /\ ops' = Submitted(code, 0, ud, "done", 0)
    /\ UNCHANGED <<plan, pend, queue, objs, dropVars>>

(* TIMEOUT and CONNECT are the only ones put into _ioPending.              *)
Waits(code, ud) ==
    /\ Allowed(code) /\ Table[code].form \in {"timer", "connect"}
    /\ ops' = Submitted(code, 0, ud, Table[code].form, 0)
    /\ pend' = pend \cup {Self}
    /\ UNCHANGED <<plan, queue, objs, dropVars>>

(* A new object at once, and an answer: the last one, the first of several *)
(* (positions, changes: the observer of FWATCH never observes), or none    *)
(* before the utterance ends.                                              *)
Makes(code, ud) ==
    /\ Allowed(code)
    /\ \/ /\ Table[code].form = "make"
          /\ objs' = Append(objs, Object(Table[code].gives))
          /\ Says(Submitted(code, 0, ud, "done", 0), Self, "done", FALSE)
       \/ /\ Table[code].form = "fwatch" /\ objs' = Append(objs, Object("fwatch"))
          /\ Says(Submitted(code, 0, ud, "done", 0), Self, "done", TRUE)
       \/ /\ Table[code].form = "geo" /\ objs' = Append(objs, Object("geo_watch"))
          /\ Says(Submitted(code, Len(objs) + 1, ud, "watch", 0), Self, "watch", TRUE)
       \/ /\ Table[code].form = "speak" /\ objs' = Append(objs, Object("tts"))
          /\ ops' = Submitted(code, 0, ud, "voice", 0) /\ UNCHANGED queue
    /\ UNCHANGED <<plan, pend, dropVars>>

Unwatches(code, h, ud) ==
    /\ Allowed(code) /\ Table[code].form = "unwatch" /\ Fit(code, h)
    /\ objs' = [objs EXCEPT ![h].in = FALSE]
    /\ Says(Submitted(code, h, ud, "done", 0), Self, "done", FALSE)
    /\ UNCHANGED <<plan, pend, dropVars>>

(* Promises are made; roles and offers make one for each role or mode.     *)
Asks(code, h, ud) ==
    /\ Allowed(code) /\ Fit(code, h)
    /\ Table[code].form \in {"ask", "open", "finish", "listen", "clip", "idle", "parts"}
    /\ \E n \in IF Table[code].form = "parts" THEN 1 .. 2 ELSE {1} :
         ops' = Submitted(code, h, ud, "promise", n)
    /\ UNCHANGED <<plan, pend, queue, objs, dropVars>>

(* NFC_SCAN_START says OK before its promise settles.                      *)
Scans(code, ud) ==
    /\ Allowed(code) /\ Table[code].form = "nfc"
    /\ Says(Submitted(code, 0, ud, "promise", 1), Self, "promise", TRUE)
    /\ UNCHANGED <<plan, pend, objs, dropVars>>

-----------------------------------------------------------------------------
(* What the browser calls back.                                            *)

Here(i, at) == i \in DOMAIN ops /\ ops[i].at = at
Goes(i, at) == ops' = [ops EXCEPT ![i].at = at] /\ UNCHANGED queue
Ends(i)     == Says(ops, i, "done", FALSE)

Fulfilled(i) ==
    LET form == FormOf(i)
        h == ops[i].on
    IN  /\ Here(i, "promise")
        /\ \/ form = "ask" /\ Ends(i)
              /\ objs' = IF Gives(i) = "none" THEN objs ELSE Append(objs, Object(Gives(i)))
           \/ form = "open" /\ Ends(i) /\ objs' = [objs EXCEPT ![h].open = TRUE]
           \/ form = "finish" /\ Ends(i) /\ objs' = [objs EXCEPT ![h].in = FALSE]
           \/ form = "listen" /\ Says(ops, i, "watch", TRUE) /\ objs' = [objs EXCEPT ![h].notify = i]
           \/ form = "nfc" /\ Goes(i, "watch") /\ UNCHANGED objs
           \/ form = "clip" /\ (Ends(i) \/ Goes(i, "blob")) /\ UNCHANGED objs
           \/ form = "idle" /\ (Ends(i) \/ Goes(i, "start")) /\ UNCHANGED objs
        /\ UNCHANGED <<plan, pend, dropVars>>

(* Mutant: the second handler of then is forgotten.                        *)
Heard_not(i) == FALSE

(* The rejection has a handler.                                            *)
Heard(i) == FormOf(i) # "idle"

Rejected(i) ==
    /\ Here(i, "promise") /\ FormOf(i) # "parts"
    /\ IF Heard(i) THEN Ends(i) ELSE Goes(i, "lost")
    /\ UNCHANGED <<plan, pend, objs, dropVars>>

(* One of several promises: a role is granted or not, a mode served or     *)
(* not; the operation completes with the last.                             *)
PartSettled(i) ==
    /\ Here(i, "promise") /\ FormOf(i) = "parts"
    /\ \/ UNCHANGED objs
       \/ /\ Gives(i) = "role"
          /\ \E kind \in RoleKind : objs' = Append(objs, Object(kind))
    /\ IF ops[i].parts = 1 THEN Ends(i)
       ELSE ops' = [ops EXCEPT ![i].parts = @ - 1] /\ UNCHANGED queue
    /\ UNCHANGED <<plan, pend, dropVars>>

(* The idle detector starts or not; the second promise of a clipboard read *)
(* has no handler for a rejection; an utterance ends.                      *)
Continues(i) ==
    /\ \/ Here(i, "start") /\ (Says(ops, i, "watch", TRUE) \/ Ends(i))
       \/ Here(i, "blob") /\ (Ends(i) \/ Goes(i, "lost"))
       \/ Here(i, "voice") /\ Ends(i)
    /\ UNCHANGED <<plan, pend, objs, dropVars>>

Expires(i) ==
    /\ Here(i, "timer") /\ Ends(i) /\ pend' = pend \ {i}
    /\ UNCHANGED <<plan, objs, dropVars>>

SocketOpens(i) ==
    /\ Here(i, "connect") /\ Says(ops, i, "linked", FALSE)
    /\ objs' = Append(objs, Object("websocket")) /\ pend' = pend \ {i}
    /\ UNCHANGED <<plan, dropVars>>

(* onerror, before the socket opened or after.                             *)
SocketFails(i) ==
    /\ i \in DOMAIN ops /\ ops[i].at \in {"connect", "linked"}
    /\ LET all == IF ops[i].at = "linked" THEN [ops EXCEPT ![i].late = TRUE] ELSE ops
       IN  Says(all, i, "done", FALSE)
    /\ pend' = pend \ {i}
    /\ UNCHANGED <<plan, objs, dropVars>>

Settles(i) == Fulfilled(i) \/ Rejected(i) \/ PartSettled(i) \/ Continues(i)
                \/ Expires(i) \/ SocketOpens(i) \/ SocketFails(i)

(* A value, a tag, a position, a change: only values and tags come with    *)
(* the flag MORE, and errors of positions.                                 *)
Watched(i) ==
    /\ Here(i, "watch") /\ Len(queue) < MaxQueue
    /\ \/ FormOf(i) = "listen" /\ objs[ops[i].on].notify # 0 /\ Says(ops, i, "watch", TRUE)
       \/ FormOf(i) = "nfc" /\ Says(ops, i, "watch", TRUE)
       \/ FormOf(i) = "geo" /\ \E more \in BOOLEAN : Says(ops, i, "watch", more)
       \/ FormOf(i) = "idle" /\ Says(ops, i, "watch", FALSE)
    /\ UNCHANGED <<plan, pend, objs, dropVars>>

-----------------------------------------------------------------------------
(* The guest's other imports.                                              *)

(* Mutant: the timer is not cleared.                                       *)
Cancelled_runs(op) == [op EXCEPT !.late = TRUE]

(* clearTimeout; a socket goes on.                                         *)
Cancelled(op) == IF op.at = "timer" THEN [op EXCEPT !.at = "done"] ELSE [op EXCEPT !.late = TRUE]

(* wapi_io.cancel: the first in _ioPending with the user_data.             *)
Cancel(ud) ==
    LET found == {i \in pend : ops[i].ud = ud}
    IN  /\ found # {}
        /\ LET i == CHOOSE i \in found : \A j \in found : i <= j
               op == Cancelled(ops[i])
           IN  Says([ops EXCEPT ![i] = op], i, op.at, FALSE) /\ pend' = pend \ {i}
        /\ UNCHANGED <<plan, objs, dropVars>>

Poll ==
    /\ queue # <<>> /\ queue' = Tail(queue)
    /\ UNCHANGED <<plan, ops, pend, objs, dropVars>>

(* The events of q that are of other types.                                *)
Kept(q, types) ==
    LET kept[k \in 0 .. Len(q)] ==
          IF k = 0 THEN <<>>
          ELSE IF q[k][1] \in types THEN kept[k - 1] ELSE Append(kept[k - 1], q[k])
    IN  kept[Len(q)]

(* wapi_io.flush: all events, or those of a type.                          *)
Flush(types) ==
    /\ queue # <<>> /\ queue' = Kept(queue, types)
    /\ UNCHANGED <<plan, ops, pend, objs, dropVars>>

(* wapi_filesystem.close takes any handle out of the table.                *)
Removes(h) ==
    /\ h \in Handle /\ objs[h].in
    /\ objs' = [objs EXCEPT ![h].in = FALSE]
    /\ UNCHANGED <<plan, ops, pend, queue, dropVars>>

(* close of USB and serial ports, disconnect, stop_notifications and       *)
(* clear_watch.                                                            *)
Stops(h) ==
    /\ h \in Handle /\ objs[h].in
    /\ \/ /\ objs[h].kind \in {"bt_device", "usb", "serial"}
          /\ objs' = [objs EXCEPT ![h].open = FALSE] /\ UNCHANGED ops
       \/ /\ objs[h].notify # 0 /\ objs' = [objs EXCEPT ![h].notify = 0]
          /\ ops' = [ops EXCEPT ![objs[h].notify].at = "done"]
       \/ /\ objs[h].kind = "geo_watch" /\ objs' = [objs EXCEPT ![h].in = FALSE]
          /\ ops' = [i \in DOMAIN ops |->
                 IF ops[i].at = "watch" /\ ops[i].on = h THEN [ops[i] EXCEPT !.at = "done"] ELSE ops[i]]
    /\ UNCHANGED <<plan, pend, queue, dropVars>>

-----------------------------------------------------------------------------
(* Bytes.  They are numbered in the order of their arrival.                *)

Arrives(h, n) ==
    /\ h \in Handle /\ objs[h].kind \in StreamKind
    /\ objs[h].kind = "serial" => objs[h].open
    /\ objs[h].sent + n <= plan.sent
    /\ objs' = [objs EXCEPT ![h].sent = @ + n,
                            ![h].rx = Append(@, [k \in 1 .. n |-> objs[h].sent + k])]
    /\ UNCHANGED <<plan, ops, pend, queue, dropVars>>

(* The number of bytes in the first chunks of rx.                          *)
BytesIn(rx) ==
    LET sum[k \in 0 .. Len(rx)] == IF k = 0 THEN 0 ELSE sum[k - 1] + Len(rx[k])
    IN  sum

(* Mutant: the rest of a chunk is not put back.                            *)
Without_rest(rx, n) ==
    SubSeq(rx, Cardinality({k \in 0 .. Len(rx) : BytesIn(rx)[k] < n}) + 1, Len(rx))

(* rx without its first n bytes.                                           *)
Without(rx, n) ==
    LET whole == Cardinality({k \in 1 .. Len(rx) : BytesIn(rx)[k] <= n})
        into == n - BytesIn(rx)[whole]
        left == SubSeq(rx, whole + 1, Len(rx))
    IN  IF into = 0 THEN left
        ELSE <<SubSeq(Head(left), into + 1, Len(Head(left)))>> \o Tail(left)

(* What a read with a buffer of cap takes: of one chunk, but on a serial   *)
(* port; the rest of a MIDI message is lost.                               *)
TakenOf(kind, rx, cap) ==
    LET all == FlattenSeq(rx)
        n == IF rx = <<>> THEN 0
             ELSE Min({cap, IF kind = "serial" THEN Len(all) ELSE Len(Head(rx))})
    IN  [got |-> SubSeq(all, 1, n),
         rx |-> IF kind = "midi_in" /\ rx # <<>> THEN Tail(rx) ELSE Without(rx, n)]

(* RECV, SERIAL_READ and MIDI_RECV; with nothing there, WAPI_ERR_AGAIN.    *)
Takes(code, h, ud, cap) ==
    LET taken == TakenOf(objs[h].kind, objs[h].rx, cap)
    IN  /\ Allowed(code) /\ Table[code].form = "take" /\ Fit(code, h)
        /\ objs' = [objs EXCEPT ![h].got = @ \o taken.got, ![h].rx = taken.rx]
        /\ Says(Submitted(code, h, ud, "done", 0), Self, "done", FALSE)
        /\ UNCHANGED <<plan, pend, dropVars>>

-----------------------------------------------------------------------------
(* Drops on the canvas; what they bring replaces what was there.           *)

Stashed(d, items) == {d} \X items

Told(d) == queue' = Append(queue, <<"drop", d>>)

(* Texts are there at once, and files, if any, later.                      *)
Drop(texts, files) ==
    LET d == Len(drops) + 1
    IN  /\ d <= plan.drops
        /\ stash' = Stashed(d, texts)
        /\ drops' = Append(drops, IF files THEN "loading" ELSE "told")
        /\ IF files THEN UNCHANGED queue ELSE Told(d)
        /\ mixed' = (mixed \/ \E k \in DOMAIN drops : drops[k] = "loading")
        /\ UNCHANGED <<plan, ops, pend, objs>>

(* The files of d; if one of them fails, the drop is not told of at all.   *)
FilesLoaded(d) ==
    /\ d \in DOMAIN drops /\ drops[d] = "loading"
    /\ \/ /\ stash' = stash \cup ({d} \X {"file"}) /\ Told(d)
          /\ drops' = [drops EXCEPT ![d] = "told"]
       \/ drops' = [drops EXCEPT ![d] = "lost"] /\ UNCHANGED <<stash, queue>>
    /\ UNCHANGED <<plan, ops, pend, objs, mixed>>

(* wapi_transfer.revoke.                                                   *)
Revoke ==
    /\ stash # {} /\ stash' = {}
    /\ UNCHANGED <<plan, ops, pend, queue, objs, drops, mixed>>

-----------------------------------------------------------------------------
IoInit ==
    /\ plan \in IoPlans
    /\ ops = <<>> /\ pend = {} /\ queue = <<>>
    /\ objs = [h \in DOMAIN plan.has |-> Object(plan.has[h])]
    /\ stash = {} /\ drops = <<>> /\ mixed = FALSE

IoStep ==
    \/ \E code \in plan.codes, ud \in UserData :
         \/ Logs(code, ud) \/ Waits(code, ud) \/ Makes(code, ud) \/ Scans(code, ud)
         \/ \E h \in Handle \cup {0} : AtOnce(code, h, ud) \/ Asks(code, h, ud)
         \/ \E h \in Handle : Unwatches(code, h, ud) \/ \E cap \in 1 .. MaxCap : Takes(code, h, ud, cap)
    \/ \E i \in DOMAIN ops : Settles(i) \/ Watched(i)
    \/ \E ud \in UserData : Cancel(ud)
    \/ Poll \/ \E types \in {{"io"}, {"drop"}, {"io", "drop"}} : Flush(types)
    \/ \E h \in Handle : Removes(h) \/ Stops(h) \/ \E n \in 1 .. 2 : Arrives(h, n)
    \/ \E texts \in {{}, {"text"}}, files \in BOOLEAN : Drop(texts, files)
    \/ \E d \in DOMAIN drops : FilesLoaded(d)
    \/ Revoke

(* The browser settles what it began, and the user answers.                *)
Settling == \E i \in DOMAIN ops : Settles(i)

(* Nothing of this is to come.                                             *)
IoQuiet == \A i \in DOMAIN ops : ops[i].at \in {"linked", "watch", "done", "lost"}

-----------------------------------------------------------------------------
(* Parts of the properties of Browser.                                     *)

Places == {"promise", "start", "blob", "voice", "timer", "connect", "linked", "watch", "done", "lost"}

IoTypeOK ==
    /\ plan \in IoPlans /\ pend \subseteq DOMAIN ops
    /\ \A i \in DOMAIN ops :
         /\ ops[i].code \in Opcode /\ ops[i].on \in {0} \cup Handle /\ ops[i].ud \in UserData
         /\ ops[i].at \in Places /\ ops[i].parts \in 0 .. 2 /\ ops[i].finals \in 0 .. 2
         /\ ops[i].said \in BOOLEAN /\ ops[i].late \in BOOLEAN
    /\ \A k \in DOMAIN queue : queue[k] \in {"io", "drop"} \X Nat
    /\ \A h \in Handle : DOMAIN objs[h] = DOMAIN Object("any")
    /\ stash \subseteq (DOMAIN drops) \X {"text", "file"}
    /\ drops \in Seq({"loading", "told", "lost"}) /\ mixed \in BOOLEAN

(* One last completion for each operation, and cancel finds exactly those  *)
(* it can still end.  The code breaks this for a socket that is answered   *)
(* after a cancellation, or fails after it opened (late), and for what     *)
(* comes without MORE from a watch.                                        *)
OneEnd ==
    \A i \in DOMAIN ops :
      /\ ops[i].finals > 1 => ((ops[i].late /\ FormOf(i) = "connect") \/ FormOf(i) \in {"geo", "idle"})
      /\ i \in pend <=> (ops[i].at = "timer" \/ (ops[i].at = "connect" /\ ~ops[i].late))
      /\ ops[i].at = "done" => ops[i].said \/ FormOf(i) = "log"

(* Reads return the bytes in the order they came, none twice, and none is  *)
(* missing but of MIDI messages longer than the buffer.                    *)
InOrder ==
    \A h \in Handle :
      LET x == objs[h]
      IN  /\ \A j, k \in DOMAIN x.got : j < k => x.got[j] < x.got[k]
          /\ x.kind # "midi_in" => x.got \o FlattenSeq(x.rx) = [k \in 1 .. x.sent |-> k]

(* What is read of a drop is of that drop alone, unless its files were     *)
(* still loading when the next came.                                       *)
OneDrop == mixed \/ \A x \in stash : x[1] = Len(drops)

(* Every operation has been answered -- but a read of a clipboard item or  *)
(* the start of an idle detector whose rejection nobody hears.             *)
NoneOpen ==
    \A i \in DOMAIN ops :
      ops[i].said \/ FormOf(i) = "log" \/ (ops[i].at = "lost" /\ FormOf(i) \in {"clip", "idle"})
=============================================================================
