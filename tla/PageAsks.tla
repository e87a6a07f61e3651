------------------------------ MODULE PageAsks ------------------------------
(***************************************************************************)
(* The polled imports of a page (runtime/browser/wapi_shim.js): a guest    *)
(* calls, is told WAPI_ERR_AGAIN, and calls again until there is an        *)
(* answer.  The shim remembers what it was asked under a key made of the   *)
(* import and a pointer or handle of the caller.  Also the wake locks,     *)
(* whose handle is given before the lock.                                  *)
(*                                                                         *)
(* The guest has one request at a key at a time and goes on calling until  *)
(* it is answered.  What an import answers is told apart by the request    *)
(* it was started for.  The numbers of handles are given once, so what is  *)
(* kept under the number of an object is lost with its handle.             *)
(***************************************************************************)
EXTENDS PageIo

CONSTANT AskKey   \* pointers that the guest passes for results

VARIABLES asks,    \* the states the shim keeps: import, key, state, request
          reqs,    \* the requests the guest waits for
          asked,   \* number of requests and closes so far
          opened,  \* devices that are open: <<import, key>>
          misled,  \* history: imports that gave another request's answer
          locks    \* wake locks: the lock, whether its handle is there, and
                   \* whether the entry of the handle says it was released

askVars == <<asks, reqs, asked, opened, misled, locks>>

-----------------------------------------------------------------------------
(* keyed: asyncOp, cryptoAsync and the like.  hasty: who asks while the    *)
(* answer is pending is told of an error, and the state stays.  single:    *)
(* one state for the page.  grant: an answer that is kept.  open, link: a  *)
(* call on an open device is answered without a look at the state; link    *)
(* keeps its state with the device.  ByHandle: the key has the number of a *)
(* handle.  OnObject: the key is a pointer, but the call is about a handle.*)
UsbImports     == {"usb.request_device", "usb.claim_interface", "usb.transfer_in", "usb.transfer_out",
                   "usb.control_transfer"}
SerialImports  == {"serial.request_port"}
CameraImports  == {"camera.open"}
CaptureImports == {"capture.request"}
XrImports      == {"xr.request_session", "xr.create_ref_space"}
ContactImports == {"contacts.pick"}
CryptoImports  == {"crypto", "crypto.hash_finish", "crypto.cipher"}
AuthnImports   == {"authn.create_credential", "authn.get_assertion"}
BarcodeImports == {"barcode.detect", "barcode.detect_from_camera"}
PickerImports  == {"dialog.open_file", "eyedropper_pick"}
BtImports      == {"bt.request_device", "bt.get_service", "bt.get_characteristic", "bt.read_value"}
DialogImports  == {"dialog.save_file", "dialog.open_folder", "dialog.pick_color"}

Keyed == UsbImports \cup SerialImports \cup CameraImports \cup CaptureImports \cup XrImports
           \cup ContactImports \cup CryptoImports \cup AuthnImports \cup BarcodeImports \cup PickerImports
Hasty  == BtImports \cup DialogImports
Single == {"geo.get_position", "bio.authenticate", "pay.request_payment"}
Grant  == {"midi.request_access"}
Open   == {"usb.open", "serial.open"}
Link   == {"bt.connect"}
ByHandle == (UsbImports \ {"usb.request_device"}) \cup Open \cup Link
              \cup {"crypto.hash_finish", "barcode.detect_from_camera"}
OnObject == (BtImports \ {"bt.request_device"}) \cup {"crypto.cipher", "xr.create_ref_space"}
Import == Keyed \cup Hasty \cup Single \cup Grant \cup Open \cup Link

ASSUME AskAssumption == \A p \in IoPlans : p.imports \subseteq Import

KeyOf(imp) == IF imp \in Single \cup Grant THEN {0} ELSE AskKey

StatesAt(r) == {a \in asks : a.imp = r.imp /\ a.key = r.key}

-----------------------------------------------------------------------------
(* A call for request r of the guest, the first one or again.              *)

OnOpen(r) ==
    /\ <<r.imp, r.key>> \in opened /\ reqs' = reqs \ {r}
    /\ UNCHANGED <<asks, misled>>

Starts(r) ==
    /\ <<r.imp, r.key>> \notin opened /\ StatesAt(r) = {}
    /\ asks' = asks \cup {[imp |-> r.imp, key |-> r.key, by |-> r.id, state |-> "pending"]}
    /\ reqs' = reqs \cup {r} /\ UNCHANGED misled

Again(r) ==
    /\ <<r.imp, r.key>> \notin opened /\ \E a \in StatesAt(r) : a.state = "pending"
    /\ reqs' = IF r.imp \in Hasty THEN reqs \ {r} ELSE reqs \cup {r}
    /\ UNCHANGED <<asks, misled>>

(* An access to MIDI is kept.                                              *)
Left(a) == IF a.imp \in Grant /\ a.state = "ready" THEN asks ELSE asks \ {a}

Answered(r) ==
    /\ <<r.imp, r.key>> \notin opened
    /\ \E a \in StatesAt(r) :
         /\ a.state # "pending" /\ asks' = Left(a)
         /\ misled' = IF a.by = r.id \/ r.imp \in Grant THEN misled ELSE misled \cup {r.imp}
    /\ reqs' = reqs \ {r}

Calls(r) ==
    /\ OnOpen(r) \/ Starts(r) \/ Again(r) \/ Answered(r)
    /\ UNCHANGED <<opened, locks>>

Asking(imp, key) ==
    /\ imp \in plan.imports /\ key \in KeyOf(imp) /\ asked < plan.asks
    /\ {r \in reqs : r.imp = imp /\ r.key = key} = {}
    /\ asked' = asked + 1 /\ Calls([imp |-> imp, key |-> key, id |-> asked'])

AskingAgain == \E r \in reqs : Calls(r) /\ UNCHANGED asked

(* The promise of a settles; a device of bt keeps no state once connected. *)
AskSettles(a) ==
    /\ a \in asks /\ a.state = "pending"
    /\ \/ /\ asks' = (asks \ {a}) \cup {[a EXCEPT !.state = "failed"]} /\ UNCHANGED opened
       \/ /\ asks' = (asks \ {a}) \cup (IF a.imp \in Link THEN {} ELSE {[a EXCEPT !.state = "ready"]})
          /\ opened' = IF a.imp \in Open \cup Link THEN opened \cup {<<a.imp, a.key>>} ELSE opened
    /\ UNCHANGED <<reqs, asked, misled, locks>>

(* close and disconnect.                                                   *)
Closes(device) ==
    /\ device \in opened /\ opened' = opened \ {device}
    /\ asked < plan.asks /\ asked' = asked + 1
    /\ UNCHANGED <<asks, reqs, misled, locks>>

(* What is still found once the handle is gone.                            *)
StatesLeft(imp, key) ==
    IF imp \in ByHandle THEN {a \in asks : a.imp # imp \/ a.key # key} ELSE asks

(* The object leaves the table of handles, closed or released by its own   *)
(* import or as a file, and a request about it is refused when it is asked *)
(* again.  At a key with the number of a handle are then the requests of   *)
(* another object; at a pointer the state stays, for the next request.     *)
ObjectGoes(imp, key) ==
    /\ imp \in ByHandle \cup OnObject
    /\ reqs' = {r \in reqs : r.imp # imp \/ r.key # key}
    /\ asks' = StatesLeft(imp, key)
    /\ opened' = opened \ {<<imp, key>>}
    /\ UNCHANGED <<asked, misled, locks>>

-----------------------------------------------------------------------------
(* Wake locks.                                                             *)

WakeAcquire ==
    /\ Len(locks) < plan.locks
    /\ locks' = Append(locks, [lock |-> "asked", in |-> TRUE, released |-> FALSE])
    /\ UNCHANGED <<asks, reqs, asked, opened, misled>>

(* A lock that was released before it was granted is given back at once.   *)
Granted(l) == IF l.released THEN "none" ELSE "held"

(* Granted, or refused: the entry then counts as released.                 *)
WakeSettles(k) ==
    /\ k \in DOMAIN locks /\ locks[k].lock = "asked"
    /\ \E lock \in {Granted(locks[k]), "none"} :
         locks' = [locks EXCEPT ![k].lock = lock, ![k].released = @ \/ lock = "none"]
    /\ UNCHANGED <<asks, reqs, asked, opened, misled>>

WakeRelease(k) ==
    /\ k \in DOMAIN locks /\ locks[k].in
    /\ locks' = [locks EXCEPT ![k].in = FALSE, ![k].released = TRUE,
                              ![k].lock = IF @ = "held" THEN "none" ELSE @]
    /\ UNCHANGED <<asks, reqs, asked, opened, misled>>

(* wapi_filesystem.close of the handle, or a release that does not look at *)
(* its type: the entry is gone, and the lock is not told.                  *)
WakeCloses(k) ==
    /\ k \in DOMAIN locks /\ locks[k].in /\ locks' = [locks EXCEPT ![k].in = FALSE]
    /\ UNCHANGED <<asks, reqs, asked, opened, misled>>

-----------------------------------------------------------------------------
AskInit ==
    /\ asks = {} /\ reqs = {} /\ asked = 0 /\ opened = {} /\ misled = {}
    /\ locks = <<>>

AskSettling == (\E a \in asks : AskSettles(a)) \/ \E k \in DOMAIN locks : WakeSettles(k)

AskStep ==
    \/ \E imp \in plan.imports : \E key \in KeyOf(imp) : Asking(imp, key)
    \/ AskingAgain \/ AskSettling \/ WakeAcquire
    \/ \E device \in opened : Closes(device)
    \/ \E imp \in plan.imports : \E key \in KeyOf(imp) : ObjectGoes(imp, key)
    \/ \E k \in DOMAIN locks : WakeRelease(k) \/ WakeCloses(k)

-----------------------------------------------------------------------------
(* Parts of the properties of Browser.                                     *)

Request == [imp : Import, key : AskKey \cup {0}, id : Nat]

AskTypeOK ==
    /\ \A a \in asks : [imp |-> a.imp, key |-> a.key, id |-> a.by] \in Request
                       /\ a.state \in {"pending", "ready", "failed"}
    /\ reqs \subseteq Request /\ asked \in Nat
    /\ opened \subseteq Import \X AskKey /\ misled \subseteq Import
    /\ locks \in Seq([lock : {"asked", "held", "none"}, in : BOOLEAN, released : BOOLEAN])

(* No request is given the answer to another, but from the imports that    *)
(* forget who asked: those that fail a second call while they wait, an     *)
(* open after a close, which finds the state of the first open, and those  *)
(* whose request is refused, its object gone, while its state stays at the *)
(* pointer.                                                                *)
OwnAnswer == misled \subseteq Hasty \cup Open \cup OnObject

(* No lock is held that the guest has released, before it was granted or   *)
(* after: without its handle a lock is held only if that was closed as if  *)
(* it were a file, which releases nothing, and then for good.              *)
HeldByHandle ==
    \A k \in DOMAIN locks : locks[k].lock = "held" => ~locks[k].released
=============================================================================
