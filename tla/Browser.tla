------------------------------ MODULE Browser ------------------------------
(***************************************************************************)
(* The browser runtime: the extension's worker and the pages that link     *)
(* modules (PageServices), the operations and polled imports of a page     *)
(* (PageIo, PageAsks), and the memory its guest is given (GuestMemory).    *)
(* They share the page's one thread and its table of handles.  That gives  *)
(* each number once and keeps no order (HandleTable), so to take an entry  *)
(* out, which wapi_filesystem.close (wapi_shim.js:2338-2342) and the       *)
(* releases that look at no type (5739-5742) do to a handle of any part,   *)
(* is a step of the part whose handle it is (ClosesHandle, Removes,        *)
(* ObjectGoes, WakeCloses), and a behaviour does one part (Lives).         *)
(***************************************************************************)
EXTENDS PageServices, PageAsks, GuestMemory

CONSTANT Lives   \* bound: the budget of linking, the plans of I/O and memory, and base

vars == <<linkVars, ioVars, askVars, memVars>>

Init == LinkInit /\ IoInit /\ AskInit /\ MemInit /\ <<left, plan, memPlan, base>> \in Lives

notLink == <<ioVars, askVars, memVars>>
notIo   == <<linkVars, askVars, memVars>>
notAsk  == <<linkVars, ioVars, memVars>>
notMem  == <<linkVars, ioVars, askVars>>

(* Nothing is under way: all may stay as it is.                            *)
AtRest == LinkQuiet /\ IoQuiet /\ reqs = {}

Next ==
    \/ LinkStep /\ UNCHANGED notLink
    \/ IoStep /\ UNCHANGED notIo
    \/ AskStep /\ UNCHANGED notAsk
    \/ MemStep /\ UNCHANGED notMem
    \/ AtRest /\ UNCHANGED vars

Spec == Init /\ [][Next]_vars

(* Promises and timers fire, messages arrive, time passes, the user        *)
(* answers, and the guest asks again while it is told to.                  *)
FairSpec ==
    /\ Spec
    /\ WF_linkVars(FetchStep)
    /\ \A p \in Page : WF_linkVars(Beat(p)) /\ WF_linkVars(Receive(p))
    /\ \A c \in Call : WF_linkVars(CallStep(c) /\ UNCHANGED pageVars)
    /\ \A k \in Key : WF_linkVars(Age(k) /\ UNCHANGED pageVars)
    /\ WF_ioVars(Settling) /\ WF_askVars(AskSettling) /\ WF_askVars(AskingAgain)

-----------------------------------------------------------------------------
(* Properties.                                                             *)

TypeOK == LinkTypeOK /\ IoTypeOK /\ AskTypeOK /\ MemTypeOK

(* What counts and indexes the linked instances agrees with them: the      *)
(* tables (TablesAgree) and the references of pages (PageRefsExact), where *)
(* a module handle closed as a file goes on being counted.                 *)
CountsAgree == TablesAgree /\ PageRefsExact

(* The rows of the popup follow the pages (HostedShown, GoneVanishes).     *)
RowsFollow == HostedShown /\ GoneVanishes

(* A page's operations end once, and cancel finds those it can still end   *)
(* (OneEnd; wapi_shim.js:1793-2094).                                       *)
EndsOnce == OneEnd

(* A guest is given what it asked for and nothing else: the bytes of a     *)
(* stream in order, the items of one drop, the answer to its own request   *)
(* (OwnAnswer names the imports that mix them up), and no lock that it has *)
(* released (HeldByHandle; closing the handle as a file releases nothing). *)
OwnData == InOrder /\ OneDrop /\ OwnAnswer /\ HeldByHandle

(* In the end every operation is answered, or its rejection went unheard   *)
(* (a clipboard item or the permission of the idle detector), and every    *)
(* guest that asks again is told: what a page may submit and ask is        *)
(* bounded, so that it is at last all answered.                            *)
AllAnswered == []<>(NoneOpen /\ reqs = {})
=============================================================================
