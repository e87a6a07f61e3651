----------------------------- MODULE ModuleLink ----------------------------
(***************************************************************************)
(* Module linking of the desktop runtime (wapi_host_module.c): load, join, *)
(* get_func, call and release over the pool of module slots, the registry  *)
(* of services and the handle table.                                       *)
(*                                                                         *)
(* The host runs on one thread, but guest code runs inside two of its      *)
(* calls: a start function inside load and join, an exported function      *)
(* inside call.  That code may make every call again.  frames is the stack *)
(* of host calls that are waiting for guest code to return; each action is *)
(* the part of a host call between two such points.  A call that returns   *)
(* an error before it has changed anything is no step of the model.        *)
(*                                                                         *)
(* Instances are numbered.  The numbers (inst, hinst, fn.inst) are history.*)
(***************************************************************************)
EXTENDS HandleTable, FiniteSets

CONSTANTS MaxSlots,    \* MAX_MODULE_SLOTS (16)
          MaxServices, \* WAPI_MODULE_SERVICE_MAX (16)
          MaxFuncs,    \* WAPI_MODULE_MAX_FUNCS (64)
          Key,         \* the pairs of hash and service name
          NoKey, NoSlot, NoFn,
          MaxDepth,    \* bound: host calls on the stack
          MaxInst      \* bound: instances made in a behaviour

Slot    == 1 .. MaxSlots
Service == 1 .. MaxServices
Inst    == 1 .. MaxInst

ASSUME ModuleAssumption ==
    /\ HandleType = {"module", "other"}
    /\ MaxSlots \in Nat
    /\ MaxServices \in Nat
    /\ MaxFuncs \in Nat
    /\ MaxDepth \in Nat
    /\ MaxInst \in Nat
    /\ NoKey \notin Key
    /\ NoSlot \notin Slot

VARIABLES hslot,       \* handles[].data.module_slot
          hinst,       \* the instance the handle was given out for
          live,        \* g_module_slots[].module # NULL
          refcount,    \* g_module_slots[].refcount
          funcs,       \* how many of funcs[] of the slot are in use
          inst,        \* the instance in the slot
          skey,        \* module_services[].(hash, name), NoKey if not in_use
          sslot,       \* module_services[].slot
          frames, depth, \* host calls waiting for guest code
          fn,          \* a function handle the guest keeps, or NoFn
          made         \* instances made so far

handleVars  == <<htype, next, hslot, hinst>>
slotVars    == <<live, refcount, funcs, inst>>
serviceVars == <<skey, sslot>>
frameVars   == <<frames, depth>>
vars == <<handleVars, slotVars, serviceVars, frameVars, fn, made>>

NoFrame == [op |-> "none", slot |-> NoSlot, key |-> NoKey]

Init ==
    /\ HandleInit
    /\ hslot = [h \in Handle |-> NoSlot]
    /\ hinst = [h \in Handle |-> 0]
    /\ live = [s \in Slot |-> FALSE]
    /\ refcount = [s \in Slot |-> 0]
    /\ funcs = [s \in Slot |-> 0]
    /\ inst = [s \in Slot |-> 0]
    /\ skey = [e \in Service |-> NoKey]
    /\ sslot = [e \in Service |-> NoSlot]
    /\ frames = [d \in 1..MaxDepth |-> NoFrame]
    /\ depth = 0
    /\ fn = NoFn
    /\ made = 0

-----------------------------------------------------------------------------
(*************************** slots and frames ******************************)

FreeSlots == {s \in Slot : ~live[s]}

(* slot_free: the whole slot is zeroed.                                    *)
SlotFree(s) ==
    /\ live' = [live EXCEPT ![s] = FALSE]
    /\ refcount' = [refcount EXCEPT ![s] = 0]
    /\ funcs' = [funcs EXCEPT ![s] = 0]
    /\ inst' = [inst EXCEPT ![s] = 0]

Enter(op, s, k) ==
    /\ depth < MaxDepth
    /\ depth' = depth + 1
    /\ frames' = [frames EXCEPT ![depth + 1] = [op |-> op, slot |-> s, key |-> k]]

Leave ==
    /\ depth' = depth - 1
    /\ frames' = [frames EXCEPT ![depth] = NoFrame]

Top(op) == depth > 0 /\ frames[depth].op = op

(* A new handle for the instance in slot s.                                *)
GiveHandle(s) ==
    \E h \in Handle :
      /\ HandleAlloc(h, "module")
      /\ hslot' = [hslot EXCEPT ![h] = s]
      /\ hinst' = [hinst EXCEPT ![h] = inst[s]]

(* instantiate_from_cache up to the call of the start function, made by    *)
(* load or join (op): the module is in its slot, with a refcount of 0.     *)
BeginInstance(op, k) ==
    /\ made < MaxInst
    /\ \E s \in Slot :
         /\ Lowest(FreeSlots, s)
         /\ live' = [live EXCEPT ![s] = TRUE]
         /\ refcount' = [refcount EXCEPT ![s] = 0]
         /\ funcs' = [funcs EXCEPT ![s] = 0]
         /\ inst' = [inst EXCEPT ![s] = made + 1]
         /\ Enter(op, s, k)
    /\ made' = made + 1
    /\ UNCHANGED <<handleVars, serviceVars, fn>>

(* The start function traps: the slot is freed, load or join fails.        *)
StartTraps ==
    /\ Top("load") \/ Top("join")
    /\ SlotFree(frames[depth].slot)
    /\ Leave
    /\ UNCHANGED <<handleVars, serviceVars, fn, made>>

(********************************* load ************************************)

LoadBegin == BeginInstance("load", NoKey)

LoadEnd ==
    /\ Top("load")
    /\ LET s == frames[depth].slot
       IN  \/ /\ refcount' = [refcount EXCEPT ![s] = 1]
              /\ GiveHandle(s)
              /\ UNCHANGED <<live, funcs, inst>>
           \/ /\ TableFull
              /\ SlotFree(s)
              /\ UNCHANGED handleVars
    /\ Leave
    /\ UNCHANGED <<serviceVars, fn, made>>

(********************************* join ************************************)

Registered(k) == {e \in Service : skey[e] = k}
FreeEntries   == {e \in Service : skey[e] = NoKey}

JoinBegin(k) ==
    /\ Registered(k) = {}
    /\ BeginInstance("join", k)

(* The service runs: attach to it, or hand the reference back.             *)
JoinAttach(k) ==
    /\ \E e \in Service :
         /\ Lowest(Registered(k), e)
         /\ refcount' = [refcount EXCEPT ![sslot[e]] = @ + 1]
         /\ GiveHandle(sslot[e])
    /\ UNCHANGED <<live, funcs, inst, serviceVars, frameVars, fn, made>>

(* Mutant: the reference is not handed back.                               *)
JoinAttachNoHandle_keepsRef(k) ==
    /\ TableFull
    /\ \E e \in Service :
         /\ Lowest(Registered(k), e)
         /\ refcount[sslot[e]] > 0
         /\ refcount' = [refcount EXCEPT ![sslot[e]] = @ + 1]
    /\ UNCHANGED <<live, funcs, inst, handleVars, serviceVars, frameVars, fn,
                   made>>

(* The teardown branch of the roll-back is for a reference count of 0.     *)
JoinAttachNoHandle(k) ==
    /\ TableFull
    /\ \E e \in Service :
         /\ Lowest(Registered(k), e)
         /\ IF refcount[sslot[e]] = 0
            THEN /\ SlotFree(sslot[e])
                 /\ skey' = [skey EXCEPT ![e] = NoKey]
            ELSE UNCHANGED <<slotVars, skey>>
    /\ UNCHANGED <<handleVars, sslot, frameVars, fn, made>>

(* Mutant: the instance is left in its slot.                               *)
JoinNoEntry_leaksSlot ==
    /\ Top("join")
    /\ FreeEntries = {}
    /\ Leave
    /\ UNCHANGED <<slotVars, handleVars, serviceVars, fn, made>>

JoinNoEntry ==
    /\ Top("join")
    /\ FreeEntries = {}
    /\ SlotFree(frames[depth].slot)
    /\ Leave
    /\ UNCHANGED <<handleVars, serviceVars, fn, made>>

JoinEnd ==
    /\ Top("join")
    /\ \E e \in Service :
         /\ Lowest(FreeEntries, e)
         /\ LET s == frames[depth].slot
            IN  /\ refcount' = [refcount EXCEPT ![s] = 1]
                /\ GiveHandle(s)
                /\ skey' = [skey EXCEPT ![e] = frames[depth].key]
                /\ sslot' = [sslot EXCEPT ![e] = s]
    /\ Leave
    /\ UNCHANGED <<live, funcs, inst, fn, made>>

(* Mutant: the registry keeps the entry of the instance that is torn down. *)
JoinEndNoHandle_keepsEntry ==
    /\ Top("join")
    /\ TableFull
    /\ \E e \in Service :
         /\ Lowest(FreeEntries, e)
         /\ skey' = [skey EXCEPT ![e] = frames[depth].key]
         /\ sslot' = [sslot EXCEPT ![e] = frames[depth].slot]
    /\ SlotFree(frames[depth].slot)
    /\ Leave
    /\ UNCHANGED <<handleVars, fn, made>>

(* Registered, referenced once, and both undone for want of a handle; the  *)
(* entry's slot field is left behind.                                      *)
JoinEndNoHandle ==
    /\ Top("join")
    /\ TableFull
    /\ \E e \in Service :
         /\ Lowest(FreeEntries, e)
         /\ sslot' = [sslot EXCEPT ![e] = frames[depth].slot]
    /\ SlotFree(frames[depth].slot)
    /\ Leave
    /\ UNCHANGED <<handleVars, skey, fn, made>>

(************************* get_func, call, release *************************)

(* Mutant: the search for a free function entry does not stop.             *)
GetFunc_unbounded(h) ==
    /\ htype[h] = "module"
    /\ funcs' = [funcs EXCEPT ![hslot[h]] = @ + 1]
    /\ fn' = [handle |-> h, index |-> funcs[hslot[h]], inst |-> hinst[h]]
    /\ UNCHANGED <<handleVars, live, refcount, inst, serviceVars, frameVars,
                   made>>

(* The guest keeps the new function handle, or the one it already had.     *)
GetFunc(h) ==
    /\ htype[h] = "module"
    /\ LET s == hslot[h]
       IN  /\ funcs[s] < MaxFuncs
           /\ funcs' = [funcs EXCEPT ![s] = @ + 1]
           /\ \/ fn' = [handle |-> h, index |-> funcs[s], inst |-> hinst[h]]
              \/ UNCHANGED fn
    /\ UNCHANGED <<handleVars, live, refcount, inst, serviceVars, frameVars,
                   made>>

(* module_unpack: the function handle is the module handle and an index.   *)
Resolves(f) ==
    /\ htype[f.handle] = "module"
    /\ f.index < funcs[hslot[f.handle]]

Call ==
    /\ fn # NoFn
    /\ Resolves(fn)
    /\ Enter("call", hslot[fn.handle], NoKey)
    /\ UNCHANGED <<handleVars, slotVars, serviceVars, fn, made>>

(* With results, an error or a trap; the slot is not looked at again.      *)
CallReturns ==
    /\ Top("call")
    /\ Leave
    /\ UNCHANGED <<handleVars, slotVars, serviceVars, fn, made>>

ReleaseOne(h) ==
    /\ htype[h] = "module"
    /\ refcount[hslot[h]] # 1
    /\ refcount' = [refcount EXCEPT ![hslot[h]] = @ - 1]
    /\ HandleFree(h)
    /\ hslot' = [hslot EXCEPT ![h] = NoSlot]
    /\ hinst' = [hinst EXCEPT ![h] = 0]
    /\ UNCHANGED <<live, funcs, inst, serviceVars, frameVars, fn, made>>

EntriesOf(s) == {e \in Service : skey[e] # NoKey /\ sslot[e] = s}

(* Mutant: the slot goes with the first of its handles.                    *)
ReleaseLast_first(h) ==
    /\ htype[h] = "module"
    /\ SlotFree(hslot[h])
    /\ HandleFree(h)
    /\ hslot' = [hslot EXCEPT ![h] = NoSlot]
    /\ hinst' = [hinst EXCEPT ![h] = 0]
    /\ UNCHANGED <<serviceVars, frameVars, fn, made>>

(* The last reference: the service entry goes first, then the slot.        *)
ReleaseLast(h) ==
    /\ htype[h] = "module"
    /\ refcount[hslot[h]] = 1
    /\ skey' = [e \in Service |->
                  IF Lowest(EntriesOf(hslot[h]), e) THEN NoKey ELSE skey[e]]
    /\ SlotFree(hslot[h])
    /\ HandleFree(h)
    /\ hslot' = [hslot EXCEPT ![h] = NoSlot]
    /\ hinst' = [hinst EXCEPT ![h] = 0]
    /\ UNCHANGED <<sslot, frameVars, fn, made>>

(************************** other capabilities *****************************)

OtherAlloc ==
    /\ \E h \in Handle : HandleAlloc(h, "other")
    /\ UNCHANGED <<hslot, hinst, slotVars, serviceVars, frameVars, fn, made>>

OtherFree(h) ==
    /\ htype[h] = "other"
    /\ HandleFree(h)
    /\ UNCHANGED <<hslot, hinst, slotVars, serviceVars, frameVars, fn, made>>

-----------------------------------------------------------------------------
Next ==
    \/ LoadBegin
    \/ LoadEnd
    \/ \E k \in Key : JoinBegin(k) \/ JoinAttach(k) \/ JoinAttachNoHandle(k)
    \/ JoinNoEntry
    \/ JoinEnd
    \/ JoinEndNoHandle
    \/ StartTraps
    \/ \E h \in Handle : GetFunc(h) \/ ReleaseOne(h) \/ ReleaseLast(h)
                           \/ OtherFree(h)
    \/ Call
    \/ CallReturns
    \/ OtherAlloc

Spec == Init /\ [][Next]_vars

-----------------------------------------------------------------------------
Frame == [op : {"load", "join", "call"}, slot : Slot, key : Key \cup {NoKey}]
FnHandle == [handle : Handle, index : Nat, inst : Inst]

HandlesTypeOK ==
    /\ HandleTypeOK
    /\ hslot \in [Handle -> Slot \cup {NoSlot}]
    /\ hinst \in [Handle -> 0 .. MaxInst]

SlotsTypeOK ==
    /\ live \in [Slot -> BOOLEAN]
    /\ refcount \in [Slot -> Nat]
    /\ funcs \in [Slot -> 0 .. MaxFuncs]
    /\ inst \in [Slot -> 0 .. MaxInst]
    /\ \A s \in Slot : live[s] => inst[s] \in Inst

ServicesTypeOK ==
    /\ skey \in [Service -> Key \cup {NoKey}]
    /\ sslot \in [Service -> Slot \cup {NoSlot}]

FramesTypeOK ==
    /\ depth \in 0 .. MaxDepth
    /\ frames \in [1 .. MaxDepth -> Frame \cup {NoFrame}]
    /\ \A d \in 1 .. MaxDepth : frames[d] = NoFrame <=> d > depth

(* The variables keep their ranges, the tables their fixed sizes.          *)
TypeOK ==
    /\ HandlesTypeOK
    /\ SlotsTypeOK
    /\ ServicesTypeOK
    /\ FramesTypeOK
    /\ fn \in FnHandle \cup {NoFn}
    /\ made \in 0 .. MaxInst

Refs(s) == {h \in Handle : htype[h] = "module" /\ hslot[h] = s}

Builds(d) == frames[d].op \in {"load", "join"}
Building(s) == \E d \in 1 .. depth : Builds(d) /\ frames[d].slot = s

(* The reference count of a slot is the number of handles given out for    *)
(* it, after any nesting of loads, joins, failures and releases:           *)
(* wapi_host_module.c:266, 373, 393 and 585 keep it by hand.               *)
RefcountExact == \A s \in Slot : refcount[s] = Cardinality(Refs(s))

(* A module handle refers to the instance it was given out for as long as  *)
(* it is not released: no release, roll-back or trap of another call frees *)
(* or reuses its slot (wapi_module.h:216-218).                             *)
HandlesMeanInstance ==
    \A h \in Handle : htype[h] = "module" =>
        /\ hslot[h] \in Slot
        /\ live[hslot[h]]
        /\ inst[hslot[h]] = hinst[h]

SlotsUsed  == \A s \in Slot : live[s] <=> Building(s) \/ Refs(s) # {}
BuiltUnreferenced == \A s \in Slot : Building(s) => Refs(s) = {}
BuildsApart ==
    \A c, d \in 1 .. depth :
      Builds(c) /\ Builds(d) /\ frames[c].slot = frames[d].slot => c = d

(* A slot is in use exactly as long as a load or join in progress builds   *)
(* an instance in it, or a handle refers to it, and never both: a start    *)
(* function that loads, joins or releases cannot take the slot of the call *)
(* it runs in, and no failure leaks a slot.                                *)
SlotsAccounted == SlotsUsed /\ BuiltUnreferenced /\ BuildsApart

(* Every registered service is a live instance that somebody holds, and no *)
(* instance is registered twice (wapi_module.h:166-168).                   *)
ServicesHeld ==
    \A e \in Service : skey[e] # NoKey =>
        /\ sslot[e] \in Slot
        /\ Refs(sslot[e]) # {}
        /\ \A e2 \in Service :
             skey[e2] # NoKey /\ sslot[e2] = sslot[e] => e2 = e

(* An entry of the handle table in use keeps its type, and a module handle *)
(* its instance, until it is freed: the roving search never hands out a    *)
(* handle that is in use (wapi_host.h:442-460).                            *)
HandlesStable ==
    [][ \A h \in Handle :
          htype[h] # "free" /\ htype'[h] # "free" =>
            htype'[h] = htype[h] /\ hinst'[h] = hinst[h] ]_vars

(* "Two callers joining with the same (hash, name) get handles that refer  *)
(* to the SAME running instance" (wapi_module.h:220).                      *)
OneInstancePerService ==
    \A d, e \in Service : skey[d] # NoKey /\ skey[d] = skey[e] => d = e

(* A call through a function handle of a module that was released is       *)
(* rejected (wapi-spec.md:263-271), so it never reaches another instance.  *)
CallReachesItsInstance ==
    [][ Call => hinst[fn.handle] = fn.inst ]_vars
=============================================================================
