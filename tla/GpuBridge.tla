----------------------------- MODULE GpuBridge -----------------------------
(***************************************************************************)
(* The WebGPU bridge (wapi_host_wgpu.c): objects of wgpu-native behind     *)
(* handles, and the callbacks of requestAdapter and requestDevice, which   *)
(* wait in a list per instance until the guest calls processEvents.  The   *)
(* guest's callback runs inside that call and may do whatever the guest    *)
(* may, processEvents and further requests included.                       *)
(*                                                                         *)
(* wgpu-native's part: it answers a request once, inside the request or    *)
(* inside a later processEvents of the instance; two open instances have   *)
(* different addresses, and one that was released leaves its own free.     *)
(***************************************************************************)
EXTENDS OsObjects

CONSTANTS Address,     \* of native instances; beyond the eight states of
                       \* g_instances a request dereferences NULL: not followed
          MaxPending,  \* MAX_PENDING_CBS
          MaxDepth     \* bound: processEvents within each other

ASSUME GpuAssumption ==
    /\ IsFiniteSet(Address) /\ Cardinality(Address) <= 8
    /\ MaxPending \in Nat \ {0} /\ MaxDepth \in Nat

VARIABLES states,      \* g_instances: address and list of pending callbacks
          gpu,         \* per object: its instance, and an instance's address
          asked,       \* requests given to wgpu-native: where their callback is
          frames,      \* guest callbacks in progress, the innermost last
          tangled,     \* history: requests whose place a callback took away
          leaked       \* history: objects the host received and has no entry for

gpuVars == <<states, gpu, asked, frames, tangled, leaked>>

GpuInit ==
    /\ states = <<>> /\ gpu = <<>> /\ asked = <<>>
    /\ frames = <<>> /\ tangled = {} /\ leaked = {}

(* "gpu": queues, views, buffers, samplers, layouts, bind groups, shader   *)
(* modules, pipelines, command buffers and render passes.                  *)
GpuType == {"instance", "adapter", "device", "gsurface", "texture", "encoder", "gpu"}

Native(n) == Object("gpu", n)
InstanceOf(h) == gpu[data[h].n].inst

-----------------------------------------------------------------------------
(* Objects.                                                                *)

Addresses == {gpu[data[h].n].addr : h \in {g \in Handle : htype[g] = "instance"}}

CreateInstance(addr) ==
    /\ Spend("gpu") /\ Create("gpu", "instance") /\ addr \notin Addresses
    /\ Open({Native(made + 1)})
    /\ gpu' = Extended(gpu, made + 1, [inst |-> made + 1, addr |-> addr])
    /\ UNCHANGED <<htype, next, data, states, asked, frames, tangled, leaked>>

CreateFrom(parent, type, what) ==
    /\ IsA(parent, type)
    /\ Spend("gpu") /\ Idle /\ made' = made + 1
    /\ op' = [NoOp EXCEPT !.call = "gpu", !.at = what, !.n = made + 1, !.h = parent]
    /\ Open({Native(made + 1)})
    /\ gpu' = Extended(gpu, made + 1, [inst |-> InstanceOf(parent), addr |-> "none"])
    /\ UNCHANGED <<htype, next, data, states, asked, frames, tangled, leaked>>

CreateSurface(h) == (\E w \in Handle : IsA(w, "window")) /\ CreateFrom(h, "instance", "gsurface")

GetQueue(h)              == CreateFrom(h, "device", "gpu")
CreateShaderModule(h)    == CreateFrom(h, "device", "gpu")
CreateRenderPipeline(h)  == CreateFrom(h, "device", "gpu")
CreateBuffer(h)          == CreateFrom(h, "device", "gpu")
CreateSampler(h)         == CreateFrom(h, "device", "gpu")
CreateBindGroupLayout(h) == CreateFrom(h, "device", "gpu")
CreateBindGroup(h)       == CreateFrom(h, "device", "gpu")
CreatePipelineLayout(h)  == CreateFrom(h, "device", "gpu")
CreateTexture(h)         == CreateFrom(h, "device", "texture")
GetCurrentTexture(h)     == CreateFrom(h, "gsurface", "texture")
CreateView(h)            == CreateFrom(h, "texture", "gpu")
CreateCommandEncoder(h)  == CreateFrom(h, "device", "encoder")
BeginRenderPass(h)       == CreateFrom(h, "encoder", "gpu")
Finish(h)                == CreateFrom(h, "encoder", "gpu")

CreateChild(h) ==
    \/ CreateSurface(h) \/ GetCurrentTexture(h) \/ CreateView(h) \/ GetQueue(h)
    \/ CreateShaderModule(h) \/ CreateRenderPipeline(h) \/ CreateBuffer(h)
    \/ CreateSampler(h) \/ CreateBindGroupLayout(h) \/ CreateBindGroup(h)
    \/ CreatePipelineLayout(h) \/ CreateTexture(h) \/ CreateCommandEncoder(h)
    \/ BeginRenderPass(h) \/ Finish(h)

StateOf(addr) == {s \in DOMAIN states : states[s].addr = addr}

(* The state found by the instance's address, or a new one.                *)
Reserve(addr) ==
    states' = IF StateOf(addr) = {} THEN Append(states, [addr |-> addr, pend |-> <<>>])
                                    ELSE states

(* Without an entry the object is released -- except the texture of a      *)
(* surface, which wgpuSurfaceGetCurrentTexture leaves as it is.            *)
EnterGpu ==
    /\ op.call = "gpu" /\ Return
    /\ \/ /\ \E h \in Handle : Entry(h, op.at, [Blank EXCEPT !.n = op.n])
          /\ IF op.at = "instance" THEN Reserve(gpu[op.n].addr) ELSE UNCHANGED states
          /\ UNCHANGED <<os, misused, leaked>>
       \/ /\ TableFull /\ UNCHANGED <<htype, next, data, states>>
          /\ IF op.at = "texture" /\ htype[op.h] = "gsurface"
               THEN leaked' = leaked \cup {Native(op.n)} /\ UNCHANGED <<os, misused>>
               ELSE Close({Native(op.n)}) /\ UNCHANGED leaked
    /\ UNCHANGED <<made, left, gpu, asked, frames, tangled>>

(* Draws, bindings, writes and submits only pass on what a handle means.   *)
UseGpu(h) ==
    /\ Idle /\ IsA(h, "gpu") /\ Uses({Native(data[h].n)})
    /\ UNCHANGED <<htype, next, data, os, op, made, left, gpuVars>>

ReleaseGpu(h) ==
    /\ Idle /\ h \in Handle /\ htype[h] \in GpuType
    /\ Close({Native(data[h].n)}) /\ FreeAll({h})
    /\ UNCHANGED <<op, made, left, gpuVars>>

-----------------------------------------------------------------------------
(* Requests.                                                               *)

NoSlot == [kind |-> "none", req |-> 0, done |-> FALSE]

(* Mutant: a place whose callback has not been answered counts as free.    *)
PendingAlloc_unanswered(s, i) ==
    LET pend  == states[s].pend
        again == {j \in DOMAIN pend : ~pend[j].done}
    IN  IF again # {} THEN Lowest(again, i) ELSE i = Len(pend) + 1 /\ i <= MaxPending

PendingAlloc(s, i) ==
    LET pend  == states[s].pend
        again == {j \in DOMAIN pend : ~pend[j].done /\ pend[j].kind = "none"}
    IN  IF again # {} THEN Lowest(again, i) ELSE i = Len(pend) + 1 /\ i <= MaxPending

Running(s, i)  == \E k \in DOMAIN frames : frames[k] = [s |-> s, i |-> i]
Awaiting(s, i) == \E r \in DOMAIN asked : asked[r].s = s /\ asked[r].i = i /\ ~asked[r].answered

(* With the list full the guest gets no answer, ever.                      *)
Ask(kind, s, inst) ==
    /\ Spend("request") /\ Idle
    /\ \E i \in 1 .. MaxPending :
         LET r == Len(asked) + 1
             p == [kind |-> kind, req |-> r, done |-> FALSE]
         IN  /\ PendingAlloc(s, i)
             /\ states' = [states EXCEPT ![s].pend = IF i > Len(@) THEN Append(@, p)
                                                     ELSE [@ EXCEPT ![i] = p]]
             /\ asked' = Append(asked, [kind |-> kind, inst |-> inst, s |-> s, i |-> i,
                                        answered |-> FALSE, told |-> 0])
             /\ tangled' = IF Running(s, i) \/ Awaiting(s, i) THEN tangled \cup {r} ELSE tangled
             /\ op' = [NoOp EXCEPT !.call = "request", !.at = "native", !.n = r]
    /\ UNCHANGED <<htype, next, data, os, misused, made, gpu, frames, leaked>>

RequestAdapter(h) ==
    /\ IsA(h, "instance")
    /\ \E s \in StateOf(gpu[data[h].n].addr) : Ask("adapter", s, data[h].n)

(* The callback is put into the list of the first instance, whichever the  *)
(* adapter belongs to.                                                     *)
RequestDevice(h) == IsA(h, "adapter") /\ states # <<>> /\ Ask("device", 1, InstanceOf(h))

(* native_on_adapter, native_on_device: the result gets an entry; without  *)
(* one the guest is told of a success with handle 0, and the object stays. *)
Answer(r) ==
    LET a == asked[r]
        n == made + 1
    IN  /\ \/ In("request", "native") /\ op.n = r
           \/ In("process", "native") /\ op.n = a.inst
        /\ ~a.answered
        /\ asked' = [asked EXCEPT ![r].answered = TRUE]
        /\ states' = [states EXCEPT ![a.s].pend[a.i].done = TRUE]
        /\ \/ UNCHANGED <<htype, next, data, os, made, gpu, leaked>>
           \/ /\ made' = n /\ os' = os \cup {Native(n)}
              /\ gpu' = Extended(gpu, n, [inst |-> a.inst, addr |-> "none"])
              /\ \/ /\ \E h \in Handle : Entry(h, a.kind, [Blank EXCEPT !.n = n])
                    /\ UNCHANGED leaked
                 \/ /\ TableFull /\ leaked' = leaked \cup {Native(n)}
                    /\ UNCHANGED <<htype, next, data>>
        /\ UNCHANGED <<misused, op, left, frames, tangled>>

RequestReturns ==
    /\ In("request", "native") /\ Return
    /\ UNCHANGED <<htype, next, data, os, misused, made, left, gpuVars>>

-----------------------------------------------------------------------------
(* processEvents: native callbacks, then the guest's, one place after the  *)
(* other.  A place is cleared when its callback has returned.              *)

ProcessEvents(h) ==
    /\ IsA(h, "instance") /\ Len(frames) < MaxDepth
    /\ Spend("process") /\ Idle
    /\ op' = [NoOp EXCEPT !.call = "process", !.at = "native", !.n = data[h].n]
    /\ UNCHANGED <<htype, next, data, os, misused, made, gpuVars>>

(* The loop goes on at place i of list s, under the callbacks of below.    *)
Dispatch(s, i, pend, below) ==
    LET due == {j \in i .. Len(pend) : pend[j].done /\ pend[j].kind # "none"}
    IN  IF due = {} THEN frames' = below /\ UNCHANGED <<asked, tangled>>
        ELSE \E j \in due :
               LET r == pend[j].req
               IN  /\ Lowest(due, j)
                   /\ frames' = Append(below, [s |-> s, i |-> j])
                   /\ asked' = [asked EXCEPT ![r].told = @ + 1]
                   /\ tangled' = IF [s |-> s, i |-> j] \in {below[k] : k \in DOMAIN below}
                                   THEN tangled \cup {r} ELSE tangled

NativeDone ==
    /\ In("process", "native") /\ Return
    /\ \E s \in StateOf(gpu[op.n].addr) : Dispatch(s, 1, states[s].pend, frames)
    /\ UNCHANGED <<htype, next, data, os, misused, made, left, states, gpu, leaked>>

CallbackReturns ==
    /\ Idle /\ frames # <<>>
    /\ LET top  == frames[Len(frames)]
           pend == [states[top.s].pend EXCEPT ![top.i].kind = "none", ![top.i].done = FALSE]
       IN  /\ states' = [states EXCEPT ![top.s].pend = pend]
           /\ Dispatch(top.s, top.i + 1, pend, SubSeq(frames, 1, Len(frames) - 1))
    /\ UNCHANGED <<htype, next, data, os, misused, op, made, left, gpu, leaked>>

GpuStep ==
    \/ \E addr \in Address : CreateInstance(addr)
    \/ EnterGpu \/ RequestReturns \/ NativeDone \/ CallbackReturns
    \/ \E h \in Handle :
         \/ CreateChild(h) \/ UseGpu(h) \/ ReleaseGpu(h)
         \/ RequestAdapter(h) \/ RequestDevice(h) \/ ProcessEvents(h)
    \/ \E r \in DOMAIN asked : Answer(r)

GpuTypeOK ==
    /\ DOMAIN gpu \subseteq 1 .. made
    /\ \A s \in DOMAIN states :
         /\ states[s].addr \in Address /\ Len(states[s].pend) <= MaxPending
         /\ \A i \in DOMAIN states[s].pend :
              states[s].pend[i] \in [kind : {"none", "adapter", "device"},
                                     req : DOMAIN asked, done : BOOLEAN]
    /\ Len(frames) <= MaxDepth /\ tangled \subseteq DOMAIN asked
    /\ leaked \subseteq {Native(n) : n \in 1 .. made}
=============================================================================
