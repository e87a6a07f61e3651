--------------------------- MODULE HostResources ---------------------------
(***************************************************************************)
(* The guest's thread with processes, connections, windows, files and      *)
(* WebGPU objects behind one handle table; the children and the peers.     *)
(***************************************************************************)
EXTENDS Processes, Connections, Desktop, GpuBridge

otherVars == <<deskVars, gpuVars>>

vars == <<objectVars, processVars, connVars, otherVars>>

Init == ObjectInit /\ ProcessInit /\ ConnInit /\ DeskInit /\ GpuInit

(* No call in progress: the guest may leave it at that.                    *)
Rest == Idle /\ UNCHANGED vars

Next ==
    \/ ProcessStep /\ UNCHANGED <<connVars, otherVars>>
    \/ ConnectionStep /\ UNCHANGED <<processVars, otherVars>>
    \/ DesktopStep /\ UNCHANGED <<processVars, connVars, gpuVars>>
    \/ GpuStep /\ UNCHANGED <<processVars, connVars, deskVars>>
    \/ Rest

Spec == Init /\ [][Next]_vars

(* The guest's thread runs when it can, a callback runs to its end, and    *)
(* msquic completes what it accepted.                                      *)
FairSpec ==
    /\ Spec
    /\ WF_vars((CreateStep \/ PipeReturns \/ WaitReturns) /\ UNCHANGED <<connVars, otherVars>>)
    /\ WF_vars((ConnectStep \/ RecvStep \/ QuicSent) /\ UNCHANGED <<processVars, otherVars>>)
    /\ WF_vars((\E n \in DOMAIN net : SetRx(n) \/ StreamCallback(n))
               /\ UNCHANGED <<processVars, otherVars>>)

-----------------------------------------------------------------------------
(* Properties.                                                             *)

TypeOK == ObjectTypeOK /\ ProcessTypeOK /\ ConnTypeOK /\ DeskTypeOK /\ GpuTypeOK

OwnedBy(h) ==
    LET n == data[h].n
    IN  CASE htype[h] = "process"   -> {Object("process", n)}
          [] htype[h] = "pipe"      -> {PipeOf(h)}
          [] htype[h] = "conn"      -> ObjectsOf(n)
          [] htype[h] \in DeskKind  -> ObjectsFor(htype[h], n) \cup
               {Object("menu", m) : m \in IF htype[h] = "tray" THEN {desk[n].inner} \ {0} ELSE {}}
          [] htype[h] \in GpuType   -> {Native(n)}
          [] OTHER                  -> {}

(* What no handle will ever close: null devices, inner menus whose pointer *)
(* was cut, WebGPU objects that found no entry.                            *)
Stray == {o \in os : o[1] = "nul"} \cup lost \cup leaked

TokensInUse(kind) == {desk[data[h].n].token : h \in {g \in Handle : htype[g] = kind}}

(* No object of the system is closed twice, or used by a call or by a      *)
(* callback of msquic when it is closed.  Whichever step of a creation     *)
(* fails, whichever handle the table has no room for: once the call is     *)
(* over each open object, the strays apart, is that of exactly one handle, *)
(* and those of a handle are open.  The pipes a process names are its own, *)
(* never another that got the number of a closed one.  The tokens marked   *)
(* in the bitmaps are those of the menus and trays there are, and a small  *)
(* one leads to its own menu (wapi_host_process.c:186-497,                 *)
(* wapi_host_net.c:932-1142, wapi_host_menu.c:52-88,                       *)
(* wapi_host_tray.c:40-195, wapi_host_surface.c:114-146,                   *)
(* wapi_host_wgpu.c:80-108, 1726-1737).                                    *)
ObjectsOwned ==
    /\ ~misused
    /\ op.call \notin {"create", "wrap", "connect", "close", "make", "gpu"} =>
         /\ os \ Stray = UNION {OwnedBy(h) : h \in Handle}
         /\ \A g, h \in Handle : g # h => OwnedBy(g) \cap OwnedBy(h) = {}
         /\ \A kind \in TokenKind : taken[kind] = TokensInUse(kind)
         /\ \A t \in SmallToken :
              menus[t] # 0 <=> \E h \in Handle : IsA(h, "menu") /\ data[h].n = menus[t]
                                                /\ desk[menus[t]].token = t
    /\ \A h \in Handle, s \in Stream :
         data[h].pipes[s] # 0 =>
           LET p == data[h].pipes[s]
           IN  htype[p] = "pipe" /\ data[p].n = data[h].n /\ data[p].stream = s

(* Every adapter or device the guest asks for is answered to it at most    *)
(* once, by the call it asked in or later, never before wgpu-native has    *)
(* answered, and never by another's callback: until then its place in the  *)
(* list is its own.  This holds as long as no processEvents inside a       *)
(* callback hands out the place of a callback that is still running        *)
(* (wapi_host_wgpu.c:155-168, 428-470).                                    *)
RequestsKept ==
    \A r \in DOMAIN asked \ tangled :
      LET a == asked[r]
      IN  /\ a.told <= 1 /\ (a.told = 1 => a.answered)
          /\ a.told = 0 =>
               states[a.s].pend[a.i] = [kind |-> a.kind, req |-> r, done |-> a.answered]

Unread(n) ==
    CASE net[n].kind = "tcp"  -> net[n].wire
      [] net[n].kind = "tls"  -> tls[n].plain \o tls[n].rx \o net[n].wire
      [] net[n].kind = "quic" -> quic[n].ring

(* The guest receives what the peer sent in its order, nothing twice, and  *)
(* nothing left out unless the QUIC ring was full; it is told of the end   *)
(* only when the peer is done and no byte that could be read is left       *)
(* (wapi_host_net.c:1087-1118 and the two sessions).                       *)
ReceivedInOrder ==
    \A n \in DOMAIN net :
      LET all == net[n].got \o Unread(n)
      IN  /\ ~net[n].lost => all = [i \in 1 .. net[n].sent |-> i]
          /\ \A i \in 1 .. Len(all) - 1 : all[i] < all[i + 1]
          /\ net[n].told => /\ net[n].fin
                            /\ Len(Unread(n)) < IF net[n].kind = "tls" THEN RecordSize ELSE 1

(* A blocking call that can be answered is: a receive when there is        *)
(* something or the peer is done, a send over QUIC, a connect over QUIC    *)
(* (its waits are bounded), a pipe once the child that held its other end  *)
(* is gone -- even if a child made later still runs.                       *)
Answerable ==
    \/ op.call = "recv" /\ (Unread(op.n) # <<>> \/ net[op.n].fin)
    \/ op.call = "send"
    \/ op.call = "connect" /\ net[op.n].kind = "quic"
    \/ op.call \in {"read", "write"} /\ op.n \notin alive

CallReturns == Answerable ~> Idle
=============================================================================
