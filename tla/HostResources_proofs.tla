------------------------ MODULE HostResources_proofs ------------------------
(***************************************************************************)
(* The types of the whole host, and the bytes that the guest receives, for *)
(* every size of the handle table and of the lists, any number of calls of *)
(* each kind and any peers.                                                *)
(*                                                                         *)
(* First the type invariant, with what every call in progress, every entry *)
(* of the table and every place of a list refers to: one lemma per action  *)
(* of each part. Then what every step does to the bytes of a connection.   *)
(***************************************************************************)
EXTENDS HostResources, SequenceTheorems, TLAPS

(* The entries of the table, by their types.                               *)
Data(k) == [n : 0 .. k, stream : Stream \cup {"none"}, pipes : [Stream -> Handle \cup {0}]]

Refers(t, d, k, conns, desks, gpus) ==
    /\ t \in {"process"} \cup DeskKind => d.n \in 1 .. k
    /\ t \in TokenKind => d.n \in DOMAIN desks
    /\ t = "pipe" => d.n \in 1 .. k /\ d.stream \in Stream
    /\ t = "conn" => d.n \in DOMAIN conns
    /\ t \in GpuType => d.n \in DOMAIN gpus
    /\ t = "instance" => gpus[d.n].addr \in Address

TableTypes ==
    /\ HandleTypeOK
    /\ data \in [Handle -> Data(made)]
    /\ \A h \in Handle : Refers(htype[h], data[h], made, net, desk, gpu)

(* The objects of the system: a pipe's end is of a stream, a socket and a  *)
(* stream of QUIC are of connections of their kinds.                       *)
What == {"parent", "child", "nul", "process", "thread", "socket", "tls", "session",
         "events", "conn", "stream", "window", "file", "menu", "tray", "gpu"}

Suits(o, k, conns) ==
    /\ o \in What \X (1 .. k) \X (Stream \cup {"none"})
    /\ o[1] = "child"  => o[3] \in Stream
    /\ o[1] = "socket" => o[2] \in DOMAIN conns /\ conns[o[2]].kind \in {"tcp", "tls"}
    /\ o[1] = "stream" => o[2] \in DOMAIN conns /\ conns[o[2]].kind = "quic"

OsTypes ==
    /\ made \in Nat /\ misused \in BOOLEAN /\ left \in [Kinds -> Nat]
    /\ \A o \in os : Suits(o, made, net)

(* What the call in progress is about.                                     *)
Op == [call : {"none", "create", "wrap", "read", "write", "wait", "connect", "close",
               "recv", "send", "make", "gpu", "request", "process"},
       at : {"none", "stdin", "stdout", "stderr", "spawn", "entry", "socket", "handshake",
             "quic", "free", "close conn", "connected", "close stream", "ready", "tcp",
             "tls", "wait", "native", "pipe"} \cup HandleType,
       n : Nat, h : Handle \cup {0}, cap : Nat,
       mode : [Stream -> {"inherit", "pipe", "null"}]]

OnEntry(type) == op.h \in Handle /\ htype[op.h] = type /\ op.n = data[op.h].n

QuicEnd == {"close stream", "close conn", "free"}

OpTypes ==
    /\ op \in Op
    /\ op.call = "none"    => op = NoOp
    /\ op.call = "create"  => op.at \in Stream \cup {"spawn", "entry"} /\ op.n \in 1 .. made
    /\ op.call = "wrap"    => op.at \in Stream /\ OnEntry("process")
    /\ op.call \in {"read", "write"} => op.at = "pipe" /\ OnEntry("pipe")
    /\ op.call = "wait"    => op.at = "process" /\ OnEntry("process")
    /\ op.call = "connect" =>
         /\ op.at \in {"socket", "handshake", "entry", "quic", "connected", "ready"} \cup QuicEnd
         /\ op.n \in DOMAIN net /\ op.h = 0
         /\ op.at = "socket" => net[op.n].kind \in {"tcp", "tls"}
         /\ op.at = "handshake" => net[op.n].kind = "tls"
         /\ op.at \in {"quic", "connected", "ready"} \cup QuicEnd => net[op.n].kind = "quic"
    /\ op.call = "close"   => op.at \in QuicEnd /\ OnEntry("conn") /\ net[op.n].kind = "quic"
    /\ op.call = "recv"    => /\ OnEntry("conn") /\ op.cap \in 1 .. MaxCap
                              /\ \/ op.at = net[op.n].kind
                                 \/ op.at = "wait" /\ net[op.n].kind = "quic"
    /\ op.call = "send"    => op.at = "wait" /\ OnEntry("conn") /\ net[op.n].kind = "quic"
    /\ op.call = "make"    => /\ op.at \in DeskKind /\ op.n \in 1 .. made
                              /\ op.at \in TokenKind => op.n \in DOMAIN desk
    /\ op.call = "gpu"     => /\ op.at \in GpuType /\ op.n \in DOMAIN gpu
                              /\ op.at = "instance" => gpu[op.n].addr \in Address
    /\ op.call = "request" => op.at = "native" /\ op.n \in DOMAIN asked
    /\ op.call = "process" => op.at = "native" /\ Len(frames) < MaxDepth

(* The state of each part.                                                 *)
ProcessTypes ==
    /\ alive \subseteq 1 .. made /\ alive \subseteq DOMAIN holds
    /\ \A n \in DOMAIN holds : holds[n] \subseteq {Child(m, s) : m \in 1 .. made, s \in Stream}
    /\ filled \subseteq (1 .. made) \X Stream

Byte == 1 .. MaxSent
Net  == [kind : {"tcp", "tls", "quic"}, wire : Seq(Byte), fin : BOOLEAN, sent : 0 .. MaxSent,
         got : Seq(Byte), told : BOOLEAN, lost : BOOLEAN]
TlsSession  == [rx : Seq(Byte), plain : Seq(Byte)]
QuicSession ==
    [conn : {"none", "starting", "up", "down"}, strm : {"none", "starting", "up", "down"},
     sending : BOOLEAN, cb : BOOLEAN, signals : SUBSET {"connected", "ready", "rx", "sent"},
     connected : BOOLEAN, failed : BOOLEAN, ring : Seq(Byte), shutdown : BOOLEAN]

ConnTypes ==
    /\ DOMAIN net \subseteq 1 .. made
    /\ net \in [DOMAIN net -> Net] /\ tls \in [DOMAIN net -> TlsSession]
    /\ quic \in [DOMAIN net -> QuicSession]
    /\ \A n \in DOMAIN net : Len(tls[n].plain) < RecordSize /\ Len(quic[n].ring) <= RingSize

DeskTypes ==
    /\ taken \in [TokenKind -> SUBSET (Nat \ {0})]
    /\ \A kind \in TokenKind : taken[kind] \subseteq Token[kind]
    /\ menus \in [SmallToken -> 0 .. made]
    /\ DOMAIN desk \subseteq 1 .. made
    /\ desk \in [DOMAIN desk -> [token : Nat, inner : 0 .. made]]
    /\ lost \subseteq {Object("menu", n) : n \in 1 .. made}

Place   == [kind : {"none", "adapter", "device"}, req : Nat, done : BOOLEAN]
List    == [addr : Address, pend : Seq(Place)]
Request == [kind : {"adapter", "device"}, inst : Nat, s : Nat, i : Nat,
            answered : BOOLEAN, told : Nat]

(* The lists and the requests: every place named is there.                 *)
At(s, i, lists) == s \in DOMAIN lists /\ i \in DOMAIN lists[s].pend

Asking == /\ states \in Seq(List) /\ asked \in Seq(Request)
          /\ \A s \in DOMAIN states :
               /\ Len(states[s].pend) <= MaxPending
               /\ \A i \in DOMAIN states[s].pend : states[s].pend[i].req \in DOMAIN asked
          /\ \A r \in DOMAIN asked : At(asked[r].s, asked[r].i, states)
          /\ frames \in Seq([s : Nat, i : Nat]) /\ Len(frames) <= MaxDepth
          /\ \A k \in DOMAIN frames : At(frames[k].s, frames[k].i, states)
          /\ tangled \subseteq DOMAIN asked

GpuTypes ==
    /\ DOMAIN gpu \subseteq 1 .. made
    /\ gpu \in [DOMAIN gpu -> [inst : Nat, addr : Address \cup {"none"}]]
    /\ leaked \subseteq {Native(n) : n \in 1 .. made}
    /\ Asking

Types == /\ TableTypes /\ OsTypes /\ OpTypes
         /\ ProcessTypes /\ ConnTypes /\ DeskTypes /\ GpuTypes

-----------------------------------------------------------------------------
(* The table.                                                              *)

(* Creations, connections and objects are added and keep what they are.    *)
Grows ==
    /\ made \in Nat /\ made' \in Nat /\ made <= made'
    /\ \A n \in DOMAIN net : n \in DOMAIN net' /\ net'[n].kind = net[n].kind
    /\ \A n \in DOMAIN desk : n \in DOMAIN desk'
    /\ \A n \in DOMAIN gpu : n \in DOMAIN gpu' /\ gpu'[n] = gpu[n]

(* A search of the table returns a free entry.                             *)
LEMMA Allocated ==
    ASSUME HandleTypeOK, NEW h, NEW t \in HandleType, HandleAlloc(h, t)
    PROVE  /\ h \in Handle /\ htype[h] = "free"
           /\ htype' = [htype EXCEPT ![h] = t] /\ HandleTypeOK'
<1>1. h \in Handle /\ htype[h] = "free"
  BY HandleAssumption DEF HandleAlloc, Found, FreeIn, Lowest, Handle, HandleTypeOK
<1>2. htype' \in [Handle -> HandleType \cup {"free"}] /\ next' \in First .. Limit
  BY <1>1, HandleAssumption DEF HandleAlloc, Handle, HandleTypeOK
<1> QED BY <1>1, <1>2 DEF HandleAlloc, HandleTypeOK, Handle

(* What an entry refers to stays there.                                    *)
LEMMA StillRefers ==
    ASSUME Grows, NEW t, NEW d, Refers(t, d, made, net, desk, gpu)
    PROVE  Refers(t, d, made', net', desk', gpu')
<1>1. d.n \in 1 .. made => d.n \in 1 .. made'
  BY DEF Grows
<1>2. d.n \in DOMAIN net => d.n \in DOMAIN net'
  BY DEF Grows
<1>3. d.n \in DOMAIN desk => d.n \in DOMAIN desk'
  BY DEF Grows
<1>4. d.n \in DOMAIN gpu => d.n \in DOMAIN gpu' /\ gpu'[d.n] = gpu[d.n]
  BY DEF Grows
<1>5. t = "instance" => t \in GpuType
  BY DEF GpuType
<1> QED BY <1>1, <1>2, <1>3, <1>4, <1>5 DEF Refers

(* So does its data have its type.                                         *)
LEMMA StillData == Grows => Data(made) \subseteq Data(made')
<1> SUFFICES ASSUME Grows PROVE Data(made) \subseteq Data(made')
  OBVIOUS
<1>1. 0 .. made \subseteq 0 .. made'
  BY DEF Grows
<1> QED BY <1>1 DEF Data, Handle

(* Entries that change refer to something, the others stay.                *)
LEMMA TableStep ==
    ASSUME TableTypes, Grows, HandleTypeOK',
           data' = [h \in Handle |-> data'[h]],
           \A h \in Handle :
             \/ htype'[h] = htype[h] /\ data'[h] = data[h]
             \/ data'[h] \in Data(made') /\ Refers(htype'[h], data'[h], made', net', desk', gpu')
    PROVE  TableTypes'
<1>1. ASSUME NEW h \in Handle
      PROVE  data'[h] \in Data(made') /\ Refers(htype'[h], data'[h], made', net', desk', gpu')
  <2>1. CASE htype'[h] = htype[h] /\ data'[h] = data[h]
    <3>1. data[h] \in Data(made) /\ Refers(htype[h], data[h], made, net, desk, gpu)
      BY DEF TableTypes
    <3>2. Refers(htype[h], data[h], made', net', desk', gpu')
      BY <3>1, StillRefers
    <3> QED BY <2>1, <3>1, <3>2, StillData
  <2> QED BY <2>1
<1>2. data' \in [Handle -> Data(made')]
  BY <1>1
<1> QED BY <1>1, <1>2 DEF TableTypes, Handle, Data

(* A table that nothing was done to.                                       *)
LEMMA TableKept ==
    ASSUME TableTypes, Grows, UNCHANGED <<htype, next, data>>
    PROVE  TableTypes'
<1>1. HandleTypeOK'
  BY DEF TableTypes, HandleTypeOK, Handle
<1>2. data' = [h \in Handle |-> data'[h]]
  BY DEF TableTypes
<1> QED BY <1>1, <1>2, TableStep

(* A new entry takes the place of none.                                    *)
LEMMA TableEntry ==
    ASSUME TableTypes, Grows, NEW h, NEW t \in HandleType, NEW d,
           Entry(h, t, d), d \in Data(made'), Refers(t, d, made', net', desk', gpu')
    PROVE  /\ TableTypes' /\ h \in Handle /\ htype[h] = "free"
           /\ htype' = [htype EXCEPT ![h] = t] /\ data' = [data EXCEPT ![h] = d]
<1>1. /\ h \in Handle /\ htype[h] = "free" /\ htype' = [htype EXCEPT ![h] = t]
      /\ data' = [data EXCEPT ![h] = d] /\ HandleTypeOK'
  BY Allocated DEF Entry, TableTypes
<1>2. htype \in [Handle -> HandleType \cup {"free"}] /\ data \in [Handle -> Data(made)]
  BY DEF TableTypes, HandleTypeOK
<1>3. data' = [g \in Handle |-> data'[g]]
  BY <1>1, <1>2
<1>4. ASSUME NEW g \in Handle
      PROVE  \/ htype'[g] = htype[g] /\ data'[g] = data[g]
             \/ data'[g] \in Data(made') /\ Refers(htype'[g], data'[g], made', net', desk', gpu')
  BY <1>1, <1>2
<1> QED BY <1>1, <1>3, <1>4, TableStep

(* An entry without a type refers to nothing.                              *)
LEMMA BlankData ==
    ASSUME NEW k \in Nat, NEW conns, NEW desks, NEW gpus
    PROVE Blank \in Data(k) /\ Refers("free", Blank, k, conns, desks, gpus)
<1>1. Blank \in Data(k)
  BY DEF Blank, Data, Stream
<1>2. "free" \notin {"process", "pipe", "conn", "instance"} \cup DeskKind \cup TokenKind \cup GpuType
  BY DEF DeskKind, TokenKind, GpuType
<1> QED BY <1>1, <1>2 DEF Refers

(* Entries that are freed.                                                 *)
LEMMA TableFreed ==
    ASSUME TableTypes, Grows, NEW H, FreeAll(H)
    PROVE  TableTypes'
<1>1. HandleTypeOK'
  BY DEF TableTypes, FreeAll, HandleTypeOK, Handle
<1>2. data' = [g \in Handle |-> data'[g]]
  BY DEF FreeAll
<1>3. Blank \in Data(made') /\ Refers("free", Blank, made', net', desk', gpu')
  BY BlankData DEF Grows
<1>4. ASSUME NEW g \in Handle
      PROVE  \/ htype'[g] = htype[g] /\ data'[g] = data[g]
             \/ data'[g] \in Data(made') /\ Refers(htype'[g], data'[g], made', net', desk', gpu')
  <2>1. CASE g \in H
    <3>1. htype'[g] = "free" /\ data'[g] = Blank
      BY <2>1 DEF FreeAll
    <3> QED BY <1>3, <3>1
  <2>2. CASE g \notin H
    BY <2>2 DEF FreeAll
  <2> QED BY <2>1, <2>2
<1> QED BY <1>1, <1>2, <1>4, TableStep

-----------------------------------------------------------------------------
(* The objects of the system and the call in progress.                     *)

(* An object that there was suits what there is now.                       *)
LEMMA StillSuits ==
    ASSUME Grows, NEW o, Suits(o, made, net)
    PROVE  Suits(o, made', net')
<1>1. 1 .. made \subseteq 1 .. made'
  BY DEF Grows
<1>2. o \in What \X (1 .. made') \X (Stream \cup {"none"})
  BY <1>1 DEF Suits
<1>3. o[2] \in DOMAIN net => o[2] \in DOMAIN net' /\ net'[o[2]].kind = net[o[2]].kind
  BY DEF Grows
<1> QED BY <1>2, <1>3 DEF Suits

(* Objects are closed or made.                                             *)
LEMMA OsStep ==
    ASSUME Grows, OsTypes, misused' \in BOOLEAN, left' \in [Kinds -> Nat],
           \A o \in os' : o \in os \/ Suits(o, made', net')
    PROVE  OsTypes'
<1>1. made' \in Nat /\ Kinds' = Kinds
  BY DEF Grows, Kinds
<1>2. \A o \in os' : Suits(o, made', net')
  BY StillSuits DEF OsTypes
<1> QED BY <1>1, <1>2 DEF OsTypes

(* The account of objects closed and used.                                 *)
LEMMA Accounts ==
    ASSUME OsTypes
    PROVE  /\ \A S : Open(S) => os' = os \cup S /\ misused' = misused /\ misused' \in BOOLEAN
           /\ \A S : Close(S) => os' \subseteq os /\ misused' \in BOOLEAN
           /\ \A S : Uses(S) => misused' \in BOOLEAN
           /\ \A kind \in Kinds : Spend(kind) => left' \in [Kinds -> Nat]
<1>1. \A S : Open(S) => os' = os \cup S /\ misused' = misused /\ misused' \in BOOLEAN
  BY DEF OsTypes, Open
<1>2. \A S : Close(S) => os' \subseteq os /\ misused' \in BOOLEAN
  BY DEF OsTypes, Close
<1>3. \A S : Uses(S) => misused' \in BOOLEAN
  BY DEF OsTypes, Uses
<1>4. ASSUME NEW kind \in Kinds, Spend(kind) PROVE left' \in [Kinds -> Nat]
  BY <1>4 DEF OsTypes, Spend
<1> QED BY <1>1, <1>2, <1>3, <1>4

(* No call is in progress when one has returned.                           *)
LEMMA OpDone == op' = NoOp => OpTypes'
<1> SUFFICES ASSUME op' = NoOp PROVE OpTypes'
  OBVIOUS
<1>1. NoOp \in Op'
  BY DEF NoOp, Op, Stream
<1>2. NoOp.call = "none"
  BY DEF NoOp
<1> QED BY <1>1, <1>2 DEF OpTypes

(* A call in progress is about what it was about, as long as the entry it  *)
(* was made on stays.                                                      *)
LEMMA OpKept ==
    ASSUME Grows, OpTypes, op' = op, TableTypes,
           op.h \in Handle => htype'[op.h] = htype[op.h] /\ data'[op.h].n = data[op.h].n,
           op.call = "request" => op.n \in DOMAIN asked',
           op.call = "process" => frames' = frames
    PROVE  OpTypes'
<1>1. op \in Op' /\ (op.call = "none" => op = NoOp')
  BY DEF Op, OpTypes, Handle, NoOp
<1>2. op.n \in 1 .. made => op.n \in 1 .. made'
  BY DEF Grows
<1>3. op.n \in DOMAIN net => op.n \in DOMAIN net' /\ net'[op.n].kind = net[op.n].kind
  BY DEF Grows
<1>4. op.n \in DOMAIN desk => op.n \in DOMAIN desk'
  BY DEF Grows
<1>5. op.n \in DOMAIN gpu => op.n \in DOMAIN gpu' /\ gpu'[op.n] = gpu[op.n]
  BY DEF Grows
<1>6. \A type : OnEntry(type) => OnEntry(type)'
  BY DEF OnEntry, Handle
<1>7. OnEntry("conn") => op.n \in DOMAIN net
  BY DEF OnEntry, TableTypes, Refers
<1> QED BY <1>1, <1>2, <1>3, <1>4, <1>5, <1>6, <1>7 DEF OpTypes, GpuType, DeskKind, TokenKind

-----------------------------------------------------------------------------
(* The parts that a step leaves alone.                                     *)

LEMMA ProcessKept ==
    ASSUME ProcessTypes, Grows, UNCHANGED processVars PROVE ProcessTypes'
<1>1. 1 .. made \subseteq 1 .. made'
  BY DEF Grows
<1> QED BY <1>1 DEF ProcessTypes, processVars

(* A step that leaves the connections alone keeps their types.             *)
LEMMA ConnKept ==
    ASSUME ConnTypes, Grows, UNCHANGED connVars PROVE ConnTypes'
<1>1. 1 .. made \subseteq 1 .. made'
  BY DEF Grows
<1> QED BY <1>1 DEF ConnTypes, connVars, Net, TlsSession, QuicSession, Byte

(* A step that leaves the desktop's objects alone keeps their types.       *)
LEMMA DeskKept ==
    ASSUME DeskTypes, Grows, UNCHANGED deskVars PROVE DeskTypes'
<1>1. 1 .. made \subseteq 1 .. made' /\ 0 .. made \subseteq 0 .. made'
  BY DEF Grows
<1> QED BY <1>1 DEF DeskTypes, deskVars, SmallToken, TokenKind, Object

(* A step that leaves the GPU's objects alone keeps their types.           *)
LEMMA GpuKept ==
    ASSUME GpuTypes, Grows, UNCHANGED gpuVars PROVE GpuTypes'
<1>1. 1 .. made \subseteq 1 .. made'
  BY DEF Grows
<1> QED BY <1>1 DEF GpuTypes, Asking, At, gpuVars, List, Place, Request, Native, Object

(* A step that counts creations and no more is one by which things grow.   *)
LEMMA GrowsIf ==
    ASSUME OsTypes, made' \in {made, made + 1}, UNCHANGED <<net, desk, gpu>>
    PROVE  Grows
BY DEF OsTypes, Grows

-----------------------------------------------------------------------------
(* Processes.                                                              *)

ForProcess(s) == {Child(op.n, s), Parent(op.n, s), Nul(op.n, s)}

(* A child's streams and the objects that set them up.                     *)
LEMMA StreamObjects ==
    ASSUME NEW s \in Stream, op.n \in 1 .. made, OpTypes, Grows
    PROVE  /\ NeededFor(s) \subseteq ForProcess(s)
           /\ \A o \in ForProcess(s) : Suits(o, made', net')
<1>1. NeededFor(s) \subseteq ForProcess(s)
  <2>1. op.mode[s] \in {"inherit", "pipe", "null"}
    BY DEF OpTypes, Op
  <2> QED BY <2>1 DEF NeededFor, ForProcess
<1>2. op.n \in 1 .. made'
  BY DEF Grows
<1>3. \A o \in ForProcess(s) : Suits(o, made', net')
  BY <1>2 DEF ForProcess, Suits, What, Child, Parent, Nul
<1> QED BY <1>1, <1>3

(* The call create begins with a process of its own number.                *)
LEMMA CreateCallTypes ==
    ASSUME Types, NEW mode \in Modes, CreateCall(mode), UNCHANGED <<connVars, otherVars>>
    PROVE  Types'
<1>1. Grows
  BY GrowsIf DEF Types, CreateCall, connVars, otherVars, deskVars, gpuVars
<1>2. TableTypes'
  BY <1>1, TableKept DEF Types, CreateCall
<1>3. OsTypes'
  <2>1. misused' \in BOOLEAN /\ left' \in [Kinds -> Nat] /\ os' = os
    BY Accounts DEF Types, OsTypes, CreateCall, Kinds
  <2> QED BY <1>1, <2>1, OsStep DEF Types
<1>4. OpTypes'
  <2>1. op' = [call |-> "create", at |-> "stdin", n |-> made', h |-> 0, cap |-> 0,
               mode |-> mode]
    BY DEF CreateCall, NoOp
  <2>4. made' \in Nat \ {0}
    BY DEF CreateCall, Types, OsTypes
  <2>2. mode \in [Stream -> {"inherit", "pipe", "null"}]
    BY ProcessAssumption
  <2>3. /\ op'.call = "create" /\ op'.at = "stdin" /\ op'.n \in 1 .. made'
        /\ op' \in Op'
    BY <2>1, <2>2, <2>4 DEF Op
  <2> QED BY <2>3 DEF OpTypes, Stream
<1>5. ProcessTypes'
  BY <1>1, ProcessKept DEF Types, CreateCall
<1>6. ConnTypes' /\ DeskTypes' /\ GpuTypes'
  BY <1>1, ConnKept, DeskKept, GpuKept DEF Types, otherVars
<1> QED BY <1>2, <1>3, <1>4, <1>5, <1>6 DEF Types

(* The call goes on at another place, or returns.                          *)
LEMMA OpGoes ==
    ASSUME OpTypes, NEW at, Goto(at),
           at \in {"none", "stdin", "stdout", "stderr", "spawn", "entry", "socket", "handshake",
             "quic", "free", "close conn", "connected", "close stream", "ready", "tcp",
             "tls", "wait", "native", "pipe"}
    PROVE  /\ op' \in Op' /\ op'.at = at /\ op'.call = op.call /\ op'.n = op.n
           /\ op'.h = op.h /\ op'.cap = op.cap /\ op'.mode = op.mode
BY DEF OpTypes, Op, Goto, Handle

(* A pipe of create is made, or refused, for one of the three streams.     *)
LEMMA SetUpTypes ==
    ASSUME Types, NEW s \in Stream, SetUp(s), UNCHANGED <<connVars, otherVars>>
    PROVE  Types'
<1>1. Grows
  BY GrowsIf DEF Types, SetUp, connVars, otherVars, deskVars, gpuVars
<1>2. TableTypes'
  BY <1>1, TableKept DEF Types, SetUp
<1>7. op.call = "create" /\ op.n \in 1 .. made
  BY DEF Types, OpTypes, SetUp, In
<1>3. OsTypes'
  <2>1. misused' \in BOOLEAN /\ (os' \subseteq os \/ os' = os \cup NeededFor(s))
    BY Accounts DEF Types, SetUp
  <2>2. \A o \in NeededFor(s) : Suits(o, made', net')
    BY <1>1, <1>7, StreamObjects DEF Types
  <2> QED BY <1>1, <2>1, <2>2, OsStep DEF Types, OsTypes, SetUp
<1>4. OpTypes'
  <2>1. CASE Goto(Following[s])
    <3>1. Following[s] \in {"stdout", "stderr", "spawn"}
      BY DEF Following, Stream
    <3>2. op' \in Op' /\ op'.at = Following[s] /\ op'.call = op.call /\ op'.n = op.n
      BY <2>1, <3>1, OpGoes DEF Types
    <3>3. op'.n \in 1 .. made'
      BY <1>1, <1>7, <3>2 DEF Grows
    <3> QED BY <1>7, <3>1, <3>2, <3>3 DEF OpTypes, Stream
  <2> QED BY <2>1, OpDone DEF SetUp, Return
<1>5. ProcessTypes'
  BY <1>1, ProcessKept DEF Types, SetUp
<1>6. ConnTypes' /\ DeskTypes' /\ GpuTypes'
  BY <1>1, ConnKept, DeskKept, GpuKept DEF Types, otherVars
<1> QED BY <1>2, <1>3, <1>4, <1>5, <1>6 DEF Types

(* What a step of processes does not touch.                                *)
LEMMA ProcessRest ==
    ASSUME Types, UNCHANGED <<connVars, otherVars>>, made' \in {made, made + 1}
    PROVE  Grows /\ ConnTypes' /\ DeskTypes' /\ GpuTypes'
<1>1. Grows
  BY GrowsIf DEF Types, connVars, otherVars, deskVars, gpuVars
<1> QED BY <1>1, ConnKept, DeskKept, GpuKept DEF Types, otherVars

(* CreateProcess starts the process or create undoes its pipes.            *)
LEMMA SpawnTypes ==
    ASSUME Types, SpawnFails \/ Spawn, UNCHANGED <<connVars, otherVars>>
    PROVE  Types'
<1>1. Grows /\ ConnTypes' /\ DeskTypes' /\ GpuTypes'
  BY ProcessRest DEF SpawnFails, Spawn
<1>2. TableTypes'
  BY <1>1, TableKept DEF Types, SpawnFails, Spawn
<1>3. op.call = "create" /\ op.n \in 1 .. made /\ op.n \in 1 .. made' /\ made' = made
  BY DEF Types, OpTypes, SpawnFails, Spawn, In
<1>4. OsTypes'
  <2>1. misused' \in BOOLEAN /\ left' \in [Kinds -> Nat]
    BY Accounts DEF Types, OsTypes, SpawnFails, Spawn
  <2>2. \A o \in {Object("process", op.n), Object("thread", op.n)} : Suits(o, made', net')
    BY <1>3 DEF Suits, What, Object
  <2>3. os' \subseteq os \cup {Object("process", op.n), Object("thread", op.n)}
    BY Accounts DEF Types, SpawnFails, Spawn
  <2> QED BY <1>1, <2>1, <2>2, <2>3, OsStep DEF Types
<1>5. OpTypes'
  <2>1. CASE Goto("entry")
    <3>1. op' \in Op' /\ op'.at = "entry" /\ op'.call = op.call /\ op'.n = op.n
      BY <2>1, OpGoes DEF Types
    <3> QED BY <1>3, <3>1 DEF OpTypes
  <2> QED BY <2>1, OpDone DEF SpawnFails, Spawn, Return
<1>6. ProcessTypes'
  <2>1. CASE SpawnFails
    BY <1>1, <2>1, ProcessKept DEF Types, SpawnFails
  <2>2. CASE Spawn
    <3>1. /\ alive' = alive \cup {op.n} /\ filled' = filled
          /\ holds' = Extended(holds, op.n, IF \A s \in Stream : op.mode[s] = "inherit" THEN {}
                                        ELSE {o \in os : o[1] = "child"})
      BY <2>2 DEF Spawn
    <3>2. ASSUME NEW o \in os, o[1] = "child"
          PROVE  o \in {Child(m, s) : m \in 1 .. made, s \in Stream}
      <4>1. Suits(o, made, net)
        BY DEF Types, OsTypes
      <4>2. PICK m \in 1 .. made, s \in Stream : o = <<"child", m, s>>
        BY <3>2, <4>1 DEF Suits
      <4> QED BY <4>2 DEF Child
    <3>3. \A n \in DOMAIN holds' :
            \/ n \in DOMAIN holds /\ holds'[n] = holds[n]
            \/ holds'[n] \subseteq {o \in os : o[1] = "child"}
      BY <3>1 DEF Extended
    <3>4. DOMAIN holds' = DOMAIN holds \cup {op.n}
      BY <3>1 DEF Extended
    <3>5. \A n \in DOMAIN holds' : holds'[n] \subseteq {Child(m, s) : m \in 1 .. made, s \in Stream}
      BY <3>2, <3>3 DEF Types, ProcessTypes
    <3>6. alive' \subseteq 1 .. made' /\ alive' \subseteq DOMAIN holds'
      <4>1. alive \subseteq 1 .. made /\ alive \subseteq DOMAIN holds
        BY DEF Types, ProcessTypes
      <4> QED BY <1>3, <3>1, <3>4, <4>1
    <3>7. filled' \subseteq (1 .. made') \X Stream
      BY <1>3, <3>1 DEF Types, ProcessTypes
    <3> QED BY <1>3, <3>5, <3>6, <3>7 DEF ProcessTypes, Child
  <2> QED BY <2>1, <2>2
<1> QED BY <1>1, <1>2, <1>4, <1>5, <1>6 DEF Types

(* The process gets its entry, or create gives everything back.            *)
LEMMA EnterProcessTypes ==
    ASSUME Types, EnterProcess, UNCHANGED <<connVars, otherVars>>
    PROVE  Types'
<1>1. Grows /\ ConnTypes' /\ DeskTypes' /\ GpuTypes'
  BY ProcessRest DEF EnterProcess
<1>2. op \in Op /\ op.call = "create" /\ op.n \in 1 .. made /\ op.n \in 1 .. made' /\ made' = made
  BY DEF Types, OpTypes, EnterProcess, In
<1>3. misused' \in BOOLEAN /\ os' \subseteq os /\ left' = left /\ left \in [Kinds -> Nat]
  BY Accounts DEF Types, OsTypes, EnterProcess
<1>4. OsTypes'
  BY <1>1, <1>3, OsStep DEF Types
<1>5. ProcessTypes'
  <2>1. alive' \subseteq alive /\ holds' = holds /\ filled' = filled
    BY DEF EnterProcess
  <2> QED BY <1>2, <2>1 DEF Types, ProcessTypes, Child
<1>6. CASE TableFull /\ Return /\ UNCHANGED <<htype, next, data>>
  BY <1>1, <1>4, <1>5, <1>6, TableKept, OpDone DEF Types, Return
<1>7. ASSUME NEW h \in Handle, Entry(h, "process", [Blank EXCEPT !.n = op.n]),
             op' = [op EXCEPT !.call = "wrap", !.at = "stdin", !.h = h]
      PROVE  Types'
  <2>1. PICK d : d = [Blank EXCEPT !.n = op.n]
    OBVIOUS
  <2>2. d \in Data(made') /\ d.n = op.n
    BY <1>2, <2>1 DEF Blank, Data, Stream
  <2>3. Refers("process", d, made', net', desk', gpu')
    BY <1>2, <2>2 DEF Refers, GpuType, TokenKind
  <2>4. /\ TableTypes' /\ htype' = [htype EXCEPT ![h] = "process"]
        /\ data' = [data EXCEPT ![h] = d]
    BY <1>1, <1>7, <2>1, <2>2, <2>3, TableEntry, ObjectAssumption DEF Types
  <2>5. htype'[h] = "process" /\ data'[h].n = op.n
    BY <2>2, <2>4 DEF Types, TableTypes, HandleTypeOK
  <2>6. op' \in Op' /\ op'.call = "wrap" /\ op'.at = "stdin" /\ op'.h = h /\ op'.n = op.n
    BY <1>2, <1>7 DEF Op, Handle
  <2>7. OpTypes'
    BY <2>5, <2>6 DEF OpTypes, OnEntry, Stream, Handle
  <2> QED BY <1>1, <1>4, <1>5, <2>4, <2>7 DEF Types
<1> QED BY <1>6, <1>7 DEF EnterProcess

(* The entries but one are about what they were about.                     *)
OthersStay(h) ==
    \A g \in Handle : g # h => data'[g].n = data[g].n /\ data'[g].stream = data[g].stream

(* A pipe's new entry, in the table and in its process.                    *)
Wraps(s, h) ==
    /\ HandleAlloc(h, "pipe")
    /\ data' = [data EXCEPT ![h] = [Blank EXCEPT !.n = op.n, !.stream = s],
                            ![op.h].pipes[s] = h]

(* Entering one pipe writes the pipe's entry and the field of its process. *)
LEMMA WrapEntry ==
    ASSUME TableTypes, Grows, NEW s \in Stream, OnEntry("process"), op.n \in 1 .. made,
           made' = made, NEW h, Wraps(s, h)
    PROVE  /\ TableTypes' /\ h \in Handle /\ htype[h] = "free" /\ h # op.h
           /\ htype' = [htype EXCEPT ![h] = "pipe"]
           /\ data'[h] = [Blank EXCEPT !.n = op.n, !.stream = s]
           /\ data'[op.h] = [data[op.h] EXCEPT !.pipes = [@ EXCEPT ![s] = h]]
           /\ \A g \in Handle \ {h, op.h} : data'[g] = data[g]
           /\ OthersStay(h)
<1>1. h \in Handle /\ htype[h] = "free" /\ htype' = [htype EXCEPT ![h] = "pipe"] /\ HandleTypeOK'
  BY Allocated, ObjectAssumption DEF TableTypes, Wraps
<1>2. op.h \in Handle /\ h # op.h /\ htype[op.h] = "process"
  BY <1>1 DEF OnEntry
<1>3. data \in [Handle -> Data(made)] /\ htype \in [Handle -> HandleType \cup {"free"}]
  BY DEF TableTypes, HandleTypeOK
<1>4. PICK d : d = [Blank EXCEPT !.n = op.n, !.stream = s]
  OBVIOUS
<1>5. PICK e : e = [data[op.h] EXCEPT !.pipes = [@ EXCEPT ![s] = h]]
  OBVIOUS
<1>6. data' = [data EXCEPT ![h] = d, ![op.h] = e]
  BY <1>2, <1>4, <1>5 DEF Wraps
<1>7. /\ data'[h] = d /\ data'[op.h] = e
      /\ \A g \in Handle \ {h, op.h} : data'[g] = data[g]
      /\ data' = [g \in Handle |-> data'[g]]
  BY <1>1, <1>2, <1>3, <1>6
<1>8. d \in Data(made) /\ d.n = op.n /\ d.stream = s
  <2>1. d = [n |-> op.n, stream |-> s, pipes |-> [t \in Stream |-> 0]]
    BY <1>4 DEF Blank
  <2>2. [t \in Stream |-> 0] \in [Stream -> Handle \cup {0}] /\ op.n \in 0 .. made
    BY DEF Grows
  <2> QED BY <2>1, <2>2 DEF Data
<1>9. /\ e \in Data(made) /\ e.n = data[op.h].n /\ e.stream = data[op.h].stream
  BY <1>1, <1>2, <1>3, <1>5 DEF Data
<1>10. Refers("pipe", d, made', net', desk', gpu')
  BY <1>8 DEF Refers, GpuType, DeskKind, TokenKind
<1>11. Refers("process", e, made', net', desk', gpu')
  BY <1>9 DEF Refers, GpuType, DeskKind, TokenKind, OnEntry
<1>12. /\ htype'[h] = "pipe" /\ htype'[op.h] = "process"
       /\ \A g \in Handle \ {h, op.h} : htype'[g] = htype[g]
  BY <1>1, <1>2, <1>3
<1>13. TableTypes'
  <2>1. ASSUME NEW g \in Handle
        PROVE  \/ htype'[g] = htype[g] /\ data'[g] = data[g]
               \/ data'[g] \in Data(made') /\ Refers(htype'[g], data'[g], made', net', desk', gpu')
    <3>1. CASE g = h
      BY <1>7, <1>8, <1>10, <1>12, <3>1
    <3>2. CASE g = op.h
      BY <1>7, <1>9, <1>11, <1>12, <3>2
    <3>3. CASE g \notin {h, op.h}
      BY <1>7, <1>12, <3>3
    <3> QED BY <3>1, <3>2, <3>3
  <2> QED BY <1>1, <1>7, <2>1, TableStep
<1>14. OthersStay(h)
  BY <1>7, <1>9 DEF OthersStay
<1> QED BY <1>1, <1>2, <1>4, <1>5, <1>7, <1>13, <1>14

(* create enters the pipes of the three streams one by one.                *)
LEMMA WrapTypes ==
    ASSUME Types, NEW s \in Stream, Wrap(s), UNCHANGED <<connVars, otherVars>>
    PROVE  Types'
<1>1. Grows /\ ConnTypes' /\ DeskTypes' /\ GpuTypes'
  BY ProcessRest DEF Wrap
<1>2. op.call = "wrap" /\ OnEntry("process") /\ op.at = s /\ made' = made
  BY DEF Types, OpTypes, Wrap, In
<1>3. op.n \in 1 .. made
  BY <1>2 DEF OnEntry, Types, TableTypes, Refers
<1>4. misused' \in BOOLEAN /\ os' \subseteq os /\ left' = left /\ left \in [Kinds -> Nat]
  BY Accounts DEF Types, OsTypes, Wrap
<1>5. OsTypes'
  BY <1>1, <1>4, OsStep DEF Types
<1>6. ProcessTypes'
  BY <1>1, ProcessKept DEF Types, Wrap
<1>7. TableTypes' /\ (op' = NoOp \/ OnEntry("process")')
  <2>1. IF s = "stderr" THEN op' = NoOp ELSE Goto(Following[s])
    BY DEF Wrap, Return
  <2>2. op' = NoOp \/ (op'.h = op.h /\ op'.n = op.n)
    <3>1. CASE s = "stderr"
      BY <2>1, <3>1
    <3>2. CASE s # "stderr"
      <4>1. Goto(Following[s]) /\ Following[s] \in {"stdout", "stderr"}
        BY <2>1, <3>2 DEF Following, Stream
      <4> QED BY <4>1, OpGoes DEF Types
    <3> QED BY <3>1, <3>2
  <2>3. CASE UNCHANGED <<htype, next, data>>
    <3>1. TableTypes'
      BY <1>1, <2>3, TableKept DEF Types
    <3>2. htype' = htype /\ data' = data
      BY <2>3
    <3> QED BY <1>2, <2>2, <3>1, <3>2 DEF OnEntry, Handle
  <2>4. ASSUME NEW h, Wraps(s, h)
        PROVE  TableTypes' /\ (op' = NoOp \/ OnEntry("process")')
    <3>1. /\ TableTypes' /\ h \in Handle /\ htype[h] = "free" /\ h # op.h
          /\ htype' = [htype EXCEPT ![h] = "pipe"]
          /\ \A g \in Handle : g # h => data'[g].n = data[g].n
      <4>1. TableTypes
        BY DEF Types
      <4>2. Grows /\ OnEntry("process") /\ op.n \in 1 .. made /\ made' = made /\ Wraps(s, h)
        BY <1>1, <1>2, <1>3, <2>4
      <4>3. TableTypes'
        BY <4>1, <4>2, WrapEntry
      <4>4. htype' = [htype EXCEPT ![h] = "pipe"]
        BY <4>1, <4>2, WrapEntry
      <4>5. h # op.h
        BY <4>1, <4>2, WrapEntry
      <4>6. h \in Handle /\ htype[h] = "free"
        BY <4>1, <4>2, WrapEntry
      <4>7. OthersStay(h)
        BY <4>1, <4>2, WrapEntry
      <4> QED BY <4>3, <4>4, <4>5, <4>6, <4>7 DEF OthersStay
    <3>2. htype \in [Handle -> HandleType \cup {"free"}]
      BY DEF Types, TableTypes, HandleTypeOK
    <3> QED BY <1>2, <2>2, <3>1, <3>2 DEF OnEntry, Handle
  <2>5. \/ UNCHANGED <<htype, next, data>>
        \/ \E h \in Handle : Wraps(s, h)
    BY DEF Wrap, Wraps
  <2> QED BY <2>3, <2>4, <2>5
<1>8. OpTypes'
  <2>1. CASE op' = NoOp
    BY <2>1, OpDone
  <2>2. CASE op' # NoOp
    <3>1. s # "stderr" /\ Goto(Following[s]) /\ Following[s] \in {"stdout", "stderr"}
      BY <2>2 DEF Wrap, Return, Following, Stream
    <3>2. op' \in Op' /\ op'.at = Following[s] /\ op'.call = op.call
      BY <3>1, OpGoes DEF Types
    <3> QED BY <1>2, <1>7, <2>2, <3>1, <3>2 DEF OpTypes, Stream
  <2> QED BY <2>1, <2>2
<1> QED BY <1>1, <1>5, <1>6, <1>7, <1>8 DEF Types

(* A pipe that is closed leaves the table and its process.                 *)
LEMMA PipeCloseTypes ==
    ASSUME Types, NEW h \in Handle, PipeClose(h), UNCHANGED <<connVars, otherVars>>
    PROVE  Types'
<1>1. Grows /\ ConnTypes' /\ DeskTypes' /\ GpuTypes'
  BY ProcessRest DEF PipeClose
<1>2. OsTypes'
  <2>1. misused' \in BOOLEAN /\ os' \subseteq os /\ left' = left /\ left \in [Kinds -> Nat]
    BY Accounts DEF Types, OsTypes, PipeClose
  <2> QED BY <1>1, <2>1, OsStep DEF Types
<1>3. ProcessTypes'
  BY <1>1, ProcessKept DEF Types, PipeClose
<1>4. OpTypes'
  BY OpDone DEF PipeClose, Types, OpTypes, Idle
<1>5. TableTypes'
  <2>1. HandleTypeOK'
    BY HandleAssumption DEF PipeClose, Types, TableTypes, HandleTypeOK, Handle
  <2>2. htype' = [htype EXCEPT ![h] = "free"] /\ htype \in [Handle -> HandleType \cup {"free"}]
    BY DEF PipeClose, Types, TableTypes, HandleTypeOK
  <2>3. data' = [g \in Handle |-> data'[g]]
    BY DEF PipeClose
  <2>4. ASSUME NEW g \in Handle
        PROVE  \/ htype'[g] = htype[g] /\ data'[g] = data[g]
               \/ data'[g] \in Data(made') /\ Refers(htype'[g], data'[g], made', net', desk', gpu')
    <3>1. CASE g = h
      <4>1. htype'[g] = "free" /\ data'[g] = Blank
        BY <2>2, <3>1 DEF PipeClose
      <4> QED BY <1>1, <4>1, BlankData DEF Grows
    <3>2. CASE g # h /\ htype[g] # "process"
      BY <2>2, <3>2 DEF PipeClose
    <3>3. CASE g # h /\ htype[g] = "process"
      <4>1. PICK d : d = [data[g] EXCEPT !.pipes = [s \in Stream |-> IF @[s] = h THEN 0 ELSE @[s]]]
        OBVIOUS
      <4>2. htype'[g] = htype[g] /\ data'[g] = d
        BY <2>2, <3>3, <4>1 DEF PipeClose
      <4>3. data[g] \in Data(made) /\ Refers(htype[g], data[g], made, net, desk, gpu)
        BY DEF Types, TableTypes
      <4>4. d \in Data(made) /\ d.n = data[g].n /\ d.stream = data[g].stream
        BY <4>1, <4>3 DEF Data
      <4>5. Refers(htype[g], d, made, net, desk, gpu)
        BY <4>3, <4>4 DEF Refers
      <4> QED BY <1>1, <4>2, <4>4, <4>5, StillRefers, StillData
    <3> QED BY <3>1, <3>2, <3>3
  <2> QED BY <1>1, <2>1, <2>3, <2>4, TableStep DEF Types
<1> QED BY <1>1, <1>2, <1>3, <1>4, <1>5 DEF Types

(* A call on an entry begins.                                              *)
LEMMA BeginsOn ==
    ASSUME Types, NEW h \in Handle, NEW type, NEW call, NEW at, IsA(h, type), Begin(call, at, h),
           UNCHANGED <<htype, data>>
    PROVE  /\ op.call = "none" /\ op'.call = call /\ op'.at = at /\ OnEntry(type)'
           /\ op'.cap = 0 /\ op'.n \in Nat
           /\ /\ call \in {"read", "write", "wait", "close", "send"}
              /\ at \in {"pipe", "process", "close stream", "wait"}
              => op' \in Op'
<1>1. op' = [NoOp EXCEPT !.call = call, !.at = at, !.h = h, !.n = data[h].n] /\ op.call = "none"
  BY DEF Begin, Idle
<1>2. op' = [call |-> call, at |-> at, n |-> data[h].n, h |-> h, cap |-> 0,
             mode |-> [s \in Stream |-> "inherit"]]
  BY <1>1 DEF NoOp
<1>3. data[h].n \in Nat /\ [s \in Stream |-> "inherit"] \in [Stream -> {"inherit", "pipe", "null"}]
  BY DEF Types, TableTypes, Data, OsTypes
<1>4. OnEntry(type)'
  BY <1>2 DEF OnEntry, IsA, Handle
<1>5. "process" \in HandleType
  BY ObjectAssumption
<1>6. ASSUME call \in {"read", "write", "wait", "close", "send"},
             at \in {"pipe", "process", "close stream", "wait"}
      PROVE  op' \in Op'
  BY <1>2, <1>3, <1>5, <1>6 DEF Op, Handle
<1>7. op'.call = call /\ op'.at = at /\ op'.cap = 0 /\ op'.n \in Nat
  BY <1>2, <1>3
<1> QED BY <1>1, <1>4, <1>6, <1>7

(* A read, a write or a wait begins on an entry that it names.             *)
LEMMA ProcessCallTypes ==
    ASSUME Types, NEW h \in Handle, PipeCall(h) \/ WaitCall(h), UNCHANGED <<connVars, otherVars>>
    PROVE  Types'
<1>1. Grows /\ ConnTypes' /\ DeskTypes' /\ GpuTypes' /\ TableTypes' /\ ProcessTypes'
  BY ProcessRest, TableKept, ProcessKept DEF Types, PipeCall, WaitCall
<1>2. OsTypes'
  <2>1. misused' \in BOOLEAN /\ os' \subseteq os /\ left' = left /\ left \in [Kinds -> Nat]
    BY DEF Types, OsTypes, PipeCall, WaitCall
  <2> QED BY <1>1, <2>1, OsStep DEF Types
<1>3. OpTypes'
  <2>1. CASE PipeCall(h)
    <3>1. PICK call \in {"read", "write"} : Begin(call, "pipe", h)
      BY <2>1 DEF PipeCall
    <3>2. op'.call = call /\ op'.at = "pipe" /\ OnEntry("pipe")' /\ op' \in Op'
      BY <2>1, <3>1, BeginsOn DEF PipeCall
    <3> QED BY <3>2 DEF OpTypes
  <2>2. CASE WaitCall(h)
    <3>1. PICK call \in {"wait"}, at \in {"process"} : Begin(call, at, h)
      BY <2>2 DEF WaitCall
    <3>2. op'.call = call /\ op'.at = at /\ OnEntry("process")' /\ op' \in Op'
      BY <2>2, <3>1, BeginsOn DEF WaitCall
    <3> QED BY <3>2 DEF OpTypes
  <2> QED BY <2>1, <2>2
<1> QED BY <1>1, <1>2, <1>3 DEF Types

(* A read or a write of a pipe returns.                                    *)
LEMMA PipeReturnsTypes ==
    ASSUME Types, PipeReturns \/ WaitReturns, UNCHANGED <<connVars, otherVars>>
    PROVE  Types'
<1>1. Grows /\ ConnTypes' /\ DeskTypes' /\ GpuTypes' /\ TableTypes'
  BY ProcessRest, TableKept DEF Types, PipeReturns, WaitReturns
<1>2. OsTypes'
  <2>1. misused' \in BOOLEAN /\ os' \subseteq os /\ left' = left /\ left \in [Kinds -> Nat]
    BY Accounts DEF Types, OsTypes, PipeReturns, WaitReturns
  <2> QED BY <1>1, <2>1, OsStep DEF Types
<1>3. OpTypes'
  BY OpDone DEF PipeReturns, WaitReturns, Return
<1>4. ProcessTypes'
  <2>1. CASE WaitReturns
    BY <1>1, <2>1, ProcessKept DEF Types, WaitReturns
  <2>2. CASE PipeReturns
    <3>1. OnEntry("pipe") /\ op.n \in 1 .. made /\ data[op.h].stream \in Stream
      BY <2>2 DEF Types, OpTypes, PipeReturns, OnEntry, TableTypes, Refers
    <3>2. alive' = alive /\ holds' = holds /\ made' = made
      BY <2>2 DEF PipeReturns
    <3>3. filled' \subseteq filled \cup {<<op.n, data[op.h].stream>>}
      BY <2>2 DEF PipeReturns
    <3> QED BY <3>1, <3>2, <3>3 DEF Types, ProcessTypes, Child
  <2> QED BY <2>1, <2>2
<1> QED BY <1>1, <1>2, <1>3, <1>4 DEF Types

(* kill ends a process that is still running.                              *)
LEMMA KillTypes ==
    ASSUME Types, NEW h \in Handle, Kill(h) \/ Destroy(h), UNCHANGED <<connVars, otherVars>>
    PROVE  Types'
<1>1. Grows /\ ConnTypes' /\ DeskTypes' /\ GpuTypes'
  BY ProcessRest DEF Kill, Destroy
<1>2. OsTypes'
  <2>1. misused' \in BOOLEAN /\ os' \subseteq os /\ left' = left /\ left \in [Kinds -> Nat]
    BY Accounts DEF Types, OsTypes, Kill, Destroy
  <2> QED BY <1>1, <2>1, OsStep DEF Types
<1>3. OpTypes'
  BY OpDone DEF Types, OpTypes, Kill, Destroy, Idle
<1>4. ProcessTypes'
  <2>1. alive' \subseteq alive /\ holds' = holds /\ filled' = filled /\ made' = made
    BY DEF Kill, Destroy, processVars
  <2>2. alive' \subseteq 1 .. made' /\ alive' \subseteq DOMAIN holds'
    BY <2>1 DEF Types, ProcessTypes
  <2> QED BY <2>1, <2>2 DEF Types, ProcessTypes, Child
<1>5. TableTypes'
  BY <1>1, TableKept, TableFreed DEF Types, Kill, Destroy
<1> QED BY <1>1, <1>2, <1>3, <1>4, <1>5 DEF Types

(* A child fills a pipe or exits.                                          *)
LEMMA ChildTypes ==
    ASSUME Types, NEW n \in alive, ChildStep(n), UNCHANGED <<connVars, otherVars>>
    PROVE  Types'
<1>1. Grows /\ ConnTypes' /\ DeskTypes' /\ GpuTypes'
  BY ProcessRest DEF ChildStep, objectVars
<1>2. TableTypes' /\ OsTypes' /\ OpTypes'
  <2>1. UNCHANGED <<htype, next, data, os, misused, op, made, left>>
    BY DEF ChildStep, objectVars
  <2>2. TableTypes'
    BY <1>1, <2>1, TableKept DEF Types
  <2>3. OsTypes'
    BY <1>1, <2>1, OsStep DEF Types, OsTypes
  <2>4. asked' = asked /\ frames' = frames
    BY DEF otherVars, gpuVars
  <2>5. OpTypes'
    BY <1>1, <2>1, <2>4, OpKept DEF Types, OpTypes
  <2> QED BY <2>2, <2>3, <2>5
<1>3. ProcessTypes'
  <2>1. alive' \subseteq alive /\ holds' = holds /\ made' = made
    BY DEF ChildStep, objectVars
  <2>2. \/ filled' = filled
        \/ \E o \in holds[n] : filled' \subseteq filled \cup {<<o[2], o[3]>>}
    BY DEF ChildStep
  <2>3. ASSUME NEW o \in holds[n] PROVE <<o[2], o[3]>> \in (1 .. made) \X Stream
    BY DEF Types, ProcessTypes, Child
  <2>4. filled' \subseteq (1 .. made) \X Stream
    BY <2>2, <2>3 DEF Types, ProcessTypes
  <2> QED BY <2>1, <2>4 DEF Types, ProcessTypes, Child
<1> QED BY <1>1, <1>2, <1>3 DEF Types

(* Every step of the processes keeps the types.                            *)
LEMMA ProcessStepTypes ==
    ASSUME Types, ProcessStep, UNCHANGED <<connVars, otherVars>>
    PROVE  Types'
BY CreateCallTypes, SetUpTypes, SpawnTypes, EnterProcessTypes, WrapTypes, PipeCloseTypes,
   ProcessCallTypes, PipeReturnsTypes, KillTypes, ChildTypes
   DEF ProcessStep, CreateStep

-----------------------------------------------------------------------------
(* One connection: what it has given to the guest and what is coming.      *)

Coming(r, t, q) ==
    CASE r.kind = "tcp"  -> r.wire
      [] r.kind = "tls"  -> t.plain \o t.rx \o r.wire
      [] r.kind = "quic" -> q.ring

(* What was received and is still to come, and sequences of numbers.       *)
All(r, t, q) == r.got \o Coming(r, t, q)
Upto(k)      == [i \in 1 .. k |-> i]
From(s, k)   == [i \in 1 .. k |-> s + i]
Rising(a, k) == /\ \A i, j \in 1 .. Len(a) : i < j => a[i] < a[j]
                /\ \A i \in 1 .. Len(a) : a[i] <= k

(* Bytes in order, and an end that is the end.                             *)
Sound(r, t, q) ==
    /\ r.lost \/ All(r, t, q) = Upto(r.sent)
    /\ Rising(All(r, t, q), r.sent)
    /\ r.told => r.fin /\ Len(Coming(r, t, q)) < IF r.kind = "tls" THEN RecordSize ELSE 1
    /\ q.shutdown => r.fin

(* The types of one connection's three records.                            *)
Typed(r, t, q) ==
    /\ r \in Net /\ t \in TlsSession /\ q \in QuicSession
    /\ Len(t.plain) < RecordSize /\ Len(q.ring) <= RingSize

(* What one step may make of a connection.                                 *)
Becomes(r, t, q, r1, t1, q1) ==
    /\ Typed(r1, t1, q1) /\ r1.kind = r.kind
    /\ Sound(r, t, q) => Sound(r1, t1, q1)

(* A sequence is its first bytes and those beyond them.                    *)
LEMMA FrontBeyond ==
    ASSUME NEW S, NEW q \in Seq(S), NEW k \in Nat
    PROVE  /\ Front(q, k) \in Seq(S) /\ Beyond(q, k) \in Seq(S)
           /\ Front(q, k) \o Beyond(q, k) = q
           /\ Len(Front(q, k)) = Least(k, Len(q)) /\ Least(k, Len(q)) \in Nat
           /\ Len(Front(q, k)) <= k /\ Len(Front(q, k)) + Len(Beyond(q, k)) = Len(q)
           /\ \A i \in 1 .. Len(Front(q, k)) : Front(q, k)[i] = q[i]
<1>1. Least(k, Len(q)) \in Nat /\ Least(k, Len(q)) <= k /\ Least(k, Len(q)) <= Len(q)
  BY LenProperties DEF Least
<1>2. PICK m \in Nat : m = Least(k, Len(q)) /\ m <= Len(q) /\ m <= k
  BY <1>1
<1>3. Front(q, k) = SubSeq(q, 1, m)
  BY <1>2 DEF Front
<1>4. SubSeq(q, 1, m) \in Seq(S) /\ Len(SubSeq(q, 1, m)) = m
      /\ \A i \in 1 .. m : SubSeq(q, 1, m)[i] = q[i]
  BY <1>2, SMT
<1>5. Beyond(q, k) = SubSeq(q, m + 1, Len(q))
  <2>1. CASE k <= Len(q)
    BY <1>2, <2>1, LenProperties DEF Beyond, Least
  <2>2. CASE k > Len(q)
    <3>1. m = Len(q) /\ Len(q) \in Nat
      BY <1>2, <2>2, LenProperties DEF Least
    <3>2. SubSeq(q, k + 1, Len(q)) = <<>> /\ SubSeq(q, m + 1, Len(q)) = <<>>
      BY <2>2, <3>1, SMT
    <3> QED BY <3>2 DEF Beyond
  <2> QED BY <2>1, <2>2, LenProperties
<1>6. SubSeq(q, m + 1, Len(q)) \in Seq(S) /\ Len(SubSeq(q, m + 1, Len(q))) = Len(q) - m
      /\ \A i \in 1 .. Len(q) - m : SubSeq(q, m + 1, Len(q))[i] = q[m + i]
  BY <1>2, LenProperties, SMT
<1>7. SubSeq(q, 1, m) \o SubSeq(q, m + 1, Len(q)) = q
  <2>1. Len(q) \in Nat /\ 1 \in 1 .. Len(q) + 1 /\ m \in 1 - 1 .. Len(q) /\ Len(q) \in m .. Len(q)
    BY <1>2, LenProperties
  <2>2. SubSeq(q, 1, m) \o SubSeq(q, m + 1, Len(q)) = SubSeq(q, 1, Len(q))
    BY <2>1, ConcatAdjacentSubSeq
  <2>3. SubSeq(q, 1, Len(q)) = q
    BY SMT
  <2> QED BY <2>2, <2>3
<1>8. Front(q, k) \o Beyond(q, k) = q
  BY Zenon, <1>3, <1>5, <1>7
<1>9. Front(q, k) \in Seq(S) /\ Beyond(q, k) \in Seq(S) /\ Len(Front(q, k)) = m
      /\ Len(Beyond(q, k)) = Len(q) - m /\ \A i \in 1 .. m : Front(q, k)[i] = q[i]
  BY Zenon, <1>3, <1>4, <1>5, <1>6
<1>10. Len(q) \in Nat
  BY LenProperties
<1>11. Len(Front(q, k)) <= k /\ Len(Front(q, k)) + Len(Beyond(q, k)) = Len(q)
  BY <1>2, <1>9, <1>10
<1> QED BY <1>1, <1>2, <1>8, <1>9, <1>11

(* The same bytes, further on their way.                                   *)
LEMMA SameBytes ==
    ASSUME NEW r, NEW t, NEW q, NEW r1, NEW t1, NEW q1,
           r1.kind = r.kind, r1.sent = r.sent, r1.lost = r.lost,
           All(r1, t1, q1) = All(r, t, q), Sound(r, t, q),
           r1.told => r1.fin /\ Len(Coming(r1, t1, q1)) < IF r1.kind = "tls" THEN RecordSize ELSE 1,
           q1.shutdown => r1.fin
    PROVE  Sound(r1, t1, q1)
BY DEF Sound

(* A few more bytes, of which the first m arrive.                          *)
LEMMA MoreBytes ==
    ASSUME NEW a \in Seq(Nat), NEW s \in Nat, NEW k \in Nat, NEW m \in 0 .. k, NEW new,
           new = From(s, m), Rising(a, s)
    PROVE  /\ Rising(a \o new, s + k)
           /\ m = k /\ a = Upto(s) => a \o new = Upto(s + k)
<1>1. new \in Seq(Nat) /\ Len(new) = m /\ \A i \in 1 .. m : new[i] = s + i
  BY DEF From
<1>2. PICK b : b = a \o new
  OBVIOUS
<1>3. Len(a) \in Nat /\ Len(b) = Len(a) + m /\ b \in Seq(Nat)
      /\ \A i \in 1 .. Len(a) + m : b[i] = IF i <= Len(a) THEN a[i] ELSE new[i - Len(a)]
  BY <1>1, <1>2, ConcatProperties, LenProperties DEF From
<1>4. \A i \in 1 .. Len(a) : b[i] = a[i] /\ a[i] \in Nat /\ a[i] <= s
  BY <1>3, LenProperties DEF Rising
<1>5. ASSUME NEW i \in 1 .. Len(b), i > Len(a) PROVE b[i] = s + (i - Len(a))
  <2>1. i - Len(a) \in 1 .. m /\ i \in 1 .. Len(a) + m /\ ~(i <= Len(a))
    BY <1>3, <1>5
  <2>2. b[i] = new[i - Len(a)]
    BY <1>3, <2>1
  <2> QED BY <1>1, <2>1, <2>2
<1>6. Rising(b, s + k)
  <2>1. ASSUME NEW i \in 1 .. Len(b) PROVE b[i] <= s + k
    <3>1. CASE i <= Len(a)
      BY <1>3, <1>4, <3>1 DEF From
    <3>2. CASE i > Len(a)
      BY <1>3, <1>5, <3>2
    <3> QED BY <1>3, <3>1, <3>2
  <2>2. ASSUME NEW i \in 1 .. Len(b), NEW j \in 1 .. Len(b), i < j PROVE b[i] < b[j]
    <3>1. CASE j <= Len(a)
      <4>1. i \in 1 .. Len(a) /\ j \in 1 .. Len(a)
        BY <1>3, <2>2, <3>1
      <4> QED BY <1>4, <2>2, <4>1 DEF Rising
    <3>2. CASE j > Len(a) /\ i <= Len(a)
      <4>1. i \in 1 .. Len(a) /\ b[j] = s + (j - Len(a))
        BY <1>3, <1>5, <3>2
      <4>2. b[i] \in Nat /\ b[i] <= s
        BY <1>4, <4>1
      <4>3. j - Len(a) \in Nat /\ j - Len(a) > 0
        BY <1>3, <3>2
      <4> QED BY <4>1, <4>2, <4>3
    <3>3. CASE i > Len(a)
      <4>1. b[i] = s + (i - Len(a)) /\ b[j] = s + (j - Len(a))
        BY <1>3, <1>5, <2>2, <3>3
      <4> QED BY <1>3, <2>2, <4>1
    <3> QED BY <1>3, <3>1, <3>2, <3>3
  <2> QED BY <2>1, <2>2 DEF Rising
<1>7. ASSUME m = k, a = Upto(s) PROVE b = Upto(s + k)
  <2>1. Len(a) = s /\ \A i \in 1 .. s : a[i] = i
    BY <1>7 DEF Upto
  <2>2. Upto(s + k) \in Seq(Nat) /\ Len(Upto(s + k)) = s + k /\ \A i \in 1 .. s + k : Upto(s + k)[i] = i
    BY DEF Upto
  <2>3. Len(b) = s + k
    BY <1>3, <1>7, <2>1
  <2>4. ASSUME NEW i \in 1 .. s + k PROVE b[i] = i
    BY <1>4, <1>5, <2>1, <2>3, <2>4
  <2> QED BY <1>3, <2>2, <2>3, <2>4, SeqEqual
<1> QED BY <1>2, <1>6, <1>7

(* Steps of one connection.  QUIC's control, without bytes.                *)
LEMMA ControlBecomes ==
    ASSUME NEW r, NEW t, NEW q, NEW q1 \in QuicSession, Typed(r, t, q),
           q1.ring = q.ring, q1.shutdown = q.shutdown
    PROVE  Becomes(r, t, q, r, t, q1)
<1>1. Coming(r, t, q1) = Coming(r, t, q)
  BY DEF Coming
<1>2. All(r, t, q1) = All(r, t, q)
  BY <1>1 DEF All
<1>3. Sound(r, t, q) => Sound(r, t, q1)
  BY <1>1, <1>2 DEF Sound
<1> QED BY <1>3 DEF Becomes, Typed

(* The bytes of a connection.                                              *)
LEMMA BytesOf ==
    ASSUME NEW r, NEW t, NEW q, Typed(r, t, q)
    PROVE  /\ r.got \in Seq(Byte) /\ r.wire \in Seq(Byte) /\ t.rx \in Seq(Byte)
           /\ t.plain \in Seq(Byte) /\ q.ring \in Seq(Byte)
           /\ r.kind \in {"tcp", "tls", "quic"} /\ r.sent \in 0 .. MaxSent
           /\ Coming(r, t, q) \in Seq(Byte) /\ All(r, t, q) \in Seq(Byte)
           /\ \A x : x \in Seq(Byte) => x \in Seq(Nat)
<1>1. /\ r.got \in Seq(Byte) /\ r.wire \in Seq(Byte) /\ t.rx \in Seq(Byte)
      /\ t.plain \in Seq(Byte) /\ q.ring \in Seq(Byte)
      /\ r.kind \in {"tcp", "tls", "quic"} /\ r.sent \in 0 .. MaxSent
  BY DEF Typed, Net, TlsSession, QuicSession
<1>2. Coming(r, t, q) \in Seq(Byte)
  BY <1>1, ConcatProperties DEF Coming
<1>3. All(r, t, q) \in Seq(Byte)
  BY <1>1, <1>2, ConcatProperties DEF All
<1>4. Byte \subseteq Nat
  BY DEF Byte
<1>5. \A x : x \in Seq(Byte) => x \in Seq(Nat)
  BY <1>4, SeqMonotonic
<1> QED BY <1>1, <1>2, <1>3, <1>5

(* Bytes put together.                                                     *)
LEMMA Together ==
    \A a, b \in Seq(Byte) :
      /\ a \o b \in Seq(Byte) /\ Len(a) \in Nat /\ Len(b) \in Nat
      /\ Len(a \o b) = Len(a) + Len(b)
      /\ \A c \in Seq(Byte) : (a \o b) \o c = a \o (b \o c)
BY ConcatProperties, ConcatAssociative, LenProperties

(* Concatenation is associative.                                           *)
LEMMA Regroup ==
    ASSUME NEW a \in Seq(Byte), NEW b \in Seq(Byte), NEW c \in Seq(Byte)
    PROVE  (a \o b) \o c = a \o (b \o c)
BY ConcatAssociative

(* What is coming is given to the guest, from the front.                   *)
LEMMA GivenFront ==
    ASSUME NEW got \in Seq(Byte), NEW c \in Seq(Byte), NEW k \in Nat
    PROVE  (got \o Front(c, k)) \o Beyond(c, k) = got \o c
<1>1. Front(c, k) \in Seq(Byte) /\ Beyond(c, k) \in Seq(Byte) /\ Front(c, k) \o Beyond(c, k) = c
  BY FrontBeyond
<1>2. (got \o Front(c, k)) \o Beyond(c, k) = got \o (Front(c, k) \o Beyond(c, k))
  BY Zenon, <1>1, Together
<1> QED BY <1>1, <1>2

(* A receive over TCP takes a prefix of the wire.                          *)
LEMMA TcpGives ==
    ASSUME NEW r, NEW t, NEW q, Typed(r, t, q), r.kind = "tcp", NEW k \in Nat
    PROVE  Becomes(r, t, q, [r EXCEPT !.got = @ \o Front(r.wire, k), !.wire = Beyond(r.wire, k)], t, q)
<1>1. PICK r1 : r1 = [r EXCEPT !.got = @ \o Front(r.wire, k), !.wire = Beyond(r.wire, k)]
  OBVIOUS
<1>2. r \in Net /\ r.wire \in Seq(Byte) /\ r.got \in Seq(Byte)
  BY DEF Typed, Net
<1>3. /\ Front(r.wire, k) \in Seq(Byte) /\ Beyond(r.wire, k) \in Seq(Byte)
      /\ Len(Front(r.wire, k)) + Len(Beyond(r.wire, k)) = Len(r.wire)
  BY <1>2, FrontBeyond
<1>4. r.got \o Front(r.wire, k) \in Seq(Byte)
  BY <1>2, <1>3, ConcatProperties
<1>5. /\ r1 \in Net /\ r1.got = r.got \o Front(r.wire, k) /\ r1.wire = Beyond(r.wire, k)
      /\ r1.kind = r.kind /\ r1.sent = r.sent /\ r1.lost = r.lost /\ r1.fin = r.fin
      /\ r1.told = r.told
  BY <1>1, <1>2, <1>3, <1>4 DEF Net
<1>6. Coming(r, t, q) = r.wire /\ Coming(r1, t, q) = r1.wire
  BY <1>5 DEF Coming
<1>7. All(r1, t, q) = All(r, t, q)
  <2>1. All(r1, t, q) = (r.got \o Front(r.wire, k)) \o Beyond(r.wire, k)
        /\ All(r, t, q) = r.got \o r.wire
    BY Zenon, <1>5, <1>6 DEF All
  <2>2. (r.got \o Front(r.wire, k)) \o Beyond(r.wire, k) = r.got \o r.wire
    BY <1>2, GivenFront
  <2> QED BY Zenon, <2>1, <2>2
<1>8. Len(r1.wire) <= Len(r.wire) /\ Len(r1.wire) \in Nat /\ Len(r.wire) \in Nat
  BY <1>2, <1>3, <1>5, LenProperties
<1>9. ASSUME Sound(r, t, q) PROVE Sound(r1, t, q)
  <2>1. r1.told => r1.fin /\ Len(Coming(r1, t, q)) < IF r1.kind = "tls" THEN RecordSize ELSE 1
    BY <1>5, <1>6, <1>8, <1>9 DEF Sound
  <2>2. q.shutdown => r1.fin
    BY <1>5, <1>9 DEF Sound
  <2> QED BY <1>5, <1>7, <1>9, <2>1, <2>2, SameBytes
<1>10. Typed(r1, t, q)
  BY <1>5 DEF Typed
<1> QED BY <1>1, <1>5, <1>9, <1>10 DEF Becomes

(* The guest is told of the end.                                           *)
LEMMA EndBecomes ==
    ASSUME NEW r, NEW t, NEW q, Typed(r, t, q),
           Sound(r, t, q) => r.fin /\ Len(Coming(r, t, q)) < IF r.kind = "tls" THEN RecordSize ELSE 1
    PROVE  Becomes(r, t, q, [r EXCEPT !.told = TRUE], t, q)
<1>1. PICK r1 : r1 = [r EXCEPT !.told = TRUE]
  OBVIOUS
<1>2. /\ r1 \in Net /\ r1.got = r.got /\ r1.wire = r.wire /\ r1.kind = r.kind
      /\ r1.sent = r.sent /\ r1.lost = r.lost /\ r1.fin = r.fin
  BY <1>1 DEF Typed, Net
<1>3. Coming(r1, t, q) = Coming(r, t, q) /\ All(r1, t, q) = All(r, t, q)
  BY <1>2 DEF Coming, All
<1>4. Sound(r, t, q) => Sound(r1, t, q)
  BY <1>2, <1>3 DEF Sound
<1> QED BY <1>1, <1>2, <1>4 DEF Becomes, Typed

(* TLS: what was left of a record is given first.                          *)
LEMMA TlsGives ==
    ASSUME NEW r, NEW t, NEW q, Typed(r, t, q), r.kind = "tls", NEW k \in Nat
    PROVE  Becomes(r, t, q, [r EXCEPT !.got = @ \o Front(t.plain, k)],
                   [t EXCEPT !.plain = Beyond(t.plain, k)], q)
<1>1. PICK r1 : r1 = [r EXCEPT !.got = @ \o Front(t.plain, k)]
  OBVIOUS
<1>2. PICK t1 : t1 = [t EXCEPT !.plain = Beyond(t.plain, k)]
  OBVIOUS
<1>3. /\ r \in Net /\ t \in TlsSession /\ r.wire \in Seq(Byte) /\ r.got \in Seq(Byte)
      /\ t.plain \in Seq(Byte) /\ t.rx \in Seq(Byte) /\ Len(t.plain) < RecordSize
  BY DEF Typed, Net, TlsSession
<1>4. /\ Front(t.plain, k) \in Seq(Byte) /\ Beyond(t.plain, k) \in Seq(Byte)
      /\ Front(t.plain, k) \o Beyond(t.plain, k) = t.plain
      /\ Len(Front(t.plain, k)) + Len(Beyond(t.plain, k)) = Len(t.plain)
  BY <1>3, FrontBeyond
<1>5. r.got \o Front(t.plain, k) \in Seq(Byte)
  BY <1>3, <1>4, ConcatProperties
<1>6. /\ r1 \in Net /\ r1.got = r.got \o Front(t.plain, k) /\ r1.wire = r.wire
      /\ r1.kind = r.kind /\ r1.sent = r.sent /\ r1.lost = r.lost /\ r1.fin = r.fin
      /\ r1.told = r.told
      /\ t1 \in TlsSession /\ t1.plain = Beyond(t.plain, k) /\ t1.rx = t.rx
  BY <1>1, <1>2, <1>3, <1>4, <1>5 DEF Net, TlsSession
<1>7. PICK x \in Seq(Byte) : x = t.rx \o r.wire
  BY <1>3, ConcatProperties
<1>8. /\ Coming(r, t, q) = t.plain \o x /\ Coming(r1, t1, q) = Beyond(t.plain, k) \o x
  <2>1. Coming(r, t, q) = (t.plain \o t.rx) \o r.wire
        /\ Coming(r1, t1, q) = (t1.plain \o t1.rx) \o r1.wire
    BY <1>6 DEF Coming
  <2>2. (t.plain \o t.rx) \o r.wire = t.plain \o x
    <3>1. t.plain \in Seq(Byte) /\ t.rx \in Seq(Byte) /\ r.wire \in Seq(Byte)
      BY <1>3
    <3>2. (t.plain \o t.rx) \o r.wire = t.plain \o (t.rx \o r.wire)
      BY Zenon, <3>1, Regroup
    <3> QED BY Zenon, <1>7, <3>2
  <2>3. (Beyond(t.plain, k) \o t.rx) \o r.wire = Beyond(t.plain, k) \o x
    <3>1. Beyond(t.plain, k) \in Seq(Byte) /\ t.rx \in Seq(Byte) /\ r.wire \in Seq(Byte)
      BY <1>3, <1>4
    <3>2. (Beyond(t.plain, k) \o t.rx) \o r.wire = Beyond(t.plain, k) \o (t.rx \o r.wire)
      BY Zenon, <3>1, Regroup
    <3> QED BY Zenon, <1>7, <3>2
  <2> QED BY <1>6, <2>1, <2>2, <2>3
<1>9. All(r1, t1, q) = All(r, t, q)
  <2>1. All(r1, t1, q) = (r.got \o Front(t.plain, k)) \o (Beyond(t.plain, k) \o x)
        /\ All(r, t, q) = r.got \o (t.plain \o x)
    BY <1>6, <1>8 DEF All
  <2>2. (r.got \o Front(t.plain, k)) \o (Beyond(t.plain, k) \o x)
        = ((r.got \o Front(t.plain, k)) \o Beyond(t.plain, k)) \o x
    BY Zenon, <1>4, <1>5, <1>7, Together
  <2>3. (r.got \o Front(t.plain, k)) \o Beyond(t.plain, k) = r.got \o t.plain
    BY <1>3, GivenFront
  <2>4. (r.got \o t.plain) \o x = r.got \o (t.plain \o x)
    <3>1. r.got \in Seq(Byte) /\ t.plain \in Seq(Byte) /\ x \in Seq(Byte)
      BY <1>3, <1>7
    <3> QED BY Zenon, <3>1, Together
  <2> QED BY <2>1, <2>2, <2>3, <2>4
<1>10. /\ Len(t1.plain) \in Nat /\ Len(t.plain) \in Nat /\ Len(t1.plain) <= Len(t.plain)
       /\ Len(Coming(r, t, q)) = Len(t.plain) + Len(x) /\ Len(x) \in Nat
       /\ Len(Coming(r1, t1, q)) = Len(t1.plain) + Len(x)
  <2>1. t1.plain \in Seq(Byte)
    BY <1>4, <1>6
  <2>2. /\ Len(t1.plain) \in Nat /\ Len(t.plain) \in Nat /\ Len(x) \in Nat
        /\ Len(t.plain \o x) = Len(t.plain) + Len(x)
        /\ Len(t1.plain \o x) = Len(t1.plain) + Len(x)
    BY Zenon, <1>3, <1>7, <2>1, Together
  <2>3. Len(Front(t.plain, k)) \in Nat
    BY <1>4, LenProperties
  <2>4. Len(t1.plain) <= Len(t.plain)
    BY <1>4, <1>6, <2>2, <2>3
  <2>5. Len(Coming(r, t, q)) = Len(t.plain \o x) /\ Len(Coming(r1, t1, q)) = Len(t1.plain \o x)
    BY Zenon, <1>6, <1>8
  <2> QED BY <2>2, <2>4, <2>5
<1>11. ASSUME Sound(r, t, q) PROVE Sound(r1, t1, q)
  <2>1. r1.told => r1.fin /\ Len(Coming(r1, t1, q)) < IF r1.kind = "tls" THEN RecordSize ELSE 1
    BY <1>6, <1>10, <1>11, ConnectionAssumption DEF Sound
  <2>2. q.shutdown => r1.fin
    BY <1>6, <1>11 DEF Sound
  <2> QED BY <1>6, <1>9, <1>11, <2>1, <2>2, SameBytes
<1>12. Typed(r1, t1, q)
  BY <1>3, <1>6, <1>10, ConnectionAssumption DEF Typed
<1> QED BY <1>1, <1>2, <1>6, <1>11, <1>12 DEF Becomes

(* TLS: a record is taken from the bytes buf, and the rest stays unread.   *)
LEMMA TlsDecrypts ==
    ASSUME NEW r, NEW t, NEW q, Typed(r, t, q), r.kind = "tls", NEW k \in Nat \ {0},
           t.plain = <<>>, NEW buf \in Seq(Byte), NEW unread \in Seq(Byte),
           buf \o unread = t.rx \o r.wire
    PROVE  Becomes(r, t, q,
                   [r EXCEPT !.got = @ \o Front(Front(buf, RecordSize), k), !.wire = unread],
                   [rx |-> Beyond(buf, RecordSize), plain |-> Beyond(Front(buf, RecordSize), k)], q)
<1>1. PICK record : record = Front(buf, RecordSize)
  OBVIOUS
<1>2. PICK later : later = Beyond(buf, RecordSize)
  OBVIOUS
<1>3. RecordSize \in Nat \ {0}
  BY ConnectionAssumption
<1>4. record \in Seq(Byte) /\ later \in Seq(Byte) /\ record \o later = buf /\ Len(record) <= RecordSize
  BY <1>1, <1>2, <1>3, FrontBeyond
<1>5. PICK given : given = Front(record, k)
  OBVIOUS
<1>6. PICK kept : kept = Beyond(record, k)
  OBVIOUS
<1>7. given \in Seq(Byte) /\ kept \in Seq(Byte) /\ given \o kept = record
      /\ Len(given) = Least(k, Len(record)) /\ Len(given) + Len(kept) = Len(record)
  BY <1>4, <1>5, <1>6, FrontBeyond
<1>8. PICK r1 : r1 = [r EXCEPT !.got = @ \o given, !.wire = unread]
  OBVIOUS
<1>9. PICK t1 : t1 = [rx |-> later, plain |-> kept]
  OBVIOUS
<1>10. r \in Net /\ t \in TlsSession /\ r.got \in Seq(Byte) /\ r.wire \in Seq(Byte) /\ t.rx \in Seq(Byte)
  BY DEF Typed, Net, TlsSession
<1>11. r.got \o given \in Seq(Byte)
  BY <1>7, <1>10, ConcatProperties
<1>12. /\ r1 \in Net /\ r1.got = r.got \o given /\ r1.wire = unread /\ r1.kind = r.kind
       /\ r1.sent = r.sent /\ r1.lost = r.lost /\ r1.fin = r.fin /\ r1.told = r.told
       /\ t1 \in TlsSession /\ t1.plain = kept /\ t1.rx = later
  BY <1>4, <1>7, <1>8, <1>9, <1>10, <1>11 DEF Net, TlsSession
<1>22. /\ given \in Seq(Byte) /\ kept \in Seq(Byte) /\ later \in Seq(Byte)
       /\ record \in Seq(Byte) /\ unread \in Seq(Byte) /\ r.got \in Seq(Byte)
  BY <1>4, <1>7, <1>10
<1>13. Coming(r, t, q) = buf \o unread
  <2>1. Coming(r, t, q) = (<<>> \o t.rx) \o r.wire
    BY DEF Coming
  <2>2. <<>> \o t.rx = t.rx
    BY <1>10, ConcatEmptySeq
  <2> QED BY <2>1, <2>2
<1>14. PICK c1 \in Seq(Byte) : c1 = Coming(r1, t1, q) /\ c1 = kept \o (later \o unread)
  <2>1. Coming(r1, t1, q) = (kept \o later) \o unread
    BY <1>12 DEF Coming
  <2>2. (kept \o later) \o unread = kept \o (later \o unread)
    <3>1. kept \in Seq(Byte) /\ later \in Seq(Byte) /\ unread \in Seq(Byte)
      BY <1>22
    <3> QED BY Zenon, <3>1, Regroup
  <2>3. kept \o (later \o unread) \in Seq(Byte)
    BY <1>4, <1>7, Together
  <2> QED BY <2>1, <2>2, <2>3
<1>15. given \o c1 = buf \o unread
  <2>1. PICK x \in Seq(Byte) : x = later \o unread
    BY <1>4, Together
  <2>2. (given \o kept) \o x = given \o (kept \o x)
    <3>1. given \in Seq(Byte) /\ kept \in Seq(Byte) /\ x \in Seq(Byte)
      BY <1>22, <2>1
    <3> QED BY Zenon, <3>1, Regroup
  <2>3. (record \o later) \o unread = record \o (later \o unread)
    <3>1. record \in Seq(Byte) /\ later \in Seq(Byte) /\ unread \in Seq(Byte)
      BY <1>22
    <3> QED BY Zenon, <3>1, Regroup
  <2>4. c1 = kept \o x /\ given \o kept = record /\ record \o later = buf
    BY Zenon, <1>4, <1>7, <1>14, <2>1
  <2> QED BY Zenon, <2>1, <2>2, <2>3, <2>4
<1>16. All(r1, t1, q) = All(r, t, q)
  <2>1. All(r1, t1, q) = (r.got \o given) \o c1
    BY Zenon, <1>12, <1>14 DEF All
  <2>2. (r.got \o given) \o c1 = r.got \o (given \o c1)
    <3>1. r.got \in Seq(Byte) /\ given \in Seq(Byte) /\ c1 \in Seq(Byte)
      BY <1>22, <1>14
    <3> QED BY Zenon, <3>1, Regroup
  <2>3. All(r, t, q) = r.got \o (buf \o unread)
    BY Zenon, <1>13 DEF All
  <2> QED BY Zenon, <1>15, <2>1, <2>2, <2>3
<1>17. Len(c1) <= Len(buf \o unread) /\ Len(c1) \in Nat /\ Len(buf \o unread) \in Nat
  <2>1. Len(given \o c1) = Len(given) + Len(c1) /\ Len(given) \in Nat /\ Len(c1) \in Nat
    BY Zenon, <1>7, <1>14, Together
  <2> QED BY <1>15, <2>1
<1>18. ASSUME Sound(r, t, q) PROVE Sound(r1, t1, q)
  <2>1. r1.told => r1.fin /\ Len(Coming(r1, t1, q)) < IF r1.kind = "tls" THEN RecordSize ELSE 1
    <3>1. r.told => r.fin /\ Len(buf \o unread) < RecordSize
      BY <1>13, <1>18 DEF Sound
    <3>2. Coming(r1, t1, q) = c1 /\ r1.kind = "tls" /\ r1.told = r.told /\ r1.fin = r.fin
      BY <1>12, <1>14
    <3>3. r.told => Len(c1) < RecordSize
      <4>1. PICK l \in Nat : l = Len(buf \o unread)
        BY <1>17
      <4>2. PICK m \in Nat : m = Len(c1)
        BY <1>17
      <4>3. m <= l /\ (r.told => l < RecordSize)
        BY Zenon, <1>17, <3>1, <4>1, <4>2
      <4>4. r.told => m < RecordSize
        BY <1>3, <4>3
      <4> QED BY Zenon, <4>2, <4>4
    <3> QED BY <3>1, <3>2, <3>3
  <2>2. q.shutdown => r1.fin
    BY <1>12, <1>18 DEF Sound
  <2> QED BY <1>12, <1>16, <1>18, <2>1, <2>2, SameBytes
<1>19. Len(kept) < RecordSize
  <2>1. Len(kept) \in Nat /\ Len(record) \in Nat
    BY <1>4, <1>7, LenProperties
  <2> QED BY <1>3, <1>4, <1>7, <2>1 DEF Least
<1>20. Typed(r1, t1, q)
  BY <1>12, <1>19 DEF Typed
<1>21. Becomes(r, t, q, r1, t1, q)
  BY <1>12, <1>18, <1>20 DEF Becomes
<1> QED BY Zenon, <1>1, <1>2, <1>5, <1>6, <1>8, <1>9, <1>21

(* TLS: too little for a record is kept, and may be the end.               *)
LEMMA TlsStores ==
    ASSUME NEW r, NEW t, NEW q, Typed(r, t, q), r.kind = "tls",
           t.plain = <<>>, Len(t.rx \o r.wire) < RecordSize
    PROVE  Becomes(r, t, q, [r EXCEPT !.wire = <<>>, !.told = @ \/ r.fin],
                   [t EXCEPT !.rx = t.rx \o r.wire], q)
<1>1. r \in Net /\ t \in TlsSession /\ r.wire \in Seq(Byte) /\ t.rx \in Seq(Byte)
  BY DEF Typed, Net, TlsSession
<1>2. PICK b \in BOOLEAN : b = (r.told \/ r.fin)
  BY <1>1 DEF Net
<1>3. PICK x \in Seq(Byte) : x = t.rx \o r.wire
  BY <1>1, Together
<1>4. PICK r1 : r1 = [r EXCEPT !.wire = <<>>, !.told = b]
  OBVIOUS
<1>5. PICK t1 : t1 = [t EXCEPT !.rx = x]
  OBVIOUS
<1>6. /\ r1 \in Net /\ r1.got = r.got /\ r1.wire = <<>> /\ r1.kind = r.kind
      /\ r1.sent = r.sent /\ r1.lost = r.lost /\ r1.fin = r.fin /\ r1.told = b
      /\ t1 \in TlsSession /\ t1.plain = <<>> /\ t1.rx = x
  BY <1>1, <1>4, <1>5 DEF Net, TlsSession
<1>7. Coming(r, t, q) = x /\ Coming(r1, t1, q) = x
  <2>1. Coming(r, t, q) = (<<>> \o t.rx) \o r.wire /\ Coming(r1, t1, q) = (<<>> \o x) \o <<>>
    BY <1>6 DEF Coming
  <2>2. <<>> \o t.rx = t.rx /\ <<>> \o x = x /\ x \o <<>> = x
    BY <1>1, <1>3, ConcatEmptySeq
  <2> QED BY <1>3, <2>1, <2>2
<1>8. All(r1, t1, q) = All(r, t, q)
  BY <1>6, <1>7 DEF All
<1>9. ASSUME Sound(r, t, q) PROVE Sound(r1, t1, q)
  <2>1. r1.told => r1.fin /\ Len(Coming(r1, t1, q)) < IF r1.kind = "tls" THEN RecordSize ELSE 1
    BY <1>2, <1>3, <1>6, <1>7, <1>9 DEF Sound
  <2>2. q.shutdown => r1.fin
    BY <1>6, <1>9 DEF Sound
  <2> QED BY <1>6, <1>8, <1>9, <2>1, <2>2, SameBytes
<1>10. Typed(r1, t1, q)
  BY <1>6 DEF Typed
<1>11. Becomes(r, t, q, r1, t1, q)
  BY <1>6, <1>9, <1>10 DEF Becomes
<1>12. r1 = [r EXCEPT !.wire = <<>>, !.told = @ \/ r.fin]
  <2>1. [r EXCEPT !.wire = <<>>, !.told = @ \/ r.fin] = [r EXCEPT !.wire = <<>>, !.told = (r.told \/ r.fin)]
    BY Zenon
  <2> QED BY Zenon, <1>2, <1>4, <2>1
<1> QED BY Zenon, <1>3, <1>5, <1>11, <1>12

(* QUIC: the ring is emptied from the front.                               *)
LEMMA QuicGives ==
    ASSUME NEW r, NEW t, NEW q, Typed(r, t, q), r.kind = "quic", NEW k \in Nat
    PROVE  Becomes(r, t, q, [r EXCEPT !.got = @ \o Front(q.ring, k)], t,
                   [q EXCEPT !.ring = Beyond(q.ring, k)])
<1>1. PICK r1 : r1 = [r EXCEPT !.got = @ \o Front(q.ring, k)]
  OBVIOUS
<1>2. PICK q1 : q1 = [q EXCEPT !.ring = Beyond(q.ring, k)]
  OBVIOUS
<1>3. /\ r \in Net /\ q \in QuicSession /\ r.got \in Seq(Byte) /\ q.ring \in Seq(Byte)
      /\ Len(q.ring) <= RingSize
  BY DEF Typed, Net, QuicSession
<1>4. /\ Front(q.ring, k) \in Seq(Byte) /\ Beyond(q.ring, k) \in Seq(Byte)
      /\ Len(Front(q.ring, k)) + Len(Beyond(q.ring, k)) = Len(q.ring)
  BY <1>3, FrontBeyond
<1>5. r.got \o Front(q.ring, k) \in Seq(Byte)
  BY <1>3, <1>4, ConcatProperties
<1>6. /\ r1 \in Net /\ r1.got = r.got \o Front(q.ring, k) /\ r1.kind = r.kind
      /\ r1.sent = r.sent /\ r1.lost = r.lost /\ r1.fin = r.fin /\ r1.told = r.told
  BY <1>1, <1>3, <1>5 DEF Net
<1>7. q1 \in QuicSession /\ q1.ring = Beyond(q.ring, k) /\ q1.shutdown = q.shutdown
  BY <1>2, <1>3, <1>4 DEF QuicSession
<1>8. Coming(r, t, q) = q.ring /\ Coming(r1, t, q1) = q1.ring
  BY <1>6 DEF Coming
<1>9. All(r1, t, q1) = All(r, t, q)
  <2>1. All(r1, t, q1) = (r.got \o Front(q.ring, k)) \o Beyond(q.ring, k)
        /\ All(r, t, q) = r.got \o q.ring
    BY Zenon, <1>6, <1>7, <1>8 DEF All
  <2>2. (r.got \o Front(q.ring, k)) \o Beyond(q.ring, k) = r.got \o q.ring
    BY <1>3, GivenFront
  <2> QED BY Zenon, <2>1, <2>2
<1>10. Len(q1.ring) <= Len(q.ring) /\ Len(q1.ring) \in Nat /\ Len(q.ring) \in Nat
  <2>1. Len(Front(q.ring, k)) \in Nat /\ Len(Beyond(q.ring, k)) \in Nat /\ Len(q.ring) \in Nat
    BY <1>3, <1>4, LenProperties
  <2> QED BY <1>4, <1>7, <2>1
<1>11. ASSUME Sound(r, t, q) PROVE Sound(r1, t, q1)
  <2>1. r1.told => r1.fin /\ Len(Coming(r1, t, q1)) < IF r1.kind = "tls" THEN RecordSize ELSE 1
    BY <1>6, <1>8, <1>10, <1>11 DEF Sound
  <2>2. q1.shutdown => r1.fin
    BY <1>6, <1>7, <1>11 DEF Sound
  <2> QED BY <1>6, <1>9, <1>11, <2>1, <2>2, SameBytes
<1>12. Len(q1.ring) <= RingSize
  BY <1>3, <1>10, ConnectionAssumption
<1>13. Typed(r1, t, q1)
  BY <1>6, <1>7, <1>12 DEF Typed
<1>14. Becomes(r, t, q, r1, t, q1)
  BY <1>6, <1>11, <1>13 DEF Becomes
<1> QED BY Zenon, <1>1, <1>2, <1>14

(* k bytes more, of which the first m come after those that are coming.    *)
Arriving(r, t, q, r1, q1, k, m, new) ==
    /\ Typed(r, t, q) /\ k \in Nat /\ m \in 0 .. k /\ new \in Seq(Byte) /\ new = From(r.sent, m)
    /\ r1.kind = r.kind /\ r1.sent = r.sent + k /\ r1.got = r.got /\ r1.told = r.told
    /\ ~r.fin /\ (r1.lost \/ (m = k /\ ~r.lost))
    /\ Coming(r1, t, q1) = Coming(r, t, q) \o new /\ q1.shutdown = q.shutdown

(* They come in order; it takes those that do not come to be marked lost.  *)
LEMMA Arrives ==
    ASSUME NEW r, NEW t, NEW q, NEW r1, NEW q1, NEW k, NEW m, NEW new,
           Arriving(r, t, q, r1, q1, k, m, new), Sound(r, t, q)
    PROVE  Sound(r1, t, q1)
<1> USE DEF Arriving
<1>1. /\ r.got \in Seq(Byte) /\ Coming(r, t, q) \in Seq(Byte) /\ All(r, t, q) \in Seq(Nat)
      /\ r.sent \in Nat
  <2>1. Typed(r, t, q)
    OBVIOUS
  <2>2. r.sent \in Nat
    BY <2>1, BytesOf
  <2> QED BY <2>1, <2>2, BytesOf
<1>2. All(r1, t, q1) = All(r, t, q) \o new
  <2>1. r.got \o (Coming(r, t, q) \o new) = (r.got \o Coming(r, t, q)) \o new
    BY <1>1, Regroup
  <2> QED BY <2>1 DEF All
<1>3. Rising(All(r, t, q), r.sent) /\ (r.lost \/ All(r, t, q) = Upto(r.sent)) /\ ~r.told /\ ~q.shutdown
  BY DEF Sound
<1>4. /\ Rising(All(r, t, q) \o new, r.sent + k)
      /\ m = k /\ All(r, t, q) = Upto(r.sent) => All(r, t, q) \o new = Upto(r.sent + k)
  BY <1>1, <1>3, MoreBytes
<1>5. r1.lost \/ All(r1, t, q1) = Upto(r1.sent)
  BY <1>2, <1>3, <1>4
<1>6. Rising(All(r1, t, q1), r1.sent)
  BY <1>2, <1>4
<1> QED BY <1>3, <1>5, <1>6 DEF Sound

(* The peer of a socket sends one byte more.                               *)
LEMMA PeerSends ==
    ASSUME NEW r, NEW t, NEW q, Typed(r, t, q), r.kind \in {"tcp", "tls"}, ~r.fin, r.sent < MaxSent
    PROVE  Becomes(r, t, q, [r EXCEPT !.sent = @ + 1, !.wire = Append(@, r.sent + 1)], t, q)
<1>1. PICK r1 : r1 = [r EXCEPT !.sent = @ + 1, !.wire = Append(@, r.sent + 1)]
  OBVIOUS
<1>2. r \in Net /\ r.wire \in Seq(Byte) /\ r.sent \in 0 .. MaxSent /\ r.got \in Seq(Byte)
      /\ t.plain \in Seq(Byte) /\ t.rx \in Seq(Byte)
  BY DEF Typed, Net, TlsSession
<1>12. PICK k \in Nat : k = 1 /\ k \in 0 .. k
  OBVIOUS
<1>3. PICK new : new = From(r.sent, k)
  OBVIOUS
<1>4. r.sent + 1 \in Byte /\ r.sent + 1 \in 0 .. MaxSent
  BY <1>2, ConnectionAssumption DEF Byte
<1>5. new \in Seq(Byte) /\ new = <<r.sent + 1>>
  BY <1>3, <1>4, <1>12 DEF From
<1>6. Append(r.wire, r.sent + 1) = r.wire \o new /\ Append(r.wire, r.sent + 1) \in Seq(Byte)
  BY <1>2, <1>4, <1>5, AppendIsConcat, AppendProperties
<1>7. /\ r1 \in Net /\ r1.kind = r.kind /\ r1.sent = r.sent + k /\ r1.got = r.got
      /\ r1.told = r.told /\ r1.wire = r.wire \o new /\ r1.lost = r.lost
  BY <1>1, <1>2, <1>4, <1>6, <1>12 DEF Net
<1>8. Coming(r1, t, q) = Coming(r, t, q) \o new
  <2>1. CASE r.kind = "tcp"
    BY <1>7, <2>1 DEF Coming
  <2>2. CASE r.kind = "tls"
    <3>1. PICK x \in Seq(Byte) : x = t.plain \o t.rx
      BY <1>2, Together
    <3>2. Coming(r1, t, q) = x \o (r.wire \o new) /\ Coming(r, t, q) = x \o r.wire
      BY <1>7, <2>2, <3>1 DEF Coming
    <3>3. r.wire \in Seq(Byte)
      BY <1>2
    <3>4. (x \o r.wire) \o new = x \o (r.wire \o new)
      BY Zenon, <1>5, <3>1, <3>3, Regroup
    <3> QED BY Zenon, <3>2, <3>4
  <2> QED BY <2>1, <2>2
<1>9. ASSUME Sound(r, t, q) PROVE Sound(r1, t, q)
  <2>1. r1.lost \/ (k = k /\ ~r.lost)
    BY <1>7
  <2>2. Arriving(r, t, q, r1, q, k, k, new)
    BY <1>3, <1>5, <1>7, <1>8, <1>12, <2>1 DEF Arriving
  <2> QED BY <1>9, <2>2, Arrives
<1>10. Typed(r1, t, q)
  BY <1>7 DEF Typed
<1>11. Becomes(r, t, q, r1, t, q)
  BY <1>7, <1>9, <1>10 DEF Becomes
<1> QED BY Zenon, <1>1, <1>11

(* The peer of a socket is done.                                           *)
LEMMA PeerEnds ==
    ASSUME NEW r, NEW t, NEW q, Typed(r, t, q)
    PROVE  Becomes(r, t, q, [r EXCEPT !.fin = TRUE], t, q)
<1>1. PICK r1 : r1 = [r EXCEPT !.fin = TRUE]
  OBVIOUS
<1>2. /\ r1 \in Net /\ r1.got = r.got /\ r1.wire = r.wire /\ r1.kind = r.kind
      /\ r1.sent = r.sent /\ r1.lost = r.lost /\ r1.fin = TRUE /\ r1.told = r.told
  BY <1>1 DEF Typed, Net
<1>3. Coming(r1, t, q) = Coming(r, t, q) /\ All(r1, t, q) = All(r, t, q)
  BY <1>2 DEF Coming, All
<1>4. Sound(r, t, q) => Sound(r1, t, q)
  BY <1>2, <1>3 DEF Sound
<1>5. Becomes(r, t, q, r1, t, q)
  BY <1>2, <1>4 DEF Becomes, Typed
<1> QED BY Zenon, <1>1, <1>5

(* The end of a QUIC stream, told by a callback.                           *)
LEMMA QuicEnds ==
    ASSUME NEW r, NEW t, NEW q, NEW q1 \in QuicSession, Typed(r, t, q), q1.ring = q.ring
    PROVE  Becomes(r, t, q, [r EXCEPT !.fin = TRUE], t, q1)
<1>1. PICK r1 : r1 = [r EXCEPT !.fin = TRUE]
  OBVIOUS
<1>2. /\ r1 \in Net /\ r1.got = r.got /\ r1.wire = r.wire /\ r1.kind = r.kind
      /\ r1.sent = r.sent /\ r1.lost = r.lost /\ r1.fin = TRUE /\ r1.told = r.told
  BY <1>1 DEF Typed, Net
<1>3. Coming(r1, t, q1) = Coming(r, t, q) /\ All(r1, t, q1) = All(r, t, q)
  BY <1>2 DEF Coming, All
<1>4. Sound(r, t, q) => Sound(r1, t, q1)
  BY <1>2, <1>3 DEF Sound
<1>5. Becomes(r, t, q, r1, t, q1)
  BY <1>2, <1>4 DEF Becomes, Typed
<1> QED BY Zenon, <1>1, <1>5

(* Bytes that arrive by a callback; what the ring has no room for is lost. *)
LEMMA QuicReceives ==
    ASSUME NEW r, NEW t, NEW q, NEW q1, Typed(r, t, q), r.kind = "quic", ~r.fin,
           NEW k \in Nat, r.sent + k <= MaxSent, NEW new, new = [i \in 1 .. k |-> r.sent + i],
           q1 = [q EXCEPT !.ring = Pushed(q.ring, new), !.cb = TRUE]
    PROVE  Becomes(r, t, q,
                   [r EXCEPT !.sent = @ + k, !.lost = @ \/ Len(q.ring) + k > RingSize], t, q1)
<1>1. /\ r \in Net /\ q \in QuicSession /\ q.ring \in Seq(Byte) /\ Len(q.ring) <= RingSize
      /\ r.sent \in 0 .. MaxSent /\ Len(q.ring) \in Nat /\ RingSize \in Nat /\ r.lost \in BOOLEAN
  BY ConnectionAssumption, LenProperties DEF Typed, Net, QuicSession
<1>2. PICK b \in BOOLEAN : b = (r.lost \/ Len(q.ring) + k > RingSize)
  BY <1>1
<1>3. PICK r1 : r1 = [r EXCEPT !.sent = @ + k, !.lost = b]
  OBVIOUS
<1>4. new \in Seq(Byte) /\ Len(new) = k /\ \A i \in 1 .. k : new[i] = r.sent + i
  <2>1. \A i \in 1 .. k : r.sent + i \in Byte
    BY <1>1, ConnectionAssumption DEF Byte
  <2> QED BY <2>1
<1>5. PICK room \in Nat : room = RingSize - Len(q.ring)
  BY <1>1
<1>6. PICK m \in 0 .. k : m = Least(room, k)
  BY DEF Least
<1>7. PICK f : f = Front(new, room)
  OBVIOUS
<1>8. f \in Seq(Byte) /\ Len(f) = m /\ \A i \in 1 .. m : f[i] = r.sent + i
  <2>1. /\ Front(new, room) \in Seq(Byte) /\ Len(Front(new, room)) = Least(room, Len(new))
        /\ \A i \in 1 .. Len(Front(new, room)) : Front(new, room)[i] = new[i]
    <3>1. new \in Seq(Byte) /\ room \in Nat
      BY <1>4, <1>5
    <3> QED BY <3>1, FrontBeyond
  <2>2. f \in Seq(Byte) /\ Len(f) = m /\ \A i \in 1 .. m : f[i] = new[i]
    BY Zenon, <1>4, <1>6, <1>7, <2>1
  <2>3. \A i \in 1 .. m : i \in 1 .. k
    BY <1>6
  <2> QED BY Zenon, <1>4, <2>2, <2>3
<1>9. f = From(r.sent, m)
  <2>1. f = [i \in 1 .. m |-> f[i]]
    BY <1>8, LenProperties
  <2> QED BY <1>8, <2>1 DEF From
<1>10. q.ring \o f \in Seq(Byte) /\ Len(q.ring \o f) <= RingSize
  <2>1. q.ring \o f \in Seq(Byte) /\ Len(q.ring \o f) = Len(q.ring) + m
    BY <1>1, <1>8, ConcatProperties
  <2>2. m <= room
    BY <1>5, <1>6 DEF Least
  <2>3. PICK len \in Nat : len = Len(q.ring)
    BY <1>1
  <2> QED BY <1>1, <1>5, <1>6, <2>1, <2>2, <2>3
<1>11. /\ q1 \in QuicSession /\ q1.ring = q.ring \o f /\ q1.shutdown = q.shutdown
  <2>1. Pushed(q.ring, new) = q.ring \o f
    BY <1>5, <1>7 DEF Pushed
  <2> QED BY <1>1, <1>10, <2>1 DEF QuicSession
<1>12. /\ r1 \in Net /\ r1.kind = r.kind /\ r1.sent = r.sent + k /\ r1.got = r.got
       /\ r1.told = r.told /\ r1.lost = b
  <2>1. PICK sum \in 0 .. MaxSent : sum = r.sent + k
    BY <1>1, ConnectionAssumption
  <2>2. r1 = [r EXCEPT !.sent = sum, !.lost = b]
    BY <1>3, <2>1
  <2> QED BY <1>1, <1>2, <2>1, <2>2 DEF Net
<1>13. Coming(r1, t, q1) = Coming(r, t, q) \o f
  BY <1>11, <1>12 DEF Coming
<1>14. r1.lost \/ (m = k /\ ~r.lost)
  <2>1. CASE b
    BY <1>12, <2>1
  <2>2. CASE ~b
    <3>1. ~r.lost /\ ~(Len(q.ring) + k > RingSize)
      BY <1>2, <2>2
    <3>2. k <= room
      BY <1>1, <1>5, <3>1
    <3> QED BY <1>6, <3>1, <3>2 DEF Least
  <2> QED BY <2>1, <2>2
<1>15. ASSUME Sound(r, t, q) PROVE Sound(r1, t, q1)
  <2>1. /\ f \in Seq(Byte) /\ r1.kind = r.kind /\ r1.sent = r.sent + k /\ r1.got = r.got
        /\ r1.told = r.told /\ ~r.fin /\ q1.shutdown = q.shutdown
    BY <1>8, <1>11, <1>12
  <2>2. k \in Nat /\ m \in 0 .. k
    BY <1>6
  <2>3. Arriving(r, t, q, r1, q1, k, m, f)
    BY <1>9, <1>13, <1>14, <2>1, <2>2 DEF Arriving
  <2> QED BY <1>15, <2>3, Arrives
<1>16. Typed(r1, t, q1)
  BY <1>10, <1>11, <1>12 DEF Typed
<1>17. Becomes(r, t, q, r1, t, q1)
  BY <1>12, <1>15, <1>16 DEF Becomes
<1>18. r1 = [r EXCEPT !.sent = @ + k, !.lost = @ \/ Len(q.ring) + k > RingSize]
  <2>1. [r EXCEPT !.sent = @ + k, !.lost = @ \/ Len(q.ring) + k > RingSize]
        = [r EXCEPT !.sent = @ + k, !.lost = (r.lost \/ Len(q.ring) + k > RingSize)]
    BY Zenon
  <2> QED BY Zenon, <1>2, <1>3, <2>1
<1> QED BY Zenon, <1>17, <1>18

(* A connection that begins.                                               *)
LEMMA NewSound ==
    ASSUME NEW kind \in {"tcp", "tls", "quic"}
    PROVE  Typed(NewNet(kind), NewTls, NewQuic) /\ Sound(NewNet(kind), NewTls, NewQuic)
<1>1. /\ NewNet(kind).kind = kind /\ NewNet(kind).sent = 0 /\ NewNet(kind).got = <<>>
      /\ NewNet(kind).wire = <<>> /\ ~NewNet(kind).told /\ NewTls.rx = <<>>
      /\ NewTls.plain = <<>> /\ NewQuic.ring = <<>> /\ ~NewQuic.shutdown
  BY DEF NewNet, NewTls, NewQuic
<1>2. <<>> \in Seq(Byte) /\ Len(<<>>) = 0 /\ <<>> \o <<>> = <<>>
  BY EmptySeq, ConcatEmptySeq
<1>3. NewNet(kind) \in Net
  BY <1>2, ConnectionAssumption DEF NewNet, Net
<1>4. NewTls \in TlsSession /\ NewQuic \in QuicSession
  BY <1>2 DEF NewTls, NewQuic, TlsSession, QuicSession
<1>5. Typed(NewNet(kind), NewTls, NewQuic)
  BY <1>1, <1>2, <1>3, <1>4, ConnectionAssumption DEF Typed
<1>6. All(NewNet(kind), NewTls, NewQuic) = <<>>
  BY <1>1, <1>2 DEF All, Coming
<1>7. Upto(0) = <<>> /\ Rising(<<>>, 0)
  BY <1>2 DEF Upto, Rising
<1> QED BY <1>1, <1>5, <1>6, <1>7 DEF Sound

-----------------------------------------------------------------------------
(* The steps of connections.                                               *)

AllSound == \A n \in DOMAIN net : Sound(net[n], tls[n], quic[n])

(* The parts of the state but for the table, the objects and the call; and *)
(* the connections' bytes.                                                 *)
ConnRest == /\ Grows /\ ProcessTypes' /\ ConnTypes' /\ DeskTypes' /\ GpuTypes'
            /\ AllSound => AllSound'

(* Connection n goes on as the lemmas of one connection say.               *)
Moves(n, r, t, q) ==
    /\ n \in DOMAIN net /\ Becomes(net[n], tls[n], quic[n], r, t, q)
    /\ net' = [net EXCEPT ![n] = r] /\ tls' = [tls EXCEPT ![n] = t] /\ quic' = [quic EXCEPT ![n] = q]

(* The types of one connection.                                            *)
LEMMA ConnTyped ==
    ASSUME Types, NEW n \in DOMAIN net
    PROVE  Typed(net[n], tls[n], quic[n]) /\ net[n].kind \in {"tcp", "tls", "quic"}
<1>1. net[n] \in Net /\ tls[n] \in TlsSession /\ quic[n] \in QuicSession
  BY DEF Types, ConnTypes
<1>2. net[n].kind \in {"tcp", "tls", "quic"}
  BY <1>1 DEF Net
<1> QED BY <1>1, <1>2 DEF Types, ConnTypes, Typed

(* One connection goes on, the others stay.                                *)
LEMMA ConnMoved ==
    ASSUME Types, NEW n, NEW r, NEW t, NEW q, Moves(n, r, t, q), made' = made,
           UNCHANGED <<processVars, otherVars>>
    PROVE  ConnRest
<1>1. /\ DOMAIN net' = DOMAIN net /\ DOMAIN tls = DOMAIN net /\ DOMAIN quic = DOMAIN net
      /\ net \in [DOMAIN net -> Net] /\ tls \in [DOMAIN net -> TlsSession]
      /\ quic \in [DOMAIN net -> QuicSession] /\ n \in DOMAIN net
  BY DEF Types, ConnTypes, Moves
<1>2. /\ net'[n] = r /\ tls'[n] = t /\ quic'[n] = q
      /\ \A m \in DOMAIN net : m # n => net'[m] = net[m] /\ tls'[m] = tls[m] /\ quic'[m] = quic[m]
  BY <1>1 DEF Moves
<1>3. r \in Net /\ t \in TlsSession /\ q \in QuicSession /\ r.kind = net[n].kind
      /\ Len(t.plain) < RecordSize /\ Len(q.ring) <= RingSize
  BY DEF Moves, Becomes, Typed
<1>4. Grows
  BY <1>1, <1>2, <1>3 DEF Types, OsTypes, Grows, otherVars, deskVars, gpuVars
<1>5. ConnTypes'
  <2>1. net' \in [DOMAIN net -> Net] /\ tls' \in [DOMAIN net -> TlsSession]
        /\ quic' \in [DOMAIN net -> QuicSession]
    BY <1>1, <1>3 DEF Moves
  <2>2. \A m \in DOMAIN net : Len(tls'[m].plain) < RecordSize /\ Len(quic'[m].ring) <= RingSize
    BY <1>2, <1>3 DEF Types, ConnTypes
  <2> QED BY <1>1, <2>1, <2>2 DEF Types, ConnTypes, Net, TlsSession, QuicSession, Byte
<1>6. ProcessTypes' /\ DeskTypes' /\ GpuTypes'
  BY <1>4, ProcessKept, DeskKept, GpuKept DEF Types, otherVars
<1>7. ASSUME AllSound, NEW m \in DOMAIN net' PROVE Sound(net'[m], tls'[m], quic'[m])
  <2>1. Sound(net[m], tls[m], quic[m])
    BY <1>1, <1>7 DEF AllSound
  <2>2. CASE m = n
    BY <1>2, <2>1, <2>2 DEF Moves, Becomes
  <2>3. CASE m # n
    BY <1>1, <1>2, <2>1, <2>3
  <2> QED BY <2>2, <2>3
<1>8. AllSound => AllSound'
  BY <1>7 DEF AllSound
<1> QED BY <1>4, <1>5, <1>6, <1>8 DEF ConnRest

(* A step that leaves the connections as they are.                         *)
LEMMA ConnStays ==
    ASSUME Types, made' = made, UNCHANGED connVars, UNCHANGED <<processVars, otherVars>>
    PROVE  ConnRest
<1>1. Grows
  BY GrowsIf DEF Types, connVars, otherVars, deskVars, gpuVars
<1>2. ProcessTypes' /\ ConnTypes' /\ DeskTypes' /\ GpuTypes'
  BY <1>1, ProcessKept, ConnKept, DeskKept, GpuKept DEF Types, otherVars
<1>3. AllSound => AllSound'
  BY DEF AllSound, connVars
<1> QED BY <1>1, <1>2, <1>3 DEF ConnRest

(* QUIC's control goes on, its bytes stay.                                 *)
LEMMA ControlMoved ==
    ASSUME Types, NEW n \in DOMAIN net, NEW q \in QuicSession,
           q.ring = quic[n].ring, q.shutdown = quic[n].shutdown,
           quic' = [quic EXCEPT ![n] = q], UNCHANGED <<net, tls>>, made' = made,
           UNCHANGED <<processVars, otherVars>>
    PROVE  ConnRest
<1>1. Typed(net[n], tls[n], quic[n])
  BY ConnTyped
<1>2. Becomes(net[n], tls[n], quic[n], net[n], tls[n], q)
  BY <1>1, ControlBecomes
<1>3. net' = [net EXCEPT ![n] = net[n]] /\ tls' = [tls EXCEPT ![n] = tls[n]]
  BY DEF Types, ConnTypes
<1>4. Moves(n, net[n], tls[n], q)
  BY <1>2, <1>3 DEF Moves
<1> QED BY <1>4, ConnMoved

(* What is left to show of a step that leaves the table alone.             *)
LEMMA ConnStepTypes ==
    ASSUME Types, ConnRest, UNCHANGED <<htype, next, data>>, misused' \in BOOLEAN,
           left' \in [Kinds -> Nat], OpTypes', \A o \in os' : o \in os \/ Suits(o, made', net')
    PROVE  Types'
<1>1. TableTypes'
  BY TableKept DEF Types, ConnRest
<1>2. OsTypes'
  BY OsStep DEF Types, ConnRest
<1> QED BY <1>1, <1>2 DEF Types, ConnRest

(* The objects of a connection suit it.                                    *)
LEMMA ConnObjects ==
    ASSUME Types, NEW n \in DOMAIN net
    PROVE  /\ net[n].kind \in {"tcp", "tls"} => Suits(Sock(n), made, net)
           /\ Suits(Tls(n), made, net) /\ Suits(Conn(n), made, net)
           /\ net[n].kind = "quic" => Suits(Strm(n), made, net)
           /\ \A o \in Session(n) : Suits(o, made, net)
<1>1. n \in 1 .. made
  BY DEF Types, ConnTypes
<1> QED BY <1>1 DEF Suits, What, Object, Sock, Tls, Conn, Strm, Session

(* A connection begins: nothing has been sent over it.                     *)
LEMMA ConnectCallTypes ==
    ASSUME Types, NEW kind \in Transports, ConnectCall(kind), UNCHANGED <<processVars, otherVars>>
    PROVE  Types' /\ (AllSound => AllSound')
<1>1. PICK n \in Nat \ {0} : n = made + 1
  BY DEF Types, OsTypes
<1>2. /\ made' = n /\ net' = Extended(net, n, NewNet(kind)) /\ tls' = Extended(tls, n, NewTls)
      /\ quic' = Extended(quic, n, NewQuic)
      /\ op' = [NoOp EXCEPT !.call = "connect", !.at = IF kind = "quic" THEN "quic" ELSE "socket",
                            !.n = n]
      /\ UNCHANGED <<htype, next, data, os, misused>>
  BY <1>1 DEF ConnectCall, Create
<1>3. kind \in {"tcp", "tls", "quic"}
  BY ConnectionAssumption
<1>4. Typed(NewNet(kind), NewTls, NewQuic) /\ Sound(NewNet(kind), NewTls, NewQuic)
      /\ NewNet(kind).kind = kind
  BY <1>3, NewSound DEF NewNet
<1>5. n \notin DOMAIN net /\ 1 .. made \subseteq 1 .. n
  BY <1>1 DEF Types, ConnTypes, OsTypes
<1>6. /\ DOMAIN net' = DOMAIN net \cup {n} /\ net'[n] = NewNet(kind) /\ tls'[n] = NewTls
      /\ quic'[n] = NewQuic
      /\ \A m \in DOMAIN net : m # n /\ net'[m] = net[m] /\ tls'[m] = tls[m] /\ quic'[m] = quic[m]
  BY <1>2, <1>5 DEF Extended, Types, ConnTypes
<1>7. Grows
  BY <1>1, <1>2, <1>6 DEF Grows, Types, OsTypes, otherVars, deskVars, gpuVars
<1>8. ConnTypes'
  <2>1. net \in [DOMAIN net -> Net] /\ tls \in [DOMAIN net -> TlsSession]
        /\ quic \in [DOMAIN net -> QuicSession]
    BY DEF Types, ConnTypes
  <2>2. NewNet(kind) \in Net /\ NewTls \in TlsSession /\ NewQuic \in QuicSession
    BY <1>4 DEF Typed
  <2>3. /\ net' \in [DOMAIN net' -> Net] /\ tls' \in [DOMAIN net' -> TlsSession]
        /\ quic' \in [DOMAIN net' -> QuicSession]
    BY <1>2, <2>1, <2>2 DEF Extended
  <2>4. \A m \in DOMAIN net' : Len(tls'[m].plain) < RecordSize /\ Len(quic'[m].ring) <= RingSize
    BY <1>4, <1>6 DEF Types, ConnTypes, Typed
  <2>5. DOMAIN net' \subseteq 1 .. made'
    BY <1>1, <1>2, <1>5, <1>6 DEF Types, ConnTypes
  <2> QED BY <2>3, <2>4, <2>5 DEF ConnTypes, Net, TlsSession, QuicSession, Byte
<1>9. ProcessTypes' /\ DeskTypes' /\ GpuTypes' /\ TableTypes'
  BY <1>2, <1>7, ProcessKept, DeskKept, GpuKept, TableKept DEF Types, otherVars
<1>10. OsTypes'
  <2>1. left' \in [Kinds -> Nat] /\ misused' \in BOOLEAN
    BY <1>2, Accounts DEF ConnectCall, Types, OsTypes, Kinds
  <2> QED BY <1>2, <1>7, <2>1, OsStep DEF Types
<1>11. OpTypes'
  <2>1. PICK at \in {"quic", "socket"} : at = IF kind = "quic" THEN "quic" ELSE "socket"
    OBVIOUS
  <2>2. op' = [call |-> "connect", at |-> at, n |-> n, h |-> 0, cap |-> 0,
               mode |-> [s \in Stream |-> "inherit"]]
    BY <1>2, <2>1 DEF NoOp
  <2>3. op' \in Op' /\ op'.call = "connect" /\ op'.at = at /\ op'.n = n /\ op'.h = 0
    BY <2>2 DEF Op, Stream
  <2>4. n \in DOMAIN net' /\ net'[n].kind = kind
    BY <1>4, <1>6
  <2>5. \/ at = "quic" /\ kind = "quic"
        \/ at = "socket" /\ kind \in {"tcp", "tls"}
    <3>1. CASE kind = "quic"
      BY <2>1, <3>1
    <3>2. CASE kind # "quic"
      BY <1>3, <2>1, <3>2
    <3> QED BY <3>1, <3>2
  <2> QED BY <2>3, <2>4, <2>5 DEF OpTypes, QuicEnd
<1>12. AllSound => AllSound'
  BY <1>4, <1>6 DEF AllSound
<1> QED BY <1>7, <1>8, <1>9, <1>10, <1>11, <1>12 DEF Types

(* CONNECT goes on to another of its places.                               *)
LEMMA ConnectGoes ==
    ASSUME Types, ConnRest, op.call = "connect", NEW at, Goto(at),
           at \in {"handshake", "entry", "connected", "ready"} \cup QuicEnd,
           at = "handshake" => net[op.n].kind = "tls",
           at \in {"connected", "ready"} \cup QuicEnd => net[op.n].kind = "quic"
    PROVE  OpTypes'
<1>1. op.n \in DOMAIN net /\ op.h = 0
  BY DEF Types, OpTypes
<1>2. op' \in Op' /\ op'.at = at /\ op'.call = "connect" /\ op'.n = op.n /\ op'.h = 0
  BY <1>1, OpGoes DEF Types, QuicEnd
<1>3. op'.n \in DOMAIN net' /\ net'[op'.n].kind = net[op.n].kind
  BY <1>1, <1>2 DEF ConnRest, Grows
<1>4. op'.at # "socket" /\ op'.at # "quic"
  BY <1>2 DEF QuicEnd
<1> QED BY <1>2, <1>3, <1>4 DEF OpTypes

(* CONNECT over a socket.                                                  *)
LEMMA SocketTypes ==
    ASSUME Types, OpenSocket \/ Handshake, UNCHANGED <<processVars, otherVars>>
    PROVE  Types' /\ (AllSound => AllSound')
<1>1. ConnRest
  BY ConnStays DEF OpenSocket, Handshake
<1>2. op.call = "connect" /\ op.at \in {"socket", "handshake"}
  BY DEF OpenSocket, Handshake, In
<1>3. op.n \in DOMAIN net /\ net[op.n].kind \in {"tcp", "tls"}
  BY <1>2 DEF Types, OpTypes
<1>4. OpTypes'
  <2>1. CASE op' = NoOp
    BY <2>1, OpDone
  <2>2. CASE Goto("entry")
    BY <1>1, <1>2, <2>2, ConnectGoes DEF QuicEnd
  <2>3. CASE Goto("handshake") /\ net[op.n].kind = "tls"
    BY <1>1, <1>2, <2>3, ConnectGoes DEF QuicEnd
  <2> QED BY <2>1, <2>2, <2>3 DEF OpenSocket, Handshake, Return
<1>5. misused' \in BOOLEAN /\ left' = left /\ made' = made
      /\ os' \subseteq os \cup {Sock(op.n), Tls(op.n)}
  BY Accounts DEF OpenSocket, Handshake, Types, OsTypes
<1>6. Suits(Sock(op.n), made, net) /\ Suits(Tls(op.n), made, net)
  BY <1>3, ConnObjects
<1>7. \A o \in os' : o \in os \/ Suits(o, made', net')
  BY <1>1, <1>5, <1>6, StillSuits DEF ConnRest
<1>8. Types'
  BY <1>1, <1>4, <1>5, <1>7, ConnStepTypes DEF Types, OsTypes, OpenSocket, Handshake
<1> QED BY <1>1, <1>8 DEF ConnRest

(* A connection's entry, or the end of it when the table is full.          *)
LEMMA EnterConnTypes ==
    ASSUME Types, EnterConn, UNCHANGED <<processVars, otherVars>>
    PROVE  Types' /\ (AllSound => AllSound')
<1>1. ConnRest
  BY ConnStays DEF EnterConn
<1>2. op.call = "connect" /\ op.n \in DOMAIN net /\ made' = made /\ left' = left
  BY DEF EnterConn, In, Types, OpTypes
<1>3. CASE Return /\ UNCHANGED <<os, misused>> /\ \E h \in Handle : Entry(h, "conn", [Blank EXCEPT !.n = op.n])
  <2>1. PICK h \in Handle, d \in {[Blank EXCEPT !.n = op.n]} : Entry(h, "conn", d)
    BY <1>3
  <2>2. d \in Data(made') /\ d.n = op.n
    BY <1>2, <2>1 DEF Types, ConnTypes, Data, Blank, Stream, OsTypes
  <2>3. Refers("conn", d, made', net', desk', gpu')
    <3>1. "conn" \notin {"process", "pipe", "instance"} \cup DeskKind \cup TokenKind \cup GpuType
      BY DEF DeskKind, TokenKind, GpuType
    <3>2. d.n \in DOMAIN net'
      BY <1>1, <1>2, <2>2 DEF ConnRest, Grows
    <3> QED BY <3>1, <3>2 DEF Refers
  <2>4. "conn" \in HandleType
    BY ObjectAssumption
  <2>5. TableTypes'
    BY <1>1, <2>1, <2>2, <2>3, <2>4, TableEntry DEF Types, ConnRest
  <2>6. OsTypes'
    BY <1>1, <1>2, <1>3, OsStep DEF Types, OsTypes, ConnRest
  <2>7. OpTypes'
    BY <1>3, OpDone DEF Return
  <2> QED BY <1>1, <2>5, <2>6, <2>7 DEF Types, ConnRest
<1>4. CASE UNCHANGED <<htype, next, data>> /\ IF net[op.n].kind = "quic" THEN Goto("close stream") /\ UNCHANGED <<os, misused>>
                                        ELSE Close(ObjectsOf(op.n)) /\ Return
  <2>1. OpTypes'
    <3>1. CASE net[op.n].kind = "quic"
      BY <1>1, <1>2, <1>4, <3>1, ConnectGoes DEF QuicEnd
    <3>2. CASE net[op.n].kind # "quic"
      BY <1>4, <3>2, OpDone DEF Return
    <3> QED BY <3>1, <3>2
  <2>2. misused' \in BOOLEAN /\ os' \subseteq os
    <3>1. PICK S : S = ObjectsOf(op.n)
      OBVIOUS
    <3>2. Close(S) \/ UNCHANGED <<os, misused>>
      BY <1>4, <3>1
    <3> QED BY <3>2, Accounts DEF Types, OsTypes
  <2>3. Types'
    BY <1>1, <1>2, <1>4, <2>1, <2>2, ConnStepTypes DEF Types, OsTypes
  <2> QED BY <1>1, <2>3 DEF ConnRest
<1> QED BY <1>3, <1>4 DEF EnterConn

(* CONNECT over QUIC.                                                      *)
LEMMA QuicConnectTypes ==
    ASSUME Types, QuicOpen \/ QuicConnected \/ QuicReady, UNCHANGED <<processVars, otherVars>>
    PROVE  Types' /\ (AllSound => AllSound')
<1>1. op.call = "connect" /\ op.at \in {"quic", "connected", "ready"} /\ made' = made /\ left' = left
      /\ UNCHANGED <<htype, next, data>>
  BY DEF QuicOpen, QuicConnected, QuicReady, In
<1>2. op.n \in DOMAIN net /\ net[op.n].kind = "quic" /\ quic[op.n] \in QuicSession
  BY <1>1 DEF Types, OpTypes, ConnTypes
<1>3. ConnRest
  <2>1. CASE UNCHANGED connVars
    BY <1>1, <2>1, ConnStays
  <2>2. CASE quic' = [quic EXCEPT ![op.n].conn = "starting"] /\ UNCHANGED <<net, tls>>
    <3>1. PICK q : q = [quic[op.n] EXCEPT !.conn = "starting"]
      OBVIOUS
    <3>2. q \in QuicSession /\ q.ring = quic[op.n].ring /\ q.shutdown = quic[op.n].shutdown
      BY <1>2, <3>1 DEF QuicSession
    <3>3. quic' = [quic EXCEPT ![op.n] = q]
      BY <2>2, <3>1
    <3> QED BY <1>1, <1>2, <2>2, <3>2, <3>3, ControlMoved
  <2>3. CASE quic' = [quic EXCEPT ![op.n].strm = "starting"] /\ UNCHANGED <<net, tls>>
    <3>1. PICK q : q = [quic[op.n] EXCEPT !.strm = "starting"]
      OBVIOUS
    <3>2. q \in QuicSession /\ q.ring = quic[op.n].ring /\ q.shutdown = quic[op.n].shutdown
      BY <1>2, <3>1 DEF QuicSession
    <3>3. quic' = [quic EXCEPT ![op.n] = q]
      BY <2>3, <3>1
    <3> QED BY <1>1, <1>2, <2>3, <3>2, <3>3, ControlMoved
  <2> QED BY <2>1, <2>2, <2>3 DEF QuicOpen, QuicConnected, QuicReady, connVars
<1>4. OpTypes'
  <2>1. \/ op' = NoOp
        \/ \E at \in {"free", "close conn", "close stream", "connected", "ready", "entry"} : Goto(at)
    BY DEF QuicOpen, QuicConnected, QuicReady, Return
  <2>2. ASSUME NEW at \in {"free", "close conn", "close stream", "connected", "ready", "entry"}, Goto(at)
        PROVE  OpTypes'
    BY <1>1, <1>2, <1>3, <2>2, ConnectGoes DEF QuicEnd
  <2> QED BY <2>1, <2>2, OpDone
<1>5. misused' \in BOOLEAN /\ os' \subseteq os \cup Session(op.n) \cup {Conn(op.n), Strm(op.n)}
  <2>1. \/ UNCHANGED <<os, misused>>
        \/ Open(Session(op.n)) \/ Open(Session(op.n) \cup {Conn(op.n)}) \/ Open({Strm(op.n)})
        \/ Uses(Session(op.n)) /\ os' = os
    BY DEF QuicOpen, QuicConnected, QuicReady
  <2>2. ASSUME NEW S, S \subseteq Session(op.n) \cup {Conn(op.n), Strm(op.n)}, Open(S)
        PROVE  misused' \in BOOLEAN /\ os' \subseteq os \cup Session(op.n) \cup {Conn(op.n), Strm(op.n)}
    BY <2>2, Accounts DEF Types
  <2>3. CASE Open(Session(op.n))
    BY <2>2, <2>3
  <2>4. CASE Open(Session(op.n) \cup {Conn(op.n)})
    BY <2>2, <2>4
  <2>5. CASE Open({Strm(op.n)})
    BY <2>2, <2>5
  <2>6. CASE os' = os /\ (misused' = misused \/ Uses(Session(op.n)))
    BY <2>6, Accounts DEF Types, OsTypes
  <2> QED BY <2>1, <2>3, <2>4, <2>5, <2>6
<1>6. \A o \in Session(op.n) \cup {Conn(op.n), Strm(op.n)} : Suits(o, made, net)
  BY <1>2, ConnObjects
<1>7. \A o \in os' : o \in os \/ Suits(o, made', net')
  BY <1>3, <1>5, <1>6, StillSuits DEF ConnRest
<1>8. Types'
  BY <1>1, <1>3, <1>4, <1>5, <1>7, ConnStepTypes DEF Types, OsTypes
<1> QED BY <1>3, <1>8 DEF ConnRest

(* Who is at the end of a connection over QUIC.                            *)
LEMMA AtQuicEnd ==
    ASSUME Types, op.at \in QuicEnd
    PROVE  /\ op.call \in {"connect", "close"} /\ op.n \in DOMAIN net /\ net[op.n].kind = "quic"
           /\ op.call = "connect" => op.h = 0
           /\ op.call = "close" => OnEntry("conn")
<1>1. op.at \notin {"none", "native", "pipe", "process", "spawn", "entry", "wait", "tcp", "tls", "quic"} \cup Stream
      /\ op.at \notin DeskKind /\ op.at \notin GpuType
  BY DEF QuicEnd, Stream, DeskKind, TokenKind, GpuType
<1>2. op.call # "none"
  BY <1>1 DEF Types, OpTypes, NoOp
<1>3. op.call \notin {"create", "wrap", "read", "write", "wait", "send", "make", "gpu", "request", "process"}
  BY <1>1 DEF Types, OpTypes
<1>4. op.call # "recv"
  <2> SUFFICES ASSUME op.call = "recv" PROVE FALSE
    OBVIOUS
  <2>1. OnEntry("conn") /\ (op.at = net[op.n].kind \/ op.at = "wait")
    BY DEF Types, OpTypes
  <2>2. op.n \in DOMAIN net
    BY <2>1 DEF OnEntry, Types, TableTypes, Refers
  <2> QED BY <1>1, <2>1, <2>2, ConnTyped
<1>5. op.call \in {"connect", "close"}
  BY <1>2, <1>3, <1>4 DEF Types, OpTypes, Op
<1>6. op.call = "close" => op.n \in DOMAIN net
  BY DEF OnEntry, Types, TableTypes, Refers, OpTypes
<1> QED BY <1>5, <1>6 DEF Types, OpTypes

(* The end of a connection over QUIC.                                      *)
LEMMA QuicEndTypes ==
    ASSUME Types, CloseStream \/ CloseConn \/ FreeSession, UNCHANGED <<processVars, otherVars>>
    PROVE  Types' /\ (AllSound => AllSound')
<1>1. ConnRest
  BY ConnStays DEF CloseStream, CloseConn, FreeSession
<1>2. /\ op.at \in QuicEnd /\ made' = made /\ left' = left
  BY DEF CloseStream, CloseConn, FreeSession, QuicEnd
<1>3. misused' \in BOOLEAN /\ os' \subseteq os
  BY Accounts DEF Types, CloseStream, CloseConn, FreeSession
<1>4. TableTypes'
  BY <1>1, TableKept, TableFreed DEF Types, ConnRest, CloseStream, CloseConn, FreeSession
<1>5. OsTypes'
  BY <1>1, <1>2, <1>3, OsStep DEF Types, ConnRest, OsTypes
<1>6. OpTypes'
  <2>1. CASE FreeSession
    BY <2>1, OpDone DEF FreeSession, Return
  <2>2. CASE CloseStream \/ CloseConn
    <3>1. PICK at \in {"close conn", "free"} : Goto(at)
      BY <2>2 DEF CloseStream, CloseConn
    <3>2. CASE op.call = "connect"
      BY <1>1, <1>2, <3>1, <3>2, AtQuicEnd, ConnectGoes DEF QuicEnd
    <3>3. CASE op.call = "close"
      <4>1. /\ op' \in Op' /\ op'.at = at /\ op'.call = "close" /\ op'.n = op.n /\ op'.h = op.h
        BY <3>1, <3>3, OpGoes DEF Types
      <4>2. OnEntry("conn") /\ htype' = htype /\ data' = data
        BY <1>2, <2>2, <3>3, AtQuicEnd DEF CloseStream, CloseConn
      <4>3. OnEntry("conn")'
        BY <4>1, <4>2 DEF OnEntry, Handle
      <4>4. net'[op.n].kind = "quic"
        BY <1>1, <1>2, AtQuicEnd DEF ConnRest, Grows
      <4> QED BY <4>1, <4>3, <4>4 DEF OpTypes, QuicEnd
    <3> QED BY <1>2, <3>2, <3>3, AtQuicEnd
  <2> QED BY <2>1, <2>2
<1> QED BY <1>1, <1>4, <1>5, <1>6 DEF Types, ConnRest

(* A call on a connection's entry.                                         *)
LEMMA OnConn ==
    ASSUME Types, NEW h, IsA(h, "conn")
    PROVE  data[h].n \in DOMAIN net /\ net[data[h].n].kind \in {"tcp", "tls", "quic"}
<1>1. data[h].n \in DOMAIN net
  BY DEF Types, TableTypes, Refers, IsA
<1> QED BY <1>1, ConnTyped

(* CLOSE.                                                                  *)
LEMMA CloseCallTypes ==
    ASSUME Types, NEW h \in Handle, CloseCall(h), UNCHANGED <<processVars, otherVars>>
    PROVE  Types' /\ (AllSound => AllSound')
<1>1. ConnRest
  BY ConnStays DEF CloseCall
<1>2. Idle /\ IsA(h, "conn") /\ made' = made /\ left' = left
  BY DEF CloseCall
<1>3. CASE net[data[h].n].kind = "quic"
  <2>1. PICK call \in {"close"}, at \in {"close stream"} : Begin(call, at, h)
    BY <1>3 DEF CloseCall
  <2>2. UNCHANGED <<os, misused, htype, next, data>>
    BY <1>3 DEF CloseCall
  <2>3. op'.call = call /\ op'.at = at /\ OnEntry("conn")' /\ op' \in Op'
    BY <1>2, <2>1, <2>2, BeginsOn
  <2>4. op'.n = data[h].n
    BY <2>1 DEF Begin, NoOp
  <2>5. net'[data[h].n].kind = "quic"
    BY <1>1, <1>2, <1>3, OnConn DEF ConnRest, Grows
  <2>6. OpTypes'
    BY <2>3, <2>4, <2>5 DEF OpTypes, QuicEnd
  <2>7. Types'
    BY <1>1, <1>2, <2>2, <2>6, ConnStepTypes DEF Types, OsTypes
  <2> QED BY <1>1, <2>7 DEF ConnRest
<1>4. CASE net[data[h].n].kind # "quic"
  <2>1. PICK S : Close(S) /\ FreeAll({h}) /\ op' = op
    BY <1>4 DEF CloseCall
  <2>2. TableTypes'
    BY <1>1, <2>1, TableFreed DEF Types, ConnRest
  <2>3. OsTypes'
    BY <1>1, <1>2, <2>1, Accounts, OsStep DEF Types, ConnRest, OsTypes
  <2>4. OpTypes'
    BY <1>2, <2>1, OpDone DEF Types, OpTypes, Idle
  <2> QED BY <1>1, <2>2, <2>3, <2>4 DEF Types, ConnRest
<1> QED BY <1>3, <1>4

(* RECV begins.                                                            *)
LEMMA RecvCallTypes ==
    ASSUME Types, NEW h \in Handle, NEW cap \in 1 .. MaxCap, RecvCall(h, cap),
           UNCHANGED <<processVars, otherVars>>
    PROVE  Types' /\ (AllSound => AllSound')
<1>1. ConnRest
  BY ConnStays DEF RecvCall
<1>2. PICK kind \in {"tcp", "tls", "quic"} : kind = net[data[h].n].kind
  BY OnConn DEF RecvCall
<1>3. op' = [call |-> "recv", at |-> kind, n |-> data[h].n, h |-> h, cap |-> cap,
             mode |-> [s \in Stream |-> "inherit"]]
  BY <1>2 DEF RecvCall, NoOp
<1>4. data[h].n \in Nat /\ [s \in Stream |-> "inherit"] \in [Stream -> {"inherit", "pipe", "null"}]
      /\ cap \in Nat
  BY ConnectionAssumption DEF Types, TableTypes, Data, OsTypes
<1>5. op' \in Op' /\ op'.call = "recv" /\ op'.at = kind /\ op'.n = data[h].n /\ op'.cap = cap /\ op'.h = h
  BY <1>3, <1>4 DEF Op, Handle
<1>6. OnEntry("conn")'
  BY <1>5 DEF OnEntry, RecvCall, IsA, Handle
<1>7. net'[op'.n].kind = kind
  BY <1>2, <1>5 DEF RecvCall, connVars
<1>8. OpTypes'
  BY <1>5, <1>6, <1>7 DEF OpTypes
<1>9. Types'
  BY <1>1, <1>8, ConnStepTypes DEF RecvCall, Types, OsTypes
<1> QED BY <1>1, <1>9 DEF ConnRest

(* A call on a connection in progress.                                     *)
LEMMA OnOp ==
    ASSUME Types, op.call \in {"recv", "send"}
    PROVE  /\ OnEntry("conn") /\ op.n \in DOMAIN net /\ Typed(net[op.n], tls[op.n], quic[op.n])
           /\ op.call = "recv" => /\ op.cap \in 1 .. MaxCap
                                  /\ op.at \in {"tcp", "tls", "quic"} => net[op.n].kind = op.at
                                  /\ op.at = "wait" => net[op.n].kind = "quic"
           /\ op.call = "send" => net[op.n].kind = "quic"
<1>1. OnEntry("conn")
  BY DEF Types, OpTypes
<1>2. op.n \in DOMAIN net
  BY <1>1 DEF Types, TableTypes, Refers, OnEntry
<1>3. op.call = "recv" => /\ op.cap \in 1 .. MaxCap
                          /\ op.at \in {"tcp", "tls", "quic"} => net[op.n].kind = op.at
                          /\ op.at = "wait" => net[op.n].kind = "quic"
  <2>1. net[op.n].kind \in {"tcp", "tls", "quic"}
    BY <1>2, ConnTyped
  <2> QED BY <2>1 DEF Types, OpTypes
<1>4. op.call = "send" => net[op.n].kind = "quic"
  BY DEF Types, OpTypes
<1> QED BY <1>1, <1>2, <1>3, <1>4, ConnTyped

(* A receive or a send that returns.                                       *)
LEMMA ReturnTypes ==
    ASSUME Types, ConnRest, UNCHANGED <<htype, next, data, os, left>>, misused' \in BOOLEAN, Return
    PROVE  Types' /\ (AllSound => AllSound')
<1>1. OpTypes'
  BY OpDone DEF Return
<1>2. Types'
  BY <1>1, ConnStepTypes DEF Types, OsTypes
<1> QED BY <1>2 DEF ConnRest

(* RECV on a TCP socket.                                                   *)
LEMMA TcpRecvTypes ==
    ASSUME Types, TcpRecv, UNCHANGED <<processVars, otherVars>>
    PROVE  Types' /\ (AllSound => AllSound')
<1>1. op.n \in DOMAIN net /\ Typed(net[op.n], tls[op.n], quic[op.n]) /\ net[op.n].kind = "tcp"
      /\ op.cap \in 1 .. MaxCap
  BY OnOp DEF TcpRecv, In
<1>2. PICK n \in DOMAIN net : n = op.n
  BY <1>1
<1>3. tls' = [tls EXCEPT ![n] = tls[n]] /\ quic' = [quic EXCEPT ![n] = quic[n]] /\ made' = made
  BY <1>2 DEF TcpRecv, Types, ConnTypes
<1>4. ConnRest
  <2>1. CASE \E k \in 1 .. Least(op.cap, Len(net[n].wire)) :
               net' = [net EXCEPT ![n].got = @ \o Front(net[n].wire, k), ![n].wire = Beyond(net[n].wire, k)]
    <3>0. Least(op.cap, Len(net[n].wire)) \in Nat
      BY <1>1, <1>2, LenProperties, ConnectionAssumption DEF Least, Typed, Net
    <3>1. PICK k \in 1 .. Least(op.cap, Len(net[n].wire)) :
               net' = [net EXCEPT ![n].got = @ \o Front(net[n].wire, k), ![n].wire = Beyond(net[n].wire, k)]
      BY Zenon, <2>1
    <3>6. k \in Nat
      BY <3>0
    <3>2. PICK r : r = [net[n] EXCEPT !.got = @ \o Front(net[n].wire, k), !.wire = Beyond(net[n].wire, k)]
      OBVIOUS
    <3>3. net' = [net EXCEPT ![n] = r]
      BY <3>1, <3>2 DEF Types, ConnTypes, Net
    <3>4. Becomes(net[n], tls[n], quic[n], r, tls[n], quic[n])
      BY <1>1, <1>2, <3>2, <3>6, TcpGives
    <3>5. Moves(n, r, tls[n], quic[n])
      BY <1>3, <3>3, <3>4 DEF Moves
    <3> QED BY <1>3, <3>5, ConnMoved
  <2>2. CASE net[n].wire = <<>> /\ net[n].fin /\ TellEnd(n)
    <3>1. PICK r : r = [net[n] EXCEPT !.told = TRUE]
      OBVIOUS
    <3>2. net' = [net EXCEPT ![n] = r]
      BY <2>2, <3>1 DEF TellEnd
    <3>3. Len(Coming(net[n], tls[n], quic[n])) < 1
      <4>1. Coming(net[n], tls[n], quic[n]) = <<>>
        BY <1>1, <1>2, <2>2 DEF Coming
      <4> QED BY <4>1, EmptySeq
    <3>4. Becomes(net[n], tls[n], quic[n], r, tls[n], quic[n])
      BY <1>1, <1>2, <2>2, <3>1, <3>3, EndBecomes
    <3>5. Moves(n, r, tls[n], quic[n])
      BY <1>3, <3>2, <3>4 DEF Moves
    <3> QED BY <1>3, <3>5, ConnMoved
  <2> QED BY <1>2, <2>1, <2>2 DEF TcpRecv
<1> QED BY <1>4, ReturnTypes, Accounts DEF TcpRecv, Types

(* RECV on a TLS session.                                                  *)
LEMMA TlsRecvTypes ==
    ASSUME Types, TlsRecv, UNCHANGED <<processVars, otherVars>>
    PROVE  Types' /\ (AllSound => AllSound')
<1>1. op.n \in DOMAIN net /\ Typed(net[op.n], tls[op.n], quic[op.n]) /\ net[op.n].kind = "tls"
      /\ op.cap \in 1 .. MaxCap
  BY OnOp DEF TlsRecv, In
<1>2. PICK n \in DOMAIN net : n = op.n
  BY <1>1
<1>3. PICK cap \in Nat \ {0} : cap = op.cap
  BY <1>1
<1>4. quic' = [quic EXCEPT ![n] = quic[n]] /\ made' = made
  BY <1>2 DEF TlsRecv, Types, ConnTypes
<1>5. PICK r, t : r = net[n] /\ t = tls[n]
  OBVIOUS
<1>6. /\ Typed(r, t, quic[n]) /\ r.kind = "tls" /\ r.wire \in Seq(Byte) /\ t.rx \in Seq(Byte)
      /\ r \in Net /\ t \in TlsSession
  BY <1>1, <1>2, <1>5 DEF Typed, Net, TlsSession
<1>7. net \in [DOMAIN net -> Net] /\ tls \in [DOMAIN net -> TlsSession]
  BY DEF Types, ConnTypes
<1>8. ASSUME NEW buf \in Seq(Byte), NEW unread \in Seq(Byte), buf \o unread = t.rx \o r.wire,
             t.plain = <<>>, Decrypt(n, buf, unread)
      PROVE  ConnRest
  <2>1. PICK r1 : r1 = [r EXCEPT !.got = @ \o Front(Front(buf, RecordSize), cap), !.wire = unread]
    OBVIOUS
  <2>2. PICK t1 : t1 = [rx |-> Beyond(buf, RecordSize), plain |-> Beyond(Front(buf, RecordSize), cap)]
    OBVIOUS
  <2>3. net' = [net EXCEPT ![n] = r1]
    BY <1>3, <1>2, <1>5, <1>7, <1>8, <2>1 DEF Decrypt, Net
  <2>4. tls' = [tls EXCEPT ![n] = t1]
    BY <1>3, <1>2, <1>8, <2>2 DEF Decrypt, Spill
  <2>5. Becomes(r, t, quic[n], r1, t1, quic[n])
    BY <1>3, <1>6, <1>8, <2>1, <2>2, TlsDecrypts
  <2>6. Moves(n, r1, t1, quic[n])
    BY <1>4, <1>5, <2>3, <2>4, <2>5 DEF Moves
  <2> QED BY <1>4, <2>6, ConnMoved
<1>9. ConnRest
  <2>1. CASE Give(n, Front(t.plain, cap)) /\ tls' = [tls EXCEPT ![n].plain = Beyond(t.plain, cap)]
    <3>1. PICK r1 : r1 = [r EXCEPT !.got = @ \o Front(t.plain, cap)]
      OBVIOUS
    <3>2. PICK t1 : t1 = [t EXCEPT !.plain = Beyond(t.plain, cap)]
      OBVIOUS
    <3>3. net' = [net EXCEPT ![n] = r1]
      BY <1>5, <1>7, <2>1, <3>1 DEF Give, Net
    <3>4. tls' = [tls EXCEPT ![n] = t1]
      BY <1>5, <2>1, <3>2
    <3>5. Becomes(r, t, quic[n], r1, t1, quic[n])
      BY <1>3, <1>6, <3>1, <3>2, TlsGives
    <3>6. Moves(n, r1, t1, quic[n])
      BY <1>4, <1>5, <3>3, <3>4, <3>5 DEF Moves
    <3> QED BY <1>4, <3>6, ConnMoved
  <2>2. CASE t.plain = <<>> /\ Decrypt(n, t.rx, r.wire)
    BY <1>6, <1>8, <2>2
  <2>3. CASE /\ t.plain = <<>>
             /\ \E k \in 1 .. Len(r.wire) : Decrypt(n, t.rx \o Front(r.wire, k), Beyond(r.wire, k))
    <3>1. PICK k \in Nat : Decrypt(n, t.rx \o Front(r.wire, k), Beyond(r.wire, k))
      BY <2>3
    <3>2. (t.rx \o Front(r.wire, k)) \o Beyond(r.wire, k) = t.rx \o r.wire
      BY <1>6, GivenFront
    <3>3. Front(r.wire, k) \in Seq(Byte) /\ Beyond(r.wire, k) \in Seq(Byte)
      BY <1>6, FrontBeyond
    <3>4. t.rx \o Front(r.wire, k) \in Seq(Byte)
      BY <1>6, <3>3, Together
    <3> QED BY <1>8, <2>3, <3>1, <3>2, <3>3, <3>4
  <2>4. CASE /\ t.plain = <<>> /\ Len(t.rx \o r.wire) < RecordSize
             /\ tls' = [tls EXCEPT ![n].rx = t.rx \o r.wire]
             /\ net' = [net EXCEPT ![n].wire = <<>>, ![n].told = @ \/ net[n].fin]
    <3>1. PICK r1 : r1 = [r EXCEPT !.wire = <<>>, !.told = @ \/ r.fin]
      OBVIOUS
    <3>2. PICK t1 : t1 = [t EXCEPT !.rx = t.rx \o r.wire]
      OBVIOUS
    <3>3. net' = [net EXCEPT ![n] = r1]
      BY Zenon, <1>5, <2>4, <3>1
    <3>4. tls' = [tls EXCEPT ![n] = t1]
      BY <1>5, <2>4, <3>2
    <3>5. Becomes(r, t, quic[n], r1, t1, quic[n])
      BY <1>6, <2>4, <3>1, <3>2, TlsStores
    <3>6. Moves(n, r1, t1, quic[n])
      BY <1>4, <1>5, <3>3, <3>4, <3>5 DEF Moves
    <3> QED BY <1>4, <3>6, ConnMoved
  <2> QED BY <1>2, <1>3, <1>5, <2>1, <2>2, <2>3, <2>4 DEF TlsRecv
<1> QED BY <1>9, ReturnTypes, Accounts DEF TlsRecv, Types

(* RECV goes on at another place.                                          *)
LEMMA RecvGoes ==
    ASSUME Types, ConnRest, op.call = "recv", net[op.n].kind = "quic", NEW at \in {"quic", "wait"},
           Goto(at), UNCHANGED <<htype, data>>
    PROVE  OpTypes'
<1>1. /\ op' \in Op' /\ op'.at = at /\ op'.call = "recv" /\ op'.n = op.n /\ op'.h = op.h
      /\ op'.cap = op.cap
  BY OpGoes DEF Types
<1>2. OnEntry("conn") /\ op.n \in DOMAIN net /\ op.cap \in 1 .. MaxCap
  BY OnOp
<1>3. OnEntry("conn")'
  BY <1>1, <1>2 DEF OnEntry, Handle
<1>4. net'[op.n].kind = "quic"
  BY <1>2 DEF ConnRest, Grows
<1> QED BY <1>1, <1>2, <1>3, <1>4 DEF OpTypes

(* RECV on a QUIC session: the part under the lock.                        *)
LEMMA QuicRecvTypes ==
    ASSUME Types, QuicRecv, UNCHANGED <<processVars, otherVars>>
    PROVE  Types' /\ (AllSound => AllSound')
<1>1. /\ op.n \in DOMAIN net /\ Typed(net[op.n], tls[op.n], quic[op.n]) /\ net[op.n].kind = "quic"
      /\ op.cap \in 1 .. MaxCap
  BY OnOp DEF QuicRecv, In
<1>2. PICK n \in DOMAIN net : n = op.n
  BY <1>1
<1>3. PICK cap \in Nat \ {0} : cap = op.cap
  BY <1>1
<1>4. tls' = [tls EXCEPT ![n] = tls[n]] /\ made' = made
  BY <1>2 DEF QuicRecv, Types, ConnTypes
<1>5. PICK r, q : r = net[n] /\ q = quic[n]
  OBVIOUS
<1>6. Typed(r, tls[n], q) /\ r.kind = "quic" /\ r \in Net /\ q \in QuicSession
  BY <1>1, <1>2, <1>5 DEF Typed
<1>7. net \in [DOMAIN net -> Net] /\ quic \in [DOMAIN net -> QuicSession]
  BY DEF Types, ConnTypes
<1>8. misused' \in BOOLEAN
  BY Accounts DEF Types, QuicRecv
<1>9. CASE AtEnd(q) /\ TellEnd(n) /\ Return /\ quic' = quic
  <2>1. PICK r1 : r1 = [r EXCEPT !.told = TRUE]
    OBVIOUS
  <2>2. net' = [net EXCEPT ![n] = r1] /\ quic' = [quic EXCEPT ![n] = q]
    BY <1>5, <1>7, <1>9, <2>1 DEF TellEnd
  <2>3. Sound(r, tls[n], q) => r.fin /\ Len(Coming(r, tls[n], q)) < 1
    BY <1>6, <1>9, EmptySeq DEF Sound, Coming, AtEnd
  <2>4. Becomes(r, tls[n], q, r1, tls[n], q)
    BY <1>6, <2>1, <2>3, EndBecomes
  <2>5. Moves(n, r1, tls[n], q)
    BY <1>4, <1>5, <2>2, <2>4 DEF Moves
  <2>6. ConnRest
    BY <1>4, <2>5, ConnMoved
  <2> QED BY <1>8, <1>9, <2>6, ReturnTypes DEF QuicRecv
<1>10. CASE /\ Give(n, Front(q.ring, cap)) /\ Return
            /\ quic' = [quic EXCEPT ![n].ring = Beyond(q.ring, cap)]
  <2>1. PICK r1 : r1 = [r EXCEPT !.got = @ \o Front(q.ring, cap)]
    OBVIOUS
  <2>2. PICK q1 : q1 = [q EXCEPT !.ring = Beyond(q.ring, cap)]
    OBVIOUS
  <2>3. net' = [net EXCEPT ![n] = r1] /\ quic' = [quic EXCEPT ![n] = q1]
    BY <1>5, <1>7, <1>10, <2>1, <2>2 DEF Give, Net
  <2>4. Becomes(r, tls[n], q, r1, tls[n], q1)
    BY <1>3, <1>6, <2>1, <2>2, QuicGives
  <2>5. Moves(n, r1, tls[n], q1)
    BY <1>4, <1>5, <2>3, <2>4 DEF Moves
  <2>6. ConnRest
    BY <1>4, <2>5, ConnMoved
  <2> QED BY <1>8, <1>10, <2>6, ReturnTypes DEF QuicRecv
<1>11. CASE Goto("wait") /\ UNCHANGED <<net, quic>>
  <2>1. ConnRest
    BY <1>11, ConnStays DEF QuicRecv, connVars
  <2>2. OpTypes'
    BY <1>1, <1>11, <2>1, RecvGoes DEF QuicRecv, In
  <2>3. Types'
    BY <1>8, <2>1, <2>2, ConnStepTypes DEF QuicRecv, Types, OsTypes
  <2> QED BY <2>1, <2>3 DEF ConnRest
<1> QED BY <1>2, <1>3, <1>5, <1>9, <1>10, <1>11 DEF QuicRecv

(* The waits of a receive and of a send end.                               *)
LEMMA QuicWaitTypes ==
    ASSUME Types, QuicWait \/ QuicSent, UNCHANGED <<processVars, otherVars>>
    PROVE  Types' /\ (AllSound => AllSound')
<1>1. PICK n \in DOMAIN net : n = op.n /\ net[n].kind = "quic"
  BY OnOp DEF QuicWait, QuicSent, In
<1>2. PICK event \in {"rx", "sent"} : quic' = [quic EXCEPT ![n].signals = @ \ {event}]
  BY <1>1 DEF QuicWait, QuicSent
<1>3. PICK q : q = [quic[n] EXCEPT !.signals = @ \ {event}]
  OBVIOUS
<1>4. quic[n] \in QuicSession
  BY DEF Types, ConnTypes
<1>5. q \in QuicSession /\ q.ring = quic[n].ring /\ q.shutdown = quic[n].shutdown
  BY <1>3, <1>4 DEF QuicSession
<1>6. quic' = [quic EXCEPT ![n] = q]
  BY Zenon, <1>2, <1>3
<1>7. ConnRest
  BY <1>5, <1>6, ControlMoved DEF QuicWait, QuicSent
<1>8. misused' \in BOOLEAN
  BY Accounts DEF Types, QuicWait, QuicSent
<1>9. CASE QuicWait
  <2>1. OpTypes'
    BY <1>1, <1>7, <1>9, RecvGoes DEF QuicWait, In
  <2>2. Types'
    BY <1>7, <1>8, <1>9, <2>1, ConnStepTypes DEF QuicWait, Types, OsTypes
  <2> QED BY <1>7, <2>2 DEF ConnRest
<1>10. CASE QuicSent
  BY <1>7, <1>8, <1>10, ReturnTypes DEF QuicSent
<1> QED BY <1>9, <1>10

(* SEND begins.                                                            *)
LEMMA SendCallTypes ==
    ASSUME Types, NEW h \in Handle, QuicSendCall(h), UNCHANGED <<processVars, otherVars>>
    PROVE  Types' /\ (AllSound => AllSound')
<1>1. IsA(h, "conn")
  BY DEF QuicSendCall, IsConn
<1>2. PICK n \in DOMAIN net : n = data[h].n /\ net[n].kind = "quic"
  BY <1>1, OnConn DEF QuicSendCall, IsConn
<1>3. PICK q : q = [quic[n] EXCEPT !.signals = @ \ {"sent"}, !.sending = TRUE]
  OBVIOUS
<1>4. quic[n] \in QuicSession /\ quic \in [DOMAIN net -> QuicSession]
  BY DEF Types, ConnTypes
<1>5. q \in QuicSession /\ q.ring = quic[n].ring /\ q.shutdown = quic[n].shutdown
  BY <1>3, <1>4 DEF QuicSession
<1>6. quic' = [quic EXCEPT ![n] = q]
  BY <1>2, <1>3, <1>4 DEF QuicSendCall
<1>7. ConnRest
  BY <1>5, <1>6, ControlMoved DEF QuicSendCall
<1>8. left' \in [Kinds -> Nat] /\ misused' = misused
  BY Accounts DEF Types, QuicSendCall, Kinds
<1>9. PICK call \in {"send"}, at \in {"wait"} : Begin(call, at, h)
  BY DEF QuicSendCall
<1>10. op'.call = call /\ op'.at = at /\ OnEntry("conn")' /\ op' \in Op' /\ op'.n = data[h].n
  <2>1. op'.n = data[h].n
    BY <1>9 DEF Begin, NoOp
  <2> QED BY <1>1, <1>9, <2>1, BeginsOn DEF QuicSendCall
<1>11. net'[n].kind = "quic"
  BY <1>2 DEF QuicSendCall
<1>12. OpTypes'
  BY <1>2, <1>10, <1>11 DEF OpTypes
<1>13. Types'
  BY <1>7, <1>8, <1>12, ConnStepTypes DEF QuicSendCall, Types, OsTypes
<1> QED BY <1>7, <1>13 DEF ConnRest

(* Steps that the guest's thread does not take.                            *)
LEMMA ElsewhereTypes ==
    ASSUME Types, ConnRest, UNCHANGED <<htype, next, data, os, op, made, left>>,
           misused' \in BOOLEAN, UNCHANGED otherVars
    PROVE  Types' /\ (AllSound => AllSound')
<1>1. asked' = asked /\ frames' = frames
  BY DEF otherVars, gpuVars
<1>2. OpTypes'
  BY <1>1, OpKept DEF Types, ConnRest, OpTypes
<1>3. Types'
  BY <1>2, ConnStepTypes DEF Types, OsTypes
<1> QED BY <1>3 DEF ConnRest

(* The peer of a socket.                                                   *)
LEMMA PeerTypes ==
    ASSUME Types, NEW n \in DOMAIN net, PeerStep(n), UNCHANGED <<processVars, otherVars>>
    PROVE  Types' /\ (AllSound => AllSound')
<1>1. Suits(Sock(n), made, net)
  BY DEF Types, OsTypes, PeerStep
<1>2. net[n].kind \in {"tcp", "tls"} /\ Typed(net[n], tls[n], quic[n])
  BY <1>1, ConnTyped DEF Suits, Sock, Object
<1>3. /\ tls' = [tls EXCEPT ![n] = tls[n]] /\ quic' = [quic EXCEPT ![n] = quic[n]] /\ made' = made
      /\ net \in [DOMAIN net -> Net]
  BY DEF PeerStep, Types, ConnTypes, objectVars
<1>4. ConnRest
  <2>1. CASE net[n].sent < MaxSent /\ net' = [net EXCEPT ![n].sent = @ + 1, ![n].wire = Append(@, net[n].sent + 1)]
    <3>1. PICK r : r = [net[n] EXCEPT !.sent = @ + 1, !.wire = Append(@, net[n].sent + 1)]
      OBVIOUS
    <3>2. net' = [net EXCEPT ![n] = r]
      BY <1>3, <2>1, <3>1 DEF Net
    <3>3. Becomes(net[n], tls[n], quic[n], r, tls[n], quic[n])
      BY <1>2, <2>1, <3>1, PeerSends DEF PeerStep
    <3>4. Moves(n, r, tls[n], quic[n])
      BY <1>3, <3>2, <3>3 DEF Moves
    <3> QED BY <1>3, <3>4, ConnMoved
  <2>2. CASE net' = [net EXCEPT ![n].fin = TRUE]
    <3>1. PICK r : r = [net[n] EXCEPT !.fin = TRUE]
      OBVIOUS
    <3>2. net' = [net EXCEPT ![n] = r]
      BY <1>3, <2>2, <3>1 DEF Net
    <3>3. Becomes(net[n], tls[n], quic[n], r, tls[n], quic[n])
      BY <1>2, <3>1, PeerEnds
    <3>4. Moves(n, r, tls[n], quic[n])
      BY <1>3, <3>2, <3>3 DEF Moves
    <3> QED BY <1>3, <3>4, ConnMoved
  <2> QED BY <2>1, <2>2 DEF PeerStep
<1> QED BY <1>4, ElsewhereTypes DEF PeerStep, objectVars, Types, OsTypes

(* Callbacks of msquic that bring no bytes.                                *)
LEMMA ControlCallbackTypes ==
    ASSUME Types, NEW n \in DOMAIN net, ConnCallback(n) \/ SetRx(n) \/ StreamCallback(n),
           UNCHANGED <<processVars, otherVars>>
    PROVE  Types' /\ (AllSound => AllSound')
<1>1. quic[n] \in QuicSession
  BY DEF Types, ConnTypes
<1>2. PICK q \in QuicSession : /\ q.ring = quic[n].ring /\ q.shutdown = quic[n].shutdown
                               /\ Signal(n, q)
  <2>1. CASE SetRx(n)
    <3>1. PICK q : q = With([quic[n] EXCEPT !.cb = FALSE], "rx")
      OBVIOUS
    <3>2. q \in QuicSession /\ q.ring = quic[n].ring /\ q.shutdown = quic[n].shutdown
      BY <1>1, <3>1 DEF QuicSession, With
    <3> QED BY <2>1, <3>1, <3>2 DEF SetRx
  <2>2. CASE StreamCallback(n) /\ Signal(n, With([quic[n] EXCEPT !.strm = "up"], "ready"))
    <3>1. PICK q : q = With([quic[n] EXCEPT !.strm = "up"], "ready")
      OBVIOUS
    <3>2. q \in QuicSession /\ q.ring = quic[n].ring /\ q.shutdown = quic[n].shutdown
      BY <1>1, <3>1 DEF QuicSession, With
    <3> QED BY <2>2, <3>1, <3>2
  <2>3. CASE StreamCallback(n) /\ Signal(n, With([quic[n] EXCEPT !.sending = FALSE], "sent"))
    <3>1. PICK q : q = With([quic[n] EXCEPT !.sending = FALSE], "sent")
      OBVIOUS
    <3>2. q \in QuicSession /\ q.ring = quic[n].ring /\ q.shutdown = quic[n].shutdown
      BY <1>1, <3>1 DEF QuicSession, With
    <3> QED BY <2>3, <3>1, <3>2
  <2>4. CASE Signal(n, With([quic[n] EXCEPT !.conn = "up", !.connected = TRUE], "connected"))
    <3>1. PICK q : q = With([quic[n] EXCEPT !.conn = "up", !.connected = TRUE], "connected")
      OBVIOUS
    <3>2. q \in QuicSession /\ q.ring = quic[n].ring /\ q.shutdown = quic[n].shutdown
      BY <1>1, <3>1 DEF QuicSession, With
    <3> QED BY <2>4, <3>1, <3>2
  <2>5. CASE Signal(n, [quic[n] EXCEPT !.conn = "down", !.failed = @ \/ ~quic[n].connected,
                                       !.signals = @ \cup {"connected", "rx"}])
    <3>1. PICK b \in BOOLEAN : b = (quic[n].failed \/ ~quic[n].connected)
      BY <1>1 DEF QuicSession
    <3>2. PICK q : q = [quic[n] EXCEPT !.conn = "down", !.failed = b,
                                       !.signals = @ \cup {"connected", "rx"}]
      OBVIOUS
    <3>3. q \in QuicSession /\ q.ring = quic[n].ring /\ q.shutdown = quic[n].shutdown
      BY <1>1, <3>2 DEF QuicSession
    <3>4. Signal(n, q)
      BY Zenon, <2>5, <3>1, <3>2
    <3> QED BY <3>3, <3>4
  <2> QED BY <2>1, <2>2, <2>3, <2>4, <2>5 DEF ConnCallback, StreamCallback
<1>3. /\ quic' = [quic EXCEPT ![n] = q] /\ net' = net /\ misused' \in BOOLEAN
      /\ UNCHANGED <<htype, next, data, os, op, made, left, tls>>
  BY <1>2, Accounts DEF Signal, ConnCallback, SetRx, StreamCallback, callbackOnly, Types
<1>4. ConnRest
  BY <1>2, <1>3, ControlMoved
<1> QED BY <1>3, <1>4, ElsewhereTypes

(* Bytes, or the end, of a QUIC stream.                                    *)
LEMMA ReceiveTypes ==
    ASSUME Types, NEW n \in DOMAIN net, Receive(n) \/ StreamEnds(n),
           UNCHANGED <<processVars, otherVars>>
    PROVE  Types' /\ (AllSound => AllSound')
<1>1. Suits(Strm(n), made, net)
  BY DEF Types, OsTypes, Receive, StreamEnds
<1>2. net[n].kind = "quic" /\ Typed(net[n], tls[n], quic[n])
  BY <1>1, ConnTyped DEF Suits, Strm, Object
<1>3. /\ tls' = [tls EXCEPT ![n] = tls[n]] /\ UNCHANGED <<htype, next, data, os, op, made, left>>
      /\ net \in [DOMAIN net -> Net] /\ quic[n] \in QuicSession
  BY DEF Receive, StreamEnds, callbackOnly, Types, ConnTypes
<1>4. CASE Receive(n)
  <2>1. PICK k \in 1 .. 2 :
          /\ ~net[n].fin /\ net[n].sent + k <= MaxSent
          /\ Signal(n, [quic[n] EXCEPT !.ring = Pushed(quic[n].ring, [i \in 1 .. k |-> net[n].sent + i]),
                                       !.cb = TRUE])
          /\ net' = [net EXCEPT ![n].sent = @ + k,
                                ![n].lost = @ \/ Len(quic[n].ring) + k > RingSize]
    BY <1>4 DEF Receive
  <2>2. PICK new : new = [i \in 1 .. k |-> net[n].sent + i]
    OBVIOUS
  <2>3. PICK q1 : q1 = [quic[n] EXCEPT !.ring = Pushed(quic[n].ring, new), !.cb = TRUE]
    OBVIOUS
  <2>4. PICK r1 : r1 = [net[n] EXCEPT !.sent = @ + k, !.lost = @ \/ Len(quic[n].ring) + k > RingSize]
    OBVIOUS
  <2>5. Signal(n, q1)
    BY Zenon, <2>1, <2>2, <2>3
  <2>6. net' = [net EXCEPT ![n] = r1]
    BY Zenon, <2>1, <2>4
  <2>7. k \in Nat
    OBVIOUS
  <2>8. Becomes(net[n], tls[n], quic[n], r1, tls[n], q1)
    BY <1>2, <2>1, <2>2, <2>3, <2>4, <2>7, QuicReceives
  <2>9. Moves(n, r1, tls[n], q1)
    BY <1>3, <2>5, <2>6, <2>8 DEF Moves, Signal
  <2>10. ConnRest
    BY <1>3, <2>9, ConnMoved
  <2>11. misused' \in BOOLEAN
    BY <2>5, Accounts DEF Signal, Types
  <2> QED BY <1>3, <2>10, <2>11, ElsewhereTypes
<1>5. CASE StreamEnds(n)
  <2>1. PICK q1 \in QuicSession : q1.ring = quic[n].ring /\ Signal(n, q1)
    <3>1. CASE Signal(n, [quic[n] EXCEPT !.shutdown = TRUE, !.cb = TRUE])
      <4>1. PICK q1 : q1 = [quic[n] EXCEPT !.shutdown = TRUE, !.cb = TRUE]
        OBVIOUS
      <4>2. q1 \in QuicSession /\ q1.ring = quic[n].ring
        BY <1>3, <4>1 DEF QuicSession
      <4> QED BY <3>1, <4>1, <4>2
    <3>2. CASE Signal(n, [quic[n] EXCEPT !.shutdown = TRUE, !.cb = TRUE, !.strm = "down"])
      <4>1. PICK q1 : q1 = [quic[n] EXCEPT !.shutdown = TRUE, !.cb = TRUE, !.strm = "down"]
        OBVIOUS
      <4>2. q1 \in QuicSession /\ q1.ring = quic[n].ring
        BY <1>3, <4>1 DEF QuicSession
      <4> QED BY <3>2, <4>1, <4>2
    <3> QED BY <1>5, <3>1, <3>2 DEF StreamEnds
  <2>2. PICK r1 : r1 = [net[n] EXCEPT !.fin = TRUE]
    OBVIOUS
  <2>3. net' = [net EXCEPT ![n] = r1]
    BY <1>3, <1>5, <2>2 DEF StreamEnds, Net
  <2>4. Becomes(net[n], tls[n], quic[n], r1, tls[n], q1)
    BY <1>2, <2>1, <2>2, QuicEnds
  <2>5. Moves(n, r1, tls[n], q1)
    BY <1>3, <2>1, <2>3, <2>4 DEF Moves, Signal
  <2>6. ConnRest
    BY <1>3, <2>5, ConnMoved
  <2>7. misused' \in BOOLEAN
    BY <2>1, Accounts DEF Signal, Types
  <2> QED BY <1>3, <2>6, <2>7, ElsewhereTypes
<1> QED BY <1>4, <1>5

(* Every step of connections.                                              *)
LEMMA ConnectionStepTypes ==
    ASSUME Types, ConnectionStep, UNCHANGED <<processVars, otherVars>>
    PROVE  Types' /\ (AllSound => AllSound')
BY ConnectCallTypes, SocketTypes, EnterConnTypes, QuicConnectTypes, QuicEndTypes, CloseCallTypes,
   RecvCallTypes, TcpRecvTypes, TlsRecvTypes, QuicRecvTypes, QuicWaitTypes, SendCallTypes,
   PeerTypes, ControlCallbackTypes, ReceiveTypes
   DEF ConnectionStep, ConnectStep, RecvStep

-----------------------------------------------------------------------------
(* Windows, menus, tray icons, files.                                      *)

(* What a step of the desktop does not touch.                              *)
LEMMA DeskRest ==
    ASSUME Types, UNCHANGED <<processVars, connVars, gpuVars>>, made' \in {made, made + 1},
           \A n \in DOMAIN desk : n \in DOMAIN desk'
    PROVE  Grows /\ ProcessTypes' /\ ConnTypes' /\ GpuTypes' /\ (AllSound => AllSound')
<1>1. Grows
  BY DEF Types, OsTypes, Grows, connVars, gpuVars
<1>2. ProcessTypes' /\ ConnTypes' /\ GpuTypes'
  BY <1>1, ProcessKept, ConnKept, GpuKept DEF Types
<1>3. AllSound => AllSound'
  BY DEF AllSound, connVars
<1> QED BY <1>1, <1>2, <1>3

(* The objects of the desktop suit their creation.                         *)
LEMMA DeskObjects ==
    ASSUME NEW kind \in DeskKind, NEW k \in Nat, NEW n \in 1 .. k, NEW conns
    PROVE  \A o \in ObjectsFor(kind, n) \cup {Object("menu", n)} : Suits(o, k, conns)
BY DEF DeskKind, TokenKind, ObjectsFor, Object, Suits, What

(* An object is made, with a token if its kind has tokens.                 *)
LEMMA MakeDeskTypes ==
    ASSUME Types, NEW kind \in DeskKind, MakeDesk(kind), UNCHANGED <<processVars, connVars, gpuVars>>
    PROVE  Types' /\ (AllSound => AllSound')
<1>1. PICK n \in Nat \ {0} : n = made + 1
  BY DEF Types, OsTypes
<1>2. /\ made' = n /\ UNCHANGED <<htype, next, data, lost>> /\ Open(ObjectsFor(kind, n))
      /\ op' = [NoOp EXCEPT !.call = "make", !.at = kind, !.n = n]
      /\ IF kind \in TokenKind THEN TakeToken(kind, n) ELSE UNCHANGED <<taken, menus, desk>>
  BY <1>1 DEF MakeDesk, Create
<1>3. /\ taken \in [TokenKind -> SUBSET (Nat \ {0})] /\ menus \in [SmallToken -> 0 .. made]
      /\ \A k \in TokenKind : taken[k] \subseteq Token[k]
      /\ DOMAIN desk \subseteq 1 .. made
      /\ desk \in [DOMAIN desk -> [token : Nat, inner : 0 .. made]]
      /\ lost \subseteq {Object("menu", m) : m \in 1 .. made} /\ made \in Nat
  BY DEF Types, DeskTypes, OsTypes
<1>4. /\ Grows /\ ProcessTypes' /\ ConnTypes' /\ GpuTypes' /\ (AllSound => AllSound') /\ DeskTypes'
      /\ kind \in TokenKind => n \in DOMAIN desk'
  <2>1. CASE kind \in TokenKind
    <3>1. PICK t \in Token[kind] :
            /\ taken' = [taken EXCEPT ![kind] = @ \cup {t}]
            /\ menus' = IF kind = "menu" /\ t \in SmallToken THEN [menus EXCEPT ![t] = n] ELSE menus
            /\ desk' = Extended(desk, n, [token |-> t, inner |-> 0])
      BY <1>2, <2>1 DEF TakeToken
    <3>2. t \in Nat \ {0}
      BY <2>1, DesktopAssumption
    <3>3. /\ DOMAIN desk' = DOMAIN desk \cup {n}
          /\ \A m \in DOMAIN desk' : desk'[m] \in [token : Nat, inner : 0 .. n]
      BY <1>1, <1>3, <3>1, <3>2 DEF Extended
    <3>4. Grows /\ ProcessTypes' /\ ConnTypes' /\ GpuTypes' /\ (AllSound => AllSound')
      BY <1>1, <1>2, <3>3, DeskRest
    <3>5. taken' \in [TokenKind -> SUBSET (Nat \ {0})] /\ \A k \in TokenKind : taken'[k] \subseteq Token[k]
      BY <1>3, <2>1, <3>1, <3>2
    <3>6. menus' \in [SmallToken -> 0 .. n]
      BY <1>1, <1>3, <3>1
    <3>7. desk' \in [DOMAIN desk' -> [token : Nat, inner : 0 .. n]] /\ DOMAIN desk' \subseteq 1 .. n
      <4>1. desk' = [m \in DOMAIN desk' |-> desk'[m]]
        BY <3>1, <3>3 DEF Extended
      <4>2. DOMAIN desk' \subseteq 1 .. n
        BY <1>1, <1>3, <3>3
      <4> QED BY Zenon, <3>3, <4>1, <4>2
    <3>8. lost' \subseteq {Object("menu", m) : m \in 1 .. n}
      BY <1>1, <1>2, <1>3
    <3>9. DeskTypes'
      BY <1>2, <3>5, <3>6, <3>7, <3>8 DEF DeskTypes, SmallToken, TokenKind, Object
    <3> QED BY <3>3, <3>4, <3>9
  <2>2. CASE kind \notin TokenKind
    <3>1. Grows /\ ProcessTypes' /\ ConnTypes' /\ GpuTypes' /\ (AllSound => AllSound')
      BY <1>1, <1>2, <2>2, DeskRest
    <3>2. DeskTypes'
      BY <1>2, <2>2, <3>1, DeskKept DEF Types, deskVars
    <3> QED BY <2>2, <3>1, <3>2
  <2> QED BY <2>1, <2>2
<1>5. TableTypes'
  BY <1>2, <1>4, TableKept DEF Types
<1>6. OsTypes'
  <2>1. left' \in [Kinds -> Nat] /\ misused' \in BOOLEAN /\ os' = os \cup ObjectsFor(kind, n)
    BY <1>2, Accounts DEF MakeDesk, Types, Kinds
  <2>2. \A o \in ObjectsFor(kind, n) : Suits(o, n, net')
    BY <1>1, DeskObjects
  <2> QED BY <1>2, <1>4, <2>1, <2>2, OsStep DEF Types
<1>7. OpTypes'
  <2>1. kind \in HandleType
    BY ObjectAssumption DEF DeskKind, TokenKind
  <2>2. op' = [call |-> "make", at |-> kind, n |-> n, h |-> 0, cap |-> 0,
               mode |-> [s \in Stream |-> "inherit"]]
    BY <1>2 DEF NoOp
  <2>3. op' \in Op' /\ op'.call = "make" /\ op'.at = kind /\ op'.n = n
    BY <2>1, <2>2 DEF Op, Stream
  <2>4. n \in 1 .. made'
    BY <1>1, <1>2
  <2> QED BY <1>4, <2>3, <2>4 DEF OpTypes, DeskKind, TokenKind
<1> QED BY <1>4, <1>5, <1>6, <1>7 DEF Types

(* An object is given back, and its token.                                 *)
LEMMA GiveBackTypes ==
    ASSUME Types, NEW kind \in DeskKind, NEW n, GiveBack(kind, n), made' = made,
           UNCHANGED <<desk, lost>>, UNCHANGED <<processVars, connVars, gpuVars>>
    PROVE  /\ Grows /\ ProcessTypes' /\ ConnTypes' /\ GpuTypes' /\ (AllSound => AllSound')
           /\ DeskTypes' /\ misused' \in BOOLEAN /\ os' \subseteq os
<1>1. Grows /\ ProcessTypes' /\ ConnTypes' /\ GpuTypes' /\ (AllSound => AllSound')
  BY DeskRest
<1>2. misused' \in BOOLEAN /\ os' \subseteq os
  <2>1. PICK S : Close(S)
    BY DEF GiveBack
  <2> QED BY <2>1, Accounts DEF Types
<1>3. /\ taken \in [TokenKind -> SUBSET (Nat \ {0})] /\ menus \in [SmallToken -> 0 .. made]
      /\ \A k \in TokenKind : taken[k] \subseteq Token[k]
  BY DEF Types, DeskTypes
<1>4. 0 \in 0 .. made
  BY DEF Types, OsTypes
<1>5. /\ taken' \in [TokenKind -> SUBSET (Nat \ {0})] /\ menus' \in [SmallToken -> 0 .. made]
      /\ \A k \in TokenKind : taken'[k] \subseteq Token[k]
  <2>1. CASE kind \in TokenKind
    <3>1. taken' = [taken EXCEPT ![kind] = @ \ {desk[n].token}]
          /\ menus' = [t \in SmallToken |-> IF menus[t] = n THEN 0 ELSE menus[t]]
      BY <2>1 DEF GiveBack, GiveToken
    <3> QED BY <1>3, <1>4, <2>1, <3>1
  <2>2. CASE kind \notin TokenKind
    BY <1>3, <2>2 DEF GiveBack
  <2> QED BY <2>1, <2>2
<1>6. DeskTypes'
  BY <1>5 DEF Types, DeskTypes, SmallToken, TokenKind, Object
<1> QED BY <1>1, <1>2, <1>6

(* The object gets its entry, or is given back.                            *)
LEMMA EnterDeskTypes ==
    ASSUME Types, EnterDesk, UNCHANGED <<processVars, connVars, gpuVars>>
    PROVE  Types' /\ (AllSound => AllSound')
<1>1. /\ op.at \in DeskKind /\ op.n \in 1 .. made /\ (op.at \in TokenKind => op.n \in DOMAIN desk)
      /\ made' = made /\ left' = left /\ UNCHANGED <<desk, lost>>
  BY DEF EnterDesk, Types, OpTypes
<1>2. OpTypes'
  BY OpDone DEF EnterDesk, Return
<1>3. PICK kind \in DeskKind, n \in 1 .. made : kind = op.at /\ n = op.n
  BY <1>1
<1>4. CASE (\E h \in Handle : Entry(h, kind, [Blank EXCEPT !.n = n])) /\ UNCHANGED <<os, misused, taken, menus>>
  <2>1. Grows /\ ProcessTypes' /\ ConnTypes' /\ GpuTypes' /\ (AllSound => AllSound')
    BY <1>1, DeskRest
  <2>2. DeskTypes'
    BY <1>1, <1>4, <2>1, DeskKept DEF Types, deskVars
  <2>3. OsTypes'
    BY <1>1, <1>4, <2>1, OsStep DEF Types, OsTypes
  <2>4. PICK h \in Handle, d \in {[Blank EXCEPT !.n = n]} : Entry(h, kind, d)
    BY <1>4
  <2>5. d \in Data(made') /\ d.n = n
    BY <1>1, <2>4 DEF Blank, Data, Stream, Types, OsTypes
  <2>6. Refers(kind, d, made', net', desk', gpu')
    <3>1. kind \notin {"process", "pipe", "conn", "instance"} \cup GpuType
      BY DEF DeskKind, TokenKind, GpuType
    <3> QED BY <1>1, <1>3, <2>5, <3>1 DEF Refers
  <2>7. kind \in HandleType
    BY ObjectAssumption DEF DeskKind, TokenKind
  <2>8. TableTypes'
    BY <2>1, <2>4, <2>5, <2>6, <2>7, TableEntry DEF Types
  <2> QED BY <1>2, <2>1, <2>2, <2>3, <2>8 DEF Types
<1>5. CASE GiveBack(kind, n) /\ UNCHANGED <<htype, next, data>>
  <2>1. /\ Grows /\ ProcessTypes' /\ ConnTypes' /\ GpuTypes' /\ (AllSound => AllSound')
        /\ DeskTypes' /\ misused' \in BOOLEAN /\ os' \subseteq os
    BY <1>1, <1>5, GiveBackTypes
  <2>2. TableTypes'
    BY <1>5, <2>1, TableKept DEF Types
  <2>3. OsTypes'
    BY <1>1, <2>1, OsStep DEF Types, OsTypes
  <2> QED BY <1>2, <2>1, <2>2, <2>3 DEF Types
<1> QED BY <1>3, <1>4, <1>5 DEF EnterDesk

(* The guest destroys an object.                                           *)
LEMMA DestroyDeskTypes ==
    ASSUME Types, NEW h \in Handle, DestroyDesk(h), UNCHANGED <<processVars, connVars, gpuVars>>
    PROVE  Types' /\ (AllSound => AllSound')
<1>1. PICK kind \in DeskKind, n \in {data[h].n} : GiveBack(kind, n)
  BY DEF DestroyDesk
<1>2. /\ Grows /\ ProcessTypes' /\ ConnTypes' /\ GpuTypes' /\ (AllSound => AllSound')
      /\ DeskTypes' /\ misused' \in BOOLEAN /\ os' \subseteq os
  BY <1>1, GiveBackTypes DEF DestroyDesk
<1>3. TableTypes'
  BY <1>2, TableFreed DEF Types, DestroyDesk
<1>4. OsTypes'
  BY <1>2, OsStep DEF Types, OsTypes, DestroyDesk
<1>5. OpTypes'
  BY OpDone DEF Types, OpTypes, DestroyDesk, Idle
<1> QED BY <1>2, <1>3, <1>4, <1>5 DEF Types

(* The inner menu of a tray icon.                                          *)
LEMMA SetTrayMenuTypes ==
    ASSUME Types, NEW h \in Handle, SetTrayMenu(h), UNCHANGED <<processVars, connVars, gpuVars>>
    PROVE  Types' /\ (AllSound => AllSound')
<1>1. PICK n \in DOMAIN desk : n = data[h].n
  BY DEF Types, TableTypes, Refers, TokenKind, SetTrayMenu, IsA
<1>2. PICK k \in Nat : k = made
  BY DEF Types, OsTypes
<1>3. /\ UNCHANGED <<htype, next, data, op, taken, menus>> /\ op.call = "none" /\ made' \in {k, k + 1}
      /\ \E inner \in 0 .. made' : desk' = [desk EXCEPT ![n].inner = inner]
      /\ lost' \subseteq lost \cup {Object("menu", m) : m \in 1 .. made'}
      /\ misused' \in BOOLEAN /\ left' \in [Kinds -> Nat]
      /\ os' \subseteq os \cup {Object("menu", m) : m \in 1 .. made'}
  <2>1. CASE /\ \E old : Close(old)
             /\ desk' = [desk EXCEPT ![n].inner = 0] /\ UNCHANGED <<made, left, lost>>
    <3>1. misused' \in BOOLEAN /\ os' \subseteq os
      BY <2>1, Accounts DEF Types
    <3>2. 0 \in 0 .. made' /\ made' = k
      BY <1>2, <2>1
    <3>3. left' \in [Kinds -> Nat] /\ lost' = lost
      BY <2>1 DEF Types, OsTypes
    <3>4. \E inner \in 0 .. made' : desk' = [desk EXCEPT ![n].inner = inner]
      BY <2>1, <3>2
    <3> QED BY <3>1, <3>2, <3>3, <3>4 DEF SetTrayMenu, Idle
  <2>2. CASE /\ Spend("desk") /\ made' = k + 1
             /\ \E old : /\ os' = (os \ old) \cup {Object("menu", k + 1)}
                         /\ misused' = (misused \/ ~(old \subseteq os))
             /\ \/ desk' = [desk EXCEPT ![n].inner = k + 1] /\ UNCHANGED lost
                \/ desk' = [desk EXCEPT ![n].inner = 0] /\ lost' = lost \cup {Object("menu", k + 1)}
    <3>1. left' \in [Kinds -> Nat]
      BY <2>2, Accounts DEF Types, Kinds
    <3>2. misused' \in BOOLEAN /\ os' \subseteq os \cup {Object("menu", k + 1)}
      BY <2>2 DEF Types, OsTypes
    <3>3. k + 1 \in 1 .. made' /\ k + 1 \in 0 .. made' /\ 0 \in 0 .. made'
      BY <2>2
    <3>4. \E inner \in 0 .. made' : desk' = [desk EXCEPT ![n].inner = inner]
      BY <2>2, <3>3
    <3>5. lost' \subseteq lost \cup {Object("menu", k + 1)}
      BY <2>2
    <3> QED BY <2>2, <3>1, <3>2, <3>3, <3>4, <3>5 DEF SetTrayMenu, Idle
  <2>3. PICK old, new : /\ new = Object("menu", k + 1)
                        /\ old = IF desk[n].inner = 0 THEN {} ELSE {Object("menu", desk[n].inner)}
    OBVIOUS
  <2>4. \/ /\ Close(old) /\ desk' = [desk EXCEPT ![n].inner = 0]
           /\ UNCHANGED <<made, left, lost>>
        \/ /\ Spend("desk") /\ made' = k + 1
           /\ os' = (os \ old) \cup {new} /\ misused' = (misused \/ ~(old \subseteq os))
           /\ \/ desk' = [desk EXCEPT ![n].inner = k + 1] /\ UNCHANGED lost
              \/ desk' = [desk EXCEPT ![n].inner = 0] /\ lost' = lost \cup {new}
    BY Zenon, <1>1, <1>2, <2>3 DEF SetTrayMenu
  <2>5. CASE Close(old) /\ desk' = [desk EXCEPT ![n].inner = 0] /\ UNCHANGED <<made, left, lost>>
    BY Zenon, <2>1, <2>5
  <2>6. CASE /\ Spend("desk") /\ made' = k + 1
             /\ os' = (os \ old) \cup {new} /\ misused' = (misused \/ ~(old \subseteq os))
             /\ \/ desk' = [desk EXCEPT ![n].inner = k + 1] /\ UNCHANGED lost
                \/ desk' = [desk EXCEPT ![n].inner = 0] /\ lost' = lost \cup {new}
    BY Zenon, <2>2, <2>3, <2>6
  <2> QED BY <2>4, <2>5, <2>6
<1>4. PICK inner \in 0 .. made' : desk' = [desk EXCEPT ![n].inner = inner]
  BY <1>3
<1>5. desk \in [DOMAIN desk -> [token : Nat, inner : 0 .. k]] /\ DOMAIN desk \subseteq 1 .. k
  BY <1>2 DEF Types, DeskTypes
<1>6. 0 .. k \subseteq 0 .. made' /\ 1 .. k \subseteq 1 .. made' /\ made' \in Nat
  BY <1>3
<1>7. Grows /\ ProcessTypes' /\ ConnTypes' /\ GpuTypes' /\ (AllSound => AllSound')
  BY <1>2, <1>3, <1>4, DeskRest
<1>8. DeskTypes'
  <2>1. DOMAIN desk' = DOMAIN desk /\ desk' \in [DOMAIN desk' -> [token : Nat, inner : 0 .. made']]
    BY <1>4, <1>5, <1>6
  <2>2. lost' \subseteq {Object("menu", m) : m \in 1 .. made'}
    BY <1>2, <1>3, <1>6 DEF Types, DeskTypes
  <2>3. menus' \in [SmallToken -> 0 .. made']
    BY <1>2, <1>3, <1>6 DEF Types, DeskTypes
  <2>4. DOMAIN desk' \subseteq 1 .. made'
    BY <1>5, <1>6, <2>1
  <2> QED BY <1>3, <2>1, <2>2, <2>3, <2>4 DEF Types, DeskTypes, SmallToken, TokenKind, Object
<1>9. TableTypes'
  BY <1>3, <1>7, TableKept DEF Types
<1>10. OsTypes'
  <2>1. \A m \in 1 .. made' : Suits(Object("menu", m), made', net')
    BY DEF Suits, Object, What
  <2> QED BY <1>3, <1>7, <2>1, OsStep DEF Types
<1>11. OpTypes'
  BY <1>3, OpDone DEF Types, OpTypes
<1> QED BY <1>7, <1>8, <1>9, <1>10, <1>11 DEF Types

(* Every step of the desktop.                                              *)
LEMMA DesktopStepTypes ==
    ASSUME Types, DesktopStep, UNCHANGED <<processVars, connVars, gpuVars>>
    PROVE  Types' /\ (AllSound => AllSound')
BY MakeDeskTypes, EnterDeskTypes, DestroyDeskTypes, SetTrayMenuTypes DEF DesktopStep

-----------------------------------------------------------------------------
(* WebGPU objects and requests.                                            *)

(* What a step of the bridge does not touch.                               *)
LEMMA GpuRest ==
    ASSUME Types, UNCHANGED <<processVars, connVars, deskVars>>, made' \in {made, made + 1},
           \A n \in DOMAIN gpu : n \in DOMAIN gpu' /\ gpu'[n] = gpu[n]
    PROVE  Grows /\ ProcessTypes' /\ ConnTypes' /\ DeskTypes' /\ (AllSound => AllSound')
<1>1. Grows
  BY DEF Types, OsTypes, Grows, connVars, deskVars
<1>2. ProcessTypes' /\ ConnTypes' /\ DeskTypes'
  BY <1>1, ProcessKept, ConnKept, DeskKept DEF Types
<1>3. AllSound => AllSound'
  BY DEF AllSound, connVars
<1> QED BY <1>1, <1>2, <1>3

(* An object comes into being.                                             *)
LEMMA NewGpu ==
    ASSUME Types, NEW n, n = made + 1, made' = n, NEW x,
           gpu' = Extended(gpu, n, x), x \in [inst : Nat, addr : Address \cup {"none"}],
           UNCHANGED <<processVars, connVars, deskVars>>
    PROVE  /\ Grows /\ ProcessTypes' /\ ConnTypes' /\ DeskTypes' /\ (AllSound => AllSound')
           /\ DOMAIN gpu' = DOMAIN gpu \cup {n} /\ gpu'[n] = x /\ DOMAIN gpu' \subseteq 1 .. made'
           /\ gpu' \in [DOMAIN gpu' -> [inst : Nat, addr : Address \cup {"none"}]]
<1>1. DOMAIN gpu \subseteq 1 .. made /\ made \in Nat
      /\ gpu \in [DOMAIN gpu -> [inst : Nat, addr : Address \cup {"none"}]]
  BY DEF Types, OsTypes, GpuTypes
<1>2. n \notin DOMAIN gpu /\ 1 .. made \subseteq 1 .. n /\ n \in 1 .. n
  BY <1>1
<1>3. /\ DOMAIN gpu' = DOMAIN gpu \cup {n} /\ gpu'[n] = x
      /\ \A m \in DOMAIN gpu : m \in DOMAIN gpu' /\ gpu'[m] = gpu[m]
  BY <1>2 DEF Extended
<1>4. gpu' \in [DOMAIN gpu' -> [inst : Nat, addr : Address \cup {"none"}]]
  <2>1. gpu' = [m \in DOMAIN gpu' |-> gpu'[m]]
    BY <1>3 DEF Extended
  <2>2. \A m \in DOMAIN gpu' : gpu'[m] \in [inst : Nat, addr : Address \cup {"none"}]
    BY <1>1, <1>3
  <2> QED BY Zenon, <2>1, <2>2
<1>5. Grows /\ ProcessTypes' /\ ConnTypes' /\ DeskTypes' /\ (AllSound => AllSound')
  BY <1>3, GpuRest
<1>6. DOMAIN gpu' \subseteq 1 .. made'
  BY <1>1, <1>2, <1>3
<1> QED BY <1>3, <1>4, <1>5, <1>6

(* The parts of GpuTypes.                                                  *)
LEMMA GpuParts ==
    /\ GpuTypes <=> /\ DOMAIN gpu \subseteq 1 .. made
                    /\ gpu \in [DOMAIN gpu -> [inst : Nat, addr : Address \cup {"none"}]]
                    /\ leaked \subseteq {Native(n) : n \in 1 .. made} /\ Asking
    /\ GpuTypes' <=> /\ DOMAIN gpu' \subseteq 1 .. made'
                     /\ gpu' \in [DOMAIN gpu' -> [inst : Nat, addr : Address \cup {"none"}]]
                     /\ leaked' \subseteq {Native(n) : n \in 1 .. made'} /\ Asking'
BY DEF GpuTypes, Native, Object

(* Nothing was asked, nothing answered.                                    *)
LEMMA AskingKept ==
    ASSUME Asking, UNCHANGED <<states, asked, frames, tangled>> PROVE Asking'
BY DEF Asking, List, Place, Request, At

(* CREATE INSTANCE and the creations from a parent.                        *)
LEMMA CreateGpuTypes ==
    ASSUME Types, (\E addr \in Address : CreateInstance(addr)) \/ (\E h \in Handle : CreateChild(h)),
           UNCHANGED <<processVars, connVars, deskVars>>
    PROVE  Types' /\ (AllSound => AllSound')
<1>1. PICK n \in Nat \ {0} : n = made + 1
  BY DEF Types, OsTypes
<1>2. PICK x \in [inst : Nat, addr : Address \cup {"none"}], at \in GpuType, parent \in Handle \cup {0} :
        /\ gpu' = Extended(gpu, n, x) /\ made' = n /\ Open({Native(n)}) /\ Spend("gpu")
        /\ UNCHANGED <<htype, next, data, states, asked, frames, tangled, leaked>>
        /\ op' = [call |-> "gpu", at |-> at, n |-> n, h |-> parent, cap |-> 0,
                  mode |-> [s \in Stream |-> "inherit"]]
        /\ at = "instance" => x.addr \in Address
  <2>1. CASE \E addr \in Address : CreateInstance(addr)
    <3>1. PICK addr \in Address : CreateInstance(addr)
      BY <2>1
    <3>2. op' = [call |-> "gpu", at |-> "instance", n |-> n, h |-> 0, cap |-> 0,
                 mode |-> [s \in Stream |-> "inherit"]]
      BY <1>1, <3>1 DEF CreateInstance, Create, NoOp
    <3>3. PICK x : x = [inst |-> n, addr |-> addr]
      OBVIOUS
    <3>4. x \in [inst : Nat, addr : Address \cup {"none"}] /\ x.addr \in Address
      BY <1>1, <3>3
    <3>5. gpu' = Extended(gpu, n, x) /\ made' = n /\ Open({Native(n)}) /\ Spend("gpu")
          /\ UNCHANGED <<htype, next, data, states, asked, frames, tangled, leaked>>
      BY Zenon, <1>1, <3>1, <3>3 DEF CreateInstance, Create
    <3> QED BY <3>2, <3>4, <3>5 DEF GpuType
  <2>2. CASE \E h \in Handle : CreateChild(h)
    <3>1. PICK parent \in Handle, type \in GpuType, at \in GpuType : at # "instance" /\ CreateFrom(parent, type, at)
      BY <2>2 DEF CreateChild, CreateSurface, GetCurrentTexture, CreateView, GetQueue,
         CreateShaderModule, CreateRenderPipeline, CreateBuffer, CreateSampler,
         CreateBindGroupLayout, CreateBindGroup, CreatePipelineLayout, CreateTexture,
         CreateCommandEncoder, BeginRenderPass, Finish, GpuType
    <3>2. op' = [call |-> "gpu", at |-> at, n |-> n, h |-> parent, cap |-> 0,
                 mode |-> [s \in Stream |-> "inherit"]]
      BY <1>1, <3>1 DEF CreateFrom, NoOp
    <3>3. PICK x : x = [inst |-> InstanceOf(parent), addr |-> "none"]
      OBVIOUS
    <3>4. x \in [inst : Nat, addr : Address \cup {"none"}]
      <4>1. data[parent].n \in DOMAIN gpu
        BY <3>1 DEF Types, TableTypes, Refers, CreateFrom, IsA
      <4> QED BY <3>3, <4>1 DEF Types, GpuTypes, InstanceOf
    <3>5. gpu' = Extended(gpu, n, x) /\ made' = n /\ Open({Native(n)}) /\ Spend("gpu")
          /\ UNCHANGED <<htype, next, data, states, asked, frames, tangled, leaked>>
      BY Zenon, <1>1, <3>1, <3>3 DEF CreateFrom
    <3> QED BY <3>1, <3>2, <3>4, <3>5
  <2> QED BY <2>1, <2>2
<1>3. /\ Grows /\ ProcessTypes' /\ ConnTypes' /\ DeskTypes' /\ (AllSound => AllSound')
      /\ DOMAIN gpu' = DOMAIN gpu \cup {n} /\ gpu'[n] = x /\ DOMAIN gpu' \subseteq 1 .. made'
      /\ gpu' \in [DOMAIN gpu' -> [inst : Nat, addr : Address \cup {"none"}]]
  BY <1>1, <1>2, NewGpu
<1>4. GpuTypes'
  <2>1. Asking'
    BY <1>2, AskingKept, GpuParts DEF Types
  <2>2. leaked' \subseteq {Native(m) : m \in 1 .. made'}
    BY <1>1, <1>2 DEF Types, GpuTypes, OsTypes
  <2> QED BY <1>3, <2>1, <2>2, GpuParts
<1>5. TableTypes'
  BY <1>2, <1>3, TableKept DEF Types
<1>6. OsTypes'
  <2>1. left' \in [Kinds -> Nat] /\ misused' \in BOOLEAN /\ os' = os \cup {Native(n)}
    BY <1>2, Accounts DEF Types, Kinds
  <2>2. Suits(Native(n), made', net')
    BY <1>1, <1>2 DEF Suits, Native, Object, What
  <2> QED BY <1>3, <2>1, <2>2, OsStep DEF Types
<1>7. OpTypes'
  <2>1. at \in HandleType
    BY ObjectAssumption DEF GpuType
  <2>2. op' \in Op' /\ op'.call = "gpu" /\ op'.at = at /\ op'.n = n
    BY <1>2, <2>1 DEF Op, Stream, Handle
  <2> QED BY <1>2, <1>3, <2>2 DEF OpTypes, GpuType
<1> QED BY <1>3, <1>4, <1>5, <1>6, <1>7 DEF Types

(* The state of an instance is found or made.                              *)
LEMMA ReserveTypes ==
    ASSUME Asking, NEW addr \in Address, Reserve(addr), UNCHANGED <<asked, frames, tangled>>
    PROVE  Asking'
<1>1. CASE states' = states
  BY <1>1, AskingKept
<1>2. CASE states' = Append(states, [addr |-> addr, pend |-> <<>>])
  <2>1. PICK new : new = [addr |-> addr, pend |-> <<>>]
    OBVIOUS
  <2>2. new \in List /\ new.pend = <<>> /\ Len(new.pend) = 0 /\ DOMAIN new.pend = {}
    BY <2>1, EmptySeq DEF List
  <2>3. states \in Seq(List) /\ Len(states) \in Nat
    BY LenProperties DEF Asking
  <2>4. /\ states' \in Seq(List) /\ DOMAIN states' = DOMAIN states \cup {Len(states) + 1}
        /\ states'[Len(states) + 1] = new /\ \A s \in DOMAIN states : states'[s] = states[s]
    BY <1>2, <2>1, <2>2, <2>3, AppendProperties, LenProperties
  <2>5. MaxPending \in Nat
    BY GpuAssumption
  <2>6. ASSUME NEW s \in DOMAIN states'
        PROVE  /\ Len(states'[s].pend) <= MaxPending
               /\ \A i \in DOMAIN states'[s].pend : states'[s].pend[i].req \in DOMAIN asked'
    <3>1. CASE s \in DOMAIN states
      BY <2>4, <3>1 DEF Asking
    <3>2. CASE s = Len(states) + 1
      BY <2>2, <2>4, <2>5, <3>2
    <3> QED BY <2>4, <3>1, <3>2
  <2>7. \A s, i : At(s, i, states) => At(s, i, states')
    BY <2>4 DEF At
  <2> QED BY <2>4, <2>6, <2>7 DEF Asking, List, Place, Request
<1> QED BY <1>1, <1>2 DEF Reserve

(* A step that makes no object of WebGPU.                                  *)
LEMMA GpuStay ==
    ASSUME Types, UNCHANGED <<processVars, connVars, deskVars>>, UNCHANGED <<made, gpu>>
    PROVE  Grows /\ ProcessTypes' /\ ConnTypes' /\ DeskTypes' /\ (AllSound => AllSound')
BY GpuRest

(* An object gets its entry, or is released.                               *)
LEMMA EnterGpuTypes ==
    ASSUME Types, EnterGpu, UNCHANGED <<processVars, connVars, deskVars>>
    PROVE  Types' /\ (AllSound => AllSound')
<1>1. /\ op.at \in GpuType /\ op.n \in DOMAIN gpu /\ made' = made /\ left' = left /\ gpu' = gpu
      /\ UNCHANGED <<asked, frames, tangled>>
      /\ op.at = "instance" => gpu[op.n].addr \in Address
  BY DEF EnterGpu, Types, OpTypes
<1>2. PICK at \in GpuType, n \in DOMAIN gpu : at = op.at /\ n = op.n
  BY <1>1
<1>3. Grows /\ ProcessTypes' /\ ConnTypes' /\ DeskTypes' /\ (AllSound => AllSound')
  BY <1>1, GpuStay
<1>4. OpTypes'
  BY OpDone DEF EnterGpu, Return
<1>5. Asking /\ DOMAIN gpu \subseteq 1 .. made /\ made \in Nat
  BY DEF Types, GpuTypes, OsTypes
<1>6. CASE /\ \E h \in Handle : Entry(h, at, [Blank EXCEPT !.n = n])
           /\ IF at = "instance" THEN Reserve(gpu[n].addr) ELSE UNCHANGED states
           /\ UNCHANGED <<os, misused, leaked>>
  <2>1. PICK h \in Handle, d \in {[Blank EXCEPT !.n = n]} : Entry(h, at, d)
    BY <1>6
  <2>2. d \in Data(made') /\ d.n = n
    BY <1>1, <1>5, <2>1 DEF Blank, Data, Stream
  <2>3. Refers(at, d, made', net', desk', gpu')
    <3>1. at \notin {"process", "pipe", "conn"} \cup DeskKind \cup TokenKind
      BY DEF DeskKind, TokenKind, GpuType
    <3> QED BY <1>1, <1>2, <2>2, <3>1 DEF Refers
  <2>4. at \in HandleType
    BY ObjectAssumption DEF GpuType
  <2>5. TableTypes'
    BY <1>3, <2>1, <2>2, <2>3, <2>4, TableEntry DEF Types
  <2>6. OsTypes'
    BY <1>1, <1>3, <1>6, OsStep DEF Types, OsTypes
  <2>7. Asking'
    BY <1>1, <1>2, <1>5, <1>6, AskingKept, ReserveTypes
  <2>8. GpuTypes'
    BY <1>1, <1>6, <2>7 DEF Types, GpuTypes, Native, Object
  <2> QED BY <1>3, <1>4, <2>5, <2>6, <2>8 DEF Types
<1>7. CASE /\ UNCHANGED <<htype, next, data, states>>
           /\ \/ leaked' = leaked \cup {Native(n)} /\ UNCHANGED <<os, misused>>
              \/ Close({Native(n)}) /\ UNCHANGED leaked
  <2>1. misused' \in BOOLEAN /\ os' \subseteq os
    BY <1>7, Accounts DEF Types, OsTypes
  <2>2. OsTypes'
    BY <1>1, <1>3, <2>1, OsStep DEF Types, OsTypes
  <2>3. Asking'
    BY <1>1, <1>5, <1>7, AskingKept
  <2>4. leaked' \subseteq {Native(m) : m \in 1 .. made'}
    BY <1>1, <1>5, <1>7 DEF Types, GpuTypes
  <2>5. GpuTypes'
    BY <1>1, <2>3, <2>4, GpuParts DEF Types
  <2>6. TableTypes'
    BY <1>3, <1>7, TableKept DEF Types
  <2> QED BY <1>3, <1>4, <2>2, <2>5, <2>6 DEF Types
<1> QED BY <1>2, <1>6, <1>7 DEF EnterGpu

(* An object is used or released, a request has returned, processEvents    *)
(* begins.                                                                 *)
LEMMA UseGpuTypes ==
    ASSUME Types,
           \/ \E h \in Handle : UseGpu(h) \/ ReleaseGpu(h) \/ ProcessEvents(h)
           \/ RequestReturns,
           UNCHANGED <<processVars, connVars, deskVars>>
    PROVE  Types' /\ (AllSound => AllSound')
<1>1. UNCHANGED gpuVars /\ made' = made
  BY DEF UseGpu, ReleaseGpu, ProcessEvents, RequestReturns
<1>2. Grows /\ ProcessTypes' /\ ConnTypes' /\ DeskTypes' /\ (AllSound => AllSound')
  BY <1>1, GpuStay DEF gpuVars
<1>3. GpuTypes'
  BY <1>1, <1>2, GpuKept DEF Types
<1>4. TableTypes'
  BY <1>2, TableKept, TableFreed DEF Types, UseGpu, ReleaseGpu, ProcessEvents, RequestReturns
<1>5. misused' \in BOOLEAN /\ os' \subseteq os /\ left' \in [Kinds -> Nat]
  BY Accounts DEF Types, OsTypes, Kinds, UseGpu, ReleaseGpu, ProcessEvents, RequestReturns
<1>6. OsTypes'
  BY <1>2, <1>5, OsStep DEF Types
<1>7. OpTypes'
  <2>1. CASE RequestReturns
    BY <2>1, OpDone DEF RequestReturns, Return
  <2>2. CASE \E h \in Handle : UseGpu(h) \/ ReleaseGpu(h)
    BY <2>2, OpDone DEF Types, OpTypes, UseGpu, ReleaseGpu, Idle
  <2>3. ASSUME NEW h \in Handle, ProcessEvents(h) PROVE OpTypes'
    <3>1. PICK n \in Nat : n = data[h].n
      BY DEF Types, TableTypes, Data, OsTypes
    <3>2. op' = [call |-> "process", at |-> "native", n |-> n, h |-> 0, cap |-> 0,
                 mode |-> [s \in Stream |-> "inherit"]]
      BY <2>3, <3>1 DEF ProcessEvents, NoOp
    <3>3. op' \in Op' /\ op'.call = "process" /\ op'.at = "native"
      BY <3>2 DEF Op, Stream
    <3>4. Len(frames') < MaxDepth
      BY <1>1, <2>3 DEF ProcessEvents, gpuVars
    <3> QED BY <3>3, <3>4 DEF OpTypes
  <2> QED BY <2>1, <2>2, <2>3
<1> QED BY <1>2, <1>3, <1>4, <1>6, <1>7 DEF Types

(* A callback's frame.                                                     *)
Frame == [s : Nat, i : Nat]

(* One list changes, and what is asked of wgpu-native.                     *)
LEMMA ListStep ==
    ASSUME Asking, NEW s \in DOMAIN states, NEW l \in List, states' = [states EXCEPT ![s] = l],
           DOMAIN states[s].pend \subseteq DOMAIN l.pend, Len(l.pend) <= MaxPending,
           \A i \in DOMAIN l.pend : l.pend[i].req \in DOMAIN asked',
           DOMAIN asked \subseteq DOMAIN asked', asked' \in Seq(Request),
           \A r \in DOMAIN asked' : At(asked'[r].s, asked'[r].i, states'),
           frames' \in Seq(Frame), Len(frames') <= MaxDepth,
           \A k \in DOMAIN frames' : At(frames'[k].s, frames'[k].i, states'),
           tangled' \subseteq DOMAIN asked'
    PROVE  Asking'
<1>1. states \in Seq(List) /\ states' \in Seq(List) /\ DOMAIN states' = DOMAIN states
  BY DEF Asking
<1>2. states'[s] = l /\ \A m \in DOMAIN states : m # s => states'[m] = states[m]
  BY <1>1
<1>3. ASSUME NEW m \in DOMAIN states'
      PROVE  /\ Len(states'[m].pend) <= MaxPending
             /\ \A i \in DOMAIN states'[m].pend : states'[m].pend[i].req \in DOMAIN asked'
  <2>1. CASE m = s
    BY <1>2, <2>1
  <2>2. CASE m # s
    <3>1. states'[m] = states[m] /\ m \in DOMAIN states
      BY <1>1, <1>2, <2>2
    <3> QED BY <3>1 DEF Asking
  <2> QED BY <2>1, <2>2
<1> QED BY <1>1, <1>3 DEF Asking, Frame, List, Place, Request

(* What was a place stays one.                                             *)
LEMMA StillAt ==
    ASSUME Asking, NEW s \in DOMAIN states, NEW l, states' = [states EXCEPT ![s] = l],
           DOMAIN states[s].pend \subseteq DOMAIN l.pend
    PROVE  \A m, i : At(m, i, states) => At(m, i, states')
<1>1. states \in Seq(List) /\ DOMAIN states' = DOMAIN states /\ states'[s] = l
      /\ \A m \in DOMAIN states : m # s => states'[m] = states[m]
  BY DEF Asking
<1> QED BY <1>1 DEF At

(* The loop over a list, from place i on.                                  *)
LEMMA DispatchTypes ==
    ASSUME asked \in Seq(Request), NEW s \in Nat, NEW i \in Nat \ {0}, NEW pend \in Seq(Place),
           \A j \in DOMAIN pend : pend[j].req \in DOMAIN asked,
           NEW below \in Seq(Frame), Len(below) < MaxDepth, tangled \subseteq DOMAIN asked,
           Dispatch(s, i, pend, below)
    PROVE  /\ frames' \in Seq(Frame) /\ Len(frames') <= MaxDepth
           /\ \A k \in DOMAIN frames' : \/ k \in DOMAIN below /\ frames'[k] = below[k]
                                        \/ frames'[k].s = s /\ frames'[k].i \in DOMAIN pend
           /\ asked' \in Seq(Request) /\ DOMAIN asked' = DOMAIN asked
           /\ \A r \in DOMAIN asked : asked'[r].s = asked[r].s /\ asked'[r].i = asked[r].i
           /\ tangled' \subseteq DOMAIN asked
<1>1. PICK due : due = {j \in i .. Len(pend) : pend[j].done /\ pend[j].kind # "none"}
  OBVIOUS
<1>2. Len(pend) \in Nat /\ DOMAIN pend = 1 .. Len(pend) /\ Len(below) \in Nat /\ MaxDepth \in Nat
      /\ DOMAIN below = 1 .. Len(below)
  BY LenProperties, GpuAssumption
<1>3. due \subseteq DOMAIN pend
  BY <1>1, <1>2
<1>4. CASE frames' = below /\ UNCHANGED <<asked, tangled>>
  BY <1>2, <1>4
<1>5. ASSUME NEW j \in due, NEW r, r = pend[j].req, frames' = Append(below, [s |-> s, i |-> j]),
             asked' = [asked EXCEPT ![r].told = @ + 1],
             tangled' = tangled \/ tangled' = tangled \cup {r}
      PROVE  /\ frames' \in Seq(Frame) /\ Len(frames') <= MaxDepth
             /\ \A k \in DOMAIN frames' : \/ k \in DOMAIN below /\ frames'[k] = below[k]
                                          \/ frames'[k].s = s /\ frames'[k].i \in DOMAIN pend
             /\ asked' \in Seq(Request) /\ DOMAIN asked' = DOMAIN asked
             /\ \A m \in DOMAIN asked : asked'[m].s = asked[m].s /\ asked'[m].i = asked[m].i
             /\ tangled' \subseteq DOMAIN asked
  <2>1. r \in DOMAIN asked /\ j \in DOMAIN pend /\ j \in Nat
    BY <1>2, <1>3, <1>5
  <2>2. PICK top \in Frame : top = [s |-> s, i |-> j]
    BY <2>1 DEF Frame
  <2>3. /\ frames' \in Seq(Frame) /\ Len(frames') = Len(below) + 1 /\ frames'[Len(below) + 1] = top
        /\ DOMAIN frames' = 1 .. Len(below) + 1 /\ \A k \in 1 .. Len(below) : frames'[k] = below[k]
    BY <1>5, <2>2, AppendProperties, LenProperties
  <2>4. Len(frames') <= MaxDepth
    BY <1>2, <2>3
  <2>5. top.s = s /\ top.i = j
    BY <2>2
  <2>6. ASSUME NEW k \in DOMAIN frames'
        PROVE  \/ k \in DOMAIN below /\ frames'[k] = below[k]
               \/ frames'[k].s = s /\ frames'[k].i \in DOMAIN pend
    BY <1>2, <2>1, <2>3, <2>5
  <2>7. PICK a \in Request : a = [asked[r] EXCEPT !.told = @ + 1]
    <3>1. asked[r] \in Request
      BY <2>1
    <3>2. PICK told \in Nat : told = asked[r].told + 1
      BY <3>1 DEF Request
    <3>3. [asked[r] EXCEPT !.told = told] \in Request
      BY <3>1 DEF Request
    <3>4. [asked[r] EXCEPT !.told = @ + 1] = [asked[r] EXCEPT !.told = told]
      BY <3>2
    <3> QED BY <3>3, <3>4
  <2>8. asked' = [asked EXCEPT ![r] = a] /\ a.s = asked[r].s /\ a.i = asked[r].i
    BY <1>5, <2>1, <2>7 DEF Request
  <2>9. asked' \in Seq(Request) /\ DOMAIN asked' = DOMAIN asked
        /\ \A m \in DOMAIN asked : asked'[m].s = asked[m].s /\ asked'[m].i = asked[m].i
    BY <2>1, <2>8
  <2>10. tangled' \subseteq DOMAIN asked
    BY <1>5, <2>1
  <2> QED BY <2>3, <2>4, <2>6, <2>9, <2>10
<1>6. \/ frames' = below /\ UNCHANGED <<asked, tangled>>
      \/ \E j \in due : /\ frames' = Append(below, [s |-> s, i |-> j])
                        /\ asked' = [asked EXCEPT ![pend[j].req].told = @ + 1]
                        /\ (tangled' = tangled \/ tangled' = tangled \cup {pend[j].req})
  BY <1>1 DEF Dispatch
<1> QED BY <1>4, <1>5, <1>6

(* processEvents runs the guest's callbacks.                               *)
LEMMA NativeDoneTypes ==
    ASSUME Types, NativeDone, UNCHANGED <<processVars, connVars, deskVars>>
    PROVE  Types' /\ (AllSound => AllSound')
<1>1. UNCHANGED <<htype, next, data, os, misused, made, left, states, gpu, leaked>> /\ op' = NoOp
  BY DEF NativeDone, Return
<1>2. Grows /\ ProcessTypes' /\ ConnTypes' /\ DeskTypes' /\ (AllSound => AllSound')
  BY <1>1, GpuStay
<1>3. Asking /\ Len(frames) < MaxDepth
  BY DEF NativeDone, In, Types, OpTypes, GpuTypes
<1>4. PICK s \in DOMAIN states : Dispatch(s, 1, states[s].pend, frames)
  BY DEF NativeDone, StateOf
<1>5. PICK one \in Nat \ {0} : one = 1
  OBVIOUS
<1>6. PICK l \in List : l = states[s] /\ Len(l.pend) <= MaxPending
                        /\ \A j \in DOMAIN l.pend : l.pend[j].req \in DOMAIN asked
  BY <1>3 DEF Asking
<1>7. s \in Nat /\ l.pend \in Seq(Place) /\ states' = [states EXCEPT ![s] = l]
  BY <1>1, <1>3, <1>6, LenProperties DEF Asking, List
<1>8. asked \in Seq(Request) /\ frames \in Seq(Frame) /\ tangled \subseteq DOMAIN asked
  BY <1>3 DEF Asking, Frame
<1>9. Dispatch(s, one, l.pend, frames)
  BY <1>4, <1>5, <1>6
<1>10. /\ frames' \in Seq(Frame) /\ Len(frames') <= MaxDepth
       /\ \A k \in DOMAIN frames' : \/ k \in DOMAIN frames /\ frames'[k] = frames[k]
                                    \/ frames'[k].s = s /\ frames'[k].i \in DOMAIN l.pend
       /\ asked' \in Seq(Request) /\ DOMAIN asked' = DOMAIN asked
       /\ \A r \in DOMAIN asked : asked'[r].s = asked[r].s /\ asked'[r].i = asked[r].i
       /\ tangled' \subseteq DOMAIN asked
  BY <1>3, <1>6, <1>7, <1>8, <1>9, DispatchTypes
<1>11. \A r \in DOMAIN asked' : At(asked'[r].s, asked'[r].i, states')
  BY <1>1, <1>3, <1>10 DEF Asking
<1>12. \A k \in DOMAIN frames' : At(frames'[k].s, frames'[k].i, states')
  BY <1>1, <1>3, <1>6, <1>10 DEF Asking, At
<1>13. Asking'
  BY <1>3, <1>6, <1>7, <1>10, <1>11, <1>12, ListStep
<1>14. GpuTypes'
  BY <1>1, <1>13, GpuParts DEF Types
<1>15. TableTypes' /\ OsTypes' /\ OpTypes'
  BY <1>1, <1>2, TableKept, OsStep, OpDone DEF Types, OsTypes
<1> QED BY <1>2, <1>14, <1>15 DEF Types

(* The guest's callback returns: its place is cleared, the loop goes on.   *)
LEMMA CallbackReturnsTypes ==
    ASSUME Types, CallbackReturns, UNCHANGED <<processVars, connVars, deskVars>>
    PROVE  Types' /\ (AllSound => AllSound')
<1>1. UNCHANGED <<htype, next, data, os, misused, op, made, left, gpu, leaked>> /\ op.call = "none"
  BY DEF CallbackReturns, Idle
<1>2. Grows /\ ProcessTypes' /\ ConnTypes' /\ DeskTypes' /\ (AllSound => AllSound')
  BY <1>1, GpuStay
<1>3. Asking /\ frames \in Seq(Frame) /\ frames # <<>>
  BY DEF CallbackReturns, Types, GpuTypes, Asking, Frame
<1>4. PICK len \in Nat : len = Len(frames) /\ len > 0 /\ len <= MaxDepth /\ len \in DOMAIN frames
  BY <1>3, EmptySeq, LenProperties DEF Asking
<1>5. PICK s, i : frames[len].s = s /\ frames[len].i = i
  OBVIOUS
<1>6. s \in DOMAIN states /\ i \in DOMAIN states[s].pend /\ s \in Nat /\ i \in Nat
  BY <1>3, <1>4, <1>5 DEF Asking, At, Frame
<1>7. PICK pend : pend = [states[s].pend EXCEPT ![i].kind = "none", ![i].done = FALSE]
  OBVIOUS
<1>8. PICK below : below = SubSeq(frames, 1, len - 1)
  OBVIOUS
<1>9. states' = [states EXCEPT ![s].pend = pend] /\ Dispatch(s, i + 1, pend, below)
  BY Zenon, <1>4, <1>5, <1>7, <1>8 DEF CallbackReturns
<1>10. states[s] \in List /\ states[s].pend \in Seq(Place) /\ Len(states[s].pend) <= MaxPending
       /\ \A j \in DOMAIN states[s].pend : states[s].pend[j].req \in DOMAIN asked
  <2>1. states[s] \in List
    BY <1>3, <1>6 DEF Asking
  <2> QED BY <1>3, <1>6, <2>1 DEF Asking, List
<1>11. /\ pend \in Seq(Place) /\ DOMAIN pend = DOMAIN states[s].pend /\ Len(pend) = Len(states[s].pend)
       /\ \A j \in DOMAIN pend : pend[j].req = states[s].pend[j].req
  <2>1. PICK p \in Place : p = [states[s].pend[i] EXCEPT !.kind = "none", !.done = FALSE]
    <3>1. states[s].pend[i] \in Place
      BY <1>6, <1>10
    <3> QED BY <3>1 DEF Place
  <2>2. pend = [states[s].pend EXCEPT ![i] = p] /\ p.req = states[s].pend[i].req
    BY <1>6, <1>7, <1>10, <2>1 DEF Place
  <2> QED BY <1>6, <1>10, <2>2, LenProperties
<1>12. PICK l \in List : l = [states[s] EXCEPT !.pend = pend] /\ l.pend = pend
  <2>1. PICK l : l = [states[s] EXCEPT !.pend = pend]
    OBVIOUS
  <2>2. states[s] \in List /\ pend \in Seq(Place)
    BY <1>10, <1>11
  <2>3. l \in List /\ l.pend = pend
    BY <2>1, <2>2 DEF List
  <2> QED BY <2>1, <2>3
<1>13. states' = [states EXCEPT ![s] = l]
  BY <1>9, <1>12
<1>14. /\ below \in Seq(Frame) /\ Len(below) = len - 1 /\ Len(below) < MaxDepth
       /\ DOMAIN below \subseteq DOMAIN frames /\ \A k \in DOMAIN below : below[k] = frames[k]
  <2>1. len - 1 \in 0 .. Len(frames)
    BY <1>4
  <2>2. PICK m \in 0 .. Len(frames) : m = len - 1
    BY <2>1
  <2>3. /\ SubSeq(frames, 1, m) \in Seq(Frame) /\ Len(SubSeq(frames, 1, m)) = m
        /\ \A k \in 1 .. m : SubSeq(frames, 1, m)[k] = frames[k]
    BY <1>3, SMT
  <2>4. below = SubSeq(frames, 1, m)
    BY <1>8, <2>2
  <2>5. DOMAIN below = 1 .. m /\ DOMAIN frames = 1 .. len
    BY <1>3, <1>4, <2>3, <2>4, LenProperties
  <2>6. m < MaxDepth /\ 1 .. m \subseteq 1 .. len
    BY <1>4, <2>2, GpuAssumption
  <2> QED BY <2>2, <2>3, <2>4, <2>5, <2>6
<1>15. asked \in Seq(Request) /\ tangled \subseteq DOMAIN asked
  BY <1>3 DEF Asking
<1>16. PICK from \in Nat \ {0} : from = i + 1
  BY <1>6
<1>17. Dispatch(s, from, pend, below)
  BY <1>9, <1>16
<1>18. \A j \in DOMAIN pend : pend[j].req \in DOMAIN asked
  BY <1>10, <1>11
<1>19. /\ frames' \in Seq(Frame) /\ Len(frames') <= MaxDepth
       /\ \A k \in DOMAIN frames' : \/ k \in DOMAIN below /\ frames'[k] = below[k]
                                    \/ frames'[k].s = s /\ frames'[k].i \in DOMAIN pend
       /\ asked' \in Seq(Request) /\ DOMAIN asked' = DOMAIN asked
       /\ \A r \in DOMAIN asked : asked'[r].s = asked[r].s /\ asked'[r].i = asked[r].i
       /\ tangled' \subseteq DOMAIN asked
  <2>1. pend \in Seq(Place) /\ below \in Seq(Frame) /\ Len(below) < MaxDepth
    BY <1>11, <1>14
  <2> QED BY <1>6, <1>15, <1>17, <1>18, <2>1, DispatchTypes
<1>20. \A m, j : At(m, j, states) => At(m, j, states')
  BY <1>3, <1>6, <1>11, <1>12, <1>13, StillAt
<1>21. \A r \in DOMAIN asked' : At(asked'[r].s, asked'[r].i, states')
  BY <1>3, <1>19, <1>20 DEF Asking
<1>22. \A k \in DOMAIN frames' : At(frames'[k].s, frames'[k].i, states')
  <2>1. ASSUME NEW k \in DOMAIN below PROVE At(below[k].s, below[k].i, states')
    BY <1>3, <1>14, <1>20 DEF Asking
  <2>2. ASSUME NEW j \in DOMAIN pend PROVE At(s, j, states')
    BY <1>6, <1>11, <1>20 DEF At
  <2> QED BY <1>19, <2>1, <2>2
<1>23. Asking'
  BY <1>3, <1>6, <1>10, <1>11, <1>12, <1>13, <1>18, <1>19, <1>21, <1>22, ListStep
<1>24. GpuTypes'
  BY <1>1, <1>23, GpuParts DEF Types
<1>25. TableTypes' /\ OsTypes' /\ OpTypes'
  BY <1>1, <1>2, TableKept, OsStep, OpDone DEF Types, OsTypes, OpTypes
<1> QED BY <1>2, <1>24, <1>25 DEF Types

(* The guest asks for an adapter or a device.                              *)
LEMMA AskTypes ==
    ASSUME Types, NEW kind \in {"adapter", "device"}, NEW s \in DOMAIN states, NEW inst \in Nat,
           Ask(kind, s, inst), UNCHANGED <<processVars, connVars, deskVars>>
    PROVE  Types' /\ (AllSound => AllSound')
<1>1. UNCHANGED <<htype, next, data, os, misused, made, gpu, frames, leaked>> /\ Spend("request")
  BY DEF Ask
<1>2. Grows /\ ProcessTypes' /\ ConnTypes' /\ DeskTypes' /\ (AllSound => AllSound')
  BY <1>1, GpuStay
<1>3. Asking /\ states[s] \in List /\ states[s].pend \in Seq(Place) /\ asked \in Seq(Request) /\ s \in Nat
  <2>1. Asking
    BY DEF Types, GpuTypes
  <2>2. states[s] \in List
    BY <2>1 DEF Asking
  <2> QED BY <2>1, <2>2, LenProperties DEF Asking, List
<1>4. PICK old \in Seq(Place) : old = states[s].pend
  BY <1>3
<1>5. PICK r \in Nat : r = Len(asked) + 1 /\ Len(asked) \in Nat
  BY <1>3, LenProperties
<1>6. PICK p \in Place : p = [kind |-> kind, req |-> r, done |-> FALSE]
  BY <1>5 DEF Place
<1>7. PICK i \in 1 .. MaxPending :
        /\ PendingAlloc(s, i)
        /\ states' = [states EXCEPT ![s].pend = IF i > Len(@) THEN Append(@, p) ELSE [@ EXCEPT ![i] = p]]
        /\ asked' = Append(asked, [kind |-> kind, inst |-> inst, s |-> s, i |-> i,
                                   answered |-> FALSE, told |-> 0])
        /\ (tangled' = tangled \/ tangled' = tangled \cup {r})
        /\ op' = [NoOp EXCEPT !.call = "request", !.at = "native", !.n = r]
  BY Zenon, <1>5, <1>6 DEF Ask
<1>8. PICK q : q = [kind |-> kind, inst |-> inst, s |-> s, i |-> i, answered |-> FALSE, told |-> 0]
  OBVIOUS
<1>9. i \in Nat /\ q \in Request /\ q.s = s /\ q.i = i
  BY <1>3, <1>7, <1>8, GpuAssumption DEF Request
<1>10. /\ asked' \in Seq(Request) /\ DOMAIN asked' = DOMAIN asked \cup {r} /\ asked'[r] = q
       /\ \A m \in DOMAIN asked : asked'[m] = asked[m]
  <2>1. asked' = Append(asked, q)
    BY <1>7, <1>8
  <2> QED BY <1>3, <1>5, <1>9, <2>1, AppendProperties, LenProperties
<1>11. PICK pend : pend = IF i > Len(old) THEN Append(old, p) ELSE [old EXCEPT ![i] = p]
  OBVIOUS
<1>12. Len(old) \in Nat /\ Len(old) <= MaxPending /\ DOMAIN old = 1 .. Len(old)
  BY <1>3, <1>4, LenProperties DEF Asking
<1>13. i = Len(old) + 1 \/ i \in 1 .. Len(old)
  BY <1>4, <1>7, <1>12 DEF PendingAlloc, Lowest
<1>14. /\ pend \in Seq(Place) /\ Len(pend) <= MaxPending /\ i \in DOMAIN pend
       /\ DOMAIN old \subseteq DOMAIN pend /\ DOMAIN pend \subseteq DOMAIN old \cup {i}
       /\ pend[i] = p /\ \A j \in DOMAIN old : j # i => pend[j] = old[j]
  <2>1. CASE i = Len(old) + 1
    <3>1. pend = Append(old, p)
      <4>1. i > Len(old)
        BY <1>12, <2>1
      <4> QED BY Zenon, <1>11, <4>1
    <3>2. pend \in Seq(Place) /\ Len(pend) = Len(old) + 1 /\ pend[Len(old) + 1] = p
          /\ \A j \in 1 .. Len(old) : pend[j] = old[j]
      BY <3>1, AppendProperties
    <3> QED BY <1>7, <1>12, <2>1, <3>2, GpuAssumption, LenProperties
  <2>2. CASE i \in 1 .. Len(old)
    <3>1. pend = [old EXCEPT ![i] = p] /\ i \in DOMAIN old
      <4>1. ~(i > Len(old)) /\ i \in DOMAIN old
        BY <1>12, <2>2
      <4> QED BY Zenon, <1>11, <4>1
    <3>2. pend \in Seq(Place) /\ Len(pend) = Len(old) /\ DOMAIN pend = DOMAIN old
      BY <1>12, <3>1, LenProperties
    <3> QED BY <1>12, <3>1, <3>2
  <2> QED BY <1>13, <2>1, <2>2
<1>15. PICK l : l = [states[s] EXCEPT !.pend = pend]
  OBVIOUS
<1>16. l \in List /\ l.pend = pend
  BY <1>3, <1>14, <1>15 DEF List
<1>17. states' = [states EXCEPT ![s] = l]
  <2>1. states' = [states EXCEPT ![s].pend = IF i > Len(@) THEN Append(@, p) ELSE [@ EXCEPT ![i] = p]]
    BY <1>7
  <2>2. states' = [states EXCEPT ![s].pend = pend]
    BY Zenon, <1>4, <1>11, <2>1
  <2> QED BY <1>15, <2>2
<1>18. \A m, j : At(m, j, states) => At(m, j, states')
  BY <1>3, <1>4, <1>14, <1>16, <1>17, StillAt
<1>19. At(s, i, states')
  BY <1>3, <1>14, <1>16, <1>17 DEF At, Asking
<1>20. \A m \in DOMAIN asked' : At(asked'[m].s, asked'[m].i, states')
  BY <1>3, <1>9, <1>10, <1>18, <1>19 DEF Asking
<1>21. \A k \in DOMAIN frames' : At(frames'[k].s, frames'[k].i, states')
  BY <1>1, <1>3, <1>18 DEF Asking
<1>22. \A j \in DOMAIN pend : pend[j].req \in DOMAIN asked'
  <2>1. p.req = r
    BY <1>6
  <2>2. \A j \in DOMAIN old : old[j].req \in DOMAIN asked
    BY <1>3, <1>4 DEF Asking
  <2> QED BY <1>10, <1>14, <2>1, <2>2
<1>23. frames' \in Seq(Frame) /\ Len(frames') <= MaxDepth /\ tangled' \subseteq DOMAIN asked'
  BY <1>1, <1>3, <1>7, <1>10 DEF Asking, Frame
<1>24. Asking'
  BY <1>3, <1>4, <1>10, <1>14, <1>16, <1>17, <1>20, <1>21, <1>22, <1>23, ListStep
<1>25. GpuTypes'
  BY <1>1, <1>24, GpuParts DEF Types
<1>26. TableTypes'
  BY <1>1, <1>2, TableKept DEF Types
<1>27. OsTypes'
  <2>1. left' \in [Kinds -> Nat] /\ misused' \in BOOLEAN
    BY <1>1, Accounts DEF Types, OsTypes, Kinds
  <2> QED BY <1>1, <1>2, <2>1, OsStep DEF Types
<1>28. OpTypes'
  <2>1. op' = [call |-> "request", at |-> "native", n |-> r, h |-> 0, cap |-> 0,
               mode |-> [x \in Stream |-> "inherit"]]
    BY <1>7 DEF NoOp
  <2>2. op' \in Op' /\ op'.call = "request" /\ op'.at = "native" /\ op'.n = r
    BY <2>1 DEF Op, Stream
  <2> QED BY <1>10, <2>2 DEF OpTypes
<1> QED BY <1>2, <1>25, <1>26, <1>27, <1>28 DEF Types

(* REQUEST ADAPTER and REQUEST DEVICE.                                     *)
LEMMA RequestTypes ==
    ASSUME Types, NEW h \in Handle, RequestAdapter(h) \/ RequestDevice(h),
           UNCHANGED <<processVars, connVars, deskVars>>
    PROVE  Types' /\ (AllSound => AllSound')
<1>1. htype[h] \in {"instance", "adapter"} /\ data[h].n \in DOMAIN gpu /\ data[h].n \in Nat
  BY DEF Types, TableTypes, Refers, Data, OsTypes, GpuType, RequestAdapter, RequestDevice, IsA
<1>2. InstanceOf(h) \in Nat
  BY <1>1 DEF InstanceOf, Types, GpuTypes
<1>3. CASE RequestAdapter(h)
  <2>1. PICK s \in DOMAIN states : Ask("adapter", s, data[h].n)
    BY <1>3 DEF RequestAdapter, StateOf
  <2> QED BY <1>1, <2>1, AskTypes
<1>4. CASE RequestDevice(h)
  <2>1. 1 \in DOMAIN states
    BY <1>4, EmptySeq, LenProperties DEF RequestDevice, Types, GpuTypes, Asking
  <2>2. PICK s \in DOMAIN states : s = 1
    BY <2>1
  <2>3. Ask("device", s, InstanceOf(h))
    BY <1>4, <2>2 DEF RequestDevice
  <2> QED BY <1>2, <2>3, AskTypes
<1> QED BY <1>3, <1>4

(* A request or a processEvents in progress stays what it is.              *)
LEMMA OpKeptElsewhere ==
    ASSUME OpTypes, op' = op, op.call \in {"request", "process"},
           DOMAIN asked \subseteq DOMAIN asked', frames' = frames
    PROVE  OpTypes'
<1>1. op \in Op'
  BY DEF Op, OpTypes, Handle
<1> QED BY <1>1 DEF OpTypes

(* wgpu-native answers; the result is an object of WebGPU or nothing.      *)
LEMMA AnswerTypes ==
    ASSUME Types, NEW r \in DOMAIN asked, Answer(r), UNCHANGED <<processVars, connVars, deskVars>>
    PROVE  Types' /\ (AllSound => AllSound')
<1>1. Asking /\ asked \in Seq(Request) /\ asked[r] \in Request
  BY DEF Types, GpuTypes, Asking
<1>2. PICK a \in Request : a = asked[r]
  BY <1>1
<1>3. PICK n \in Nat \ {0} : n = made + 1
  BY DEF Types, OsTypes
<1>4. /\ asked' = [asked EXCEPT ![r].answered = TRUE]
      /\ states' = [states EXCEPT ![a.s].pend[a.i].done = TRUE]
      /\ UNCHANGED <<misused, op, left, frames, tangled>>
      /\ \/ UNCHANGED <<htype, next, data, os, made, gpu, leaked>>
         \/ /\ made' = n /\ os' = os \cup {Native(n)}
            /\ gpu' = Extended(gpu, n, [inst |-> a.inst, addr |-> "none"])
            /\ \/ /\ \E h \in Handle : Entry(h, a.kind, [Blank EXCEPT !.n = n])
                  /\ UNCHANGED leaked
               \/ /\ TableFull /\ leaked' = leaked \cup {Native(n)}
                  /\ UNCHANGED <<htype, next, data>>
      /\ op.call \in {"request", "process"}
  BY <1>2, <1>3 DEF Answer, In
<1>5. /\ asked' \in Seq(Request) /\ DOMAIN asked' = DOMAIN asked
      /\ \A m \in DOMAIN asked : asked'[m].s = asked[m].s /\ asked'[m].i = asked[m].i
  <2>1. PICK b : b = [asked[r] EXCEPT !.answered = TRUE]
    OBVIOUS
  <2>2. b \in Request /\ b.s = asked[r].s /\ b.i = asked[r].i
    BY <1>1, <2>1 DEF Request
  <2>3. asked' = [asked EXCEPT ![r] = b]
    BY <1>4, <2>1
  <2> QED BY <1>1, <2>2, <2>3
<1>6. PICK s, i : s = a.s /\ i = a.i
  OBVIOUS
<1>7. s \in DOMAIN states /\ i \in DOMAIN states[s].pend
  BY <1>1, <1>2, <1>6 DEF Asking, At
<1>8. states[s] \in List /\ states[s].pend \in Seq(Place) /\ states[s].pend[i] \in Place
  <2>1. states[s] \in List
    BY <1>1, <1>7 DEF Asking
  <2> QED BY <1>7, <2>1 DEF List
<1>9. PICK p : p = [states[s].pend[i] EXCEPT !.done = TRUE]
  OBVIOUS
<1>10. PICK pend : pend = [states[s].pend EXCEPT ![i] = p]
  OBVIOUS
<1>11. PICK l : l = [states[s] EXCEPT !.pend = pend]
  OBVIOUS
<1>12. p \in Place /\ p.req = states[s].pend[i].req
  BY <1>8, <1>9 DEF Place
<1>13. /\ pend \in Seq(Place) /\ DOMAIN pend = DOMAIN states[s].pend /\ Len(pend) = Len(states[s].pend)
       /\ \A j \in DOMAIN pend : pend[j].req = states[s].pend[j].req
  BY <1>7, <1>8, <1>10, <1>12, LenProperties
<1>14. l \in List /\ l.pend = pend
  BY <1>8, <1>11, <1>13 DEF List
<1>15. states' = [states EXCEPT ![s] = l]
  BY Zenon, <1>4, <1>6, <1>9, <1>10, <1>11
<1>16. \A m, j : At(m, j, states) => At(m, j, states')
  BY <1>1, <1>7, <1>13, <1>14, <1>15, StillAt
<1>17. \A m \in DOMAIN asked' : At(asked'[m].s, asked'[m].i, states')
  BY <1>1, <1>5, <1>16 DEF Asking
<1>18. \A k \in DOMAIN frames' : At(frames'[k].s, frames'[k].i, states')
  BY <1>1, <1>4, <1>16 DEF Asking
<1>19. Len(l.pend) <= MaxPending /\ \A j \in DOMAIN l.pend : l.pend[j].req \in DOMAIN asked'
  BY <1>1, <1>5, <1>7, <1>13, <1>14 DEF Asking
<1>20. frames' \in Seq(Frame) /\ Len(frames') <= MaxDepth /\ tangled' \subseteq DOMAIN asked'
  BY <1>1, <1>4, <1>5 DEF Asking, Frame
<1>21. Asking'
  BY <1>1, <1>5, <1>7, <1>13, <1>14, <1>15, <1>17, <1>18, <1>19, <1>20, ListStep
<1>22. CASE UNCHANGED <<htype, next, data, os, made, gpu, leaked>>
  <2>1. Grows /\ ProcessTypes' /\ ConnTypes' /\ DeskTypes' /\ (AllSound => AllSound')
    BY <1>22, GpuStay
  <2>2. GpuTypes'
    BY <1>21, <1>22, GpuParts DEF Types
  <2>3. TableTypes' /\ OsTypes'
    BY <1>4, <1>22, <2>1, TableKept, OsStep DEF Types, OsTypes
  <2>4. OpTypes'
    BY <1>4, <1>5, <1>22, <2>1, OpKept DEF Types, OpTypes
  <2> QED BY <2>1, <2>2, <2>3, <2>4 DEF Types
<1>23. CASE /\ made' = n /\ os' = os \cup {Native(n)}
            /\ gpu' = Extended(gpu, n, [inst |-> a.inst, addr |-> "none"])
            /\ \/ /\ \E h \in Handle : Entry(h, a.kind, [Blank EXCEPT !.n = n])
                  /\ UNCHANGED leaked
               \/ /\ TableFull /\ leaked' = leaked \cup {Native(n)}
                  /\ UNCHANGED <<htype, next, data>>
  <2>1. PICK x : x = [inst |-> a.inst, addr |-> "none"]
    OBVIOUS
  <2>2. x \in [inst : Nat, addr : Address \cup {"none"}]
    BY <2>1 DEF Request
  <2>3. gpu' = Extended(gpu, n, x)
    BY <1>23, <2>1
  <2>4. /\ Grows /\ ProcessTypes' /\ ConnTypes' /\ DeskTypes' /\ (AllSound => AllSound')
        /\ DOMAIN gpu' = DOMAIN gpu \cup {n} /\ gpu'[n] = x /\ DOMAIN gpu' \subseteq 1 .. made'
        /\ gpu' \in [DOMAIN gpu' -> [inst : Nat, addr : Address \cup {"none"}]]
    BY <1>3, <1>23, <2>2, <2>3, NewGpu
  <2>5. leaked' \subseteq {Native(m) : m \in 1 .. made'}
    BY <1>3, <1>23 DEF Types, GpuTypes, OsTypes
  <2>6. GpuTypes'
    BY <1>21, <2>4, <2>5, GpuParts
  <2>7. OsTypes'
    <3>1. Suits(Native(n), made', net')
      BY <1>3, <1>23 DEF Suits, Native, Object, What
    <3> QED BY <1>4, <1>23, <2>4, <3>1, OsStep DEF Types, OsTypes
  <2>8. CASE UNCHANGED <<htype, next, data>>
    <3>1. TableTypes'
      BY <2>4, <2>8, TableKept DEF Types
    <3>2. OpTypes'
      BY <1>4, <1>5, <2>4, <2>8, OpKept DEF Types, OpTypes
    <3> QED BY <2>4, <2>6, <2>7, <3>1, <3>2 DEF Types
  <2>9. CASE \E h \in Handle : Entry(h, a.kind, [Blank EXCEPT !.n = n])
    <3>1. PICK h \in Handle, d \in {[Blank EXCEPT !.n = n]} : Entry(h, a.kind, d)
      BY <2>9
    <3>2. d \in Data(made') /\ d.n = n
      BY <1>23, <3>1 DEF Blank, Data, Stream
    <3>3. PICK kind \in {"adapter", "device"} : kind = a.kind
      BY DEF Request
    <3>4. Refers(kind, d, made', net', desk', gpu')
      <4>1. kind \notin {"process", "pipe", "conn", "instance"} \cup DeskKind \cup TokenKind
        BY DEF DeskKind, TokenKind
      <4> QED BY <2>4, <3>2, <4>1 DEF Refers
    <3>5. kind \in HandleType
      BY ObjectAssumption
    <3>6. /\ TableTypes' /\ h \in Handle /\ htype[h] = "free"
          /\ htype' = [htype EXCEPT ![h] = kind] /\ data' = [data EXCEPT ![h] = d]
      BY <2>4, <3>1, <3>2, <3>3, <3>4, <3>5, TableEntry DEF Types
    <3>7. OpTypes'
      BY <1>4, <1>5, OpKeptElsewhere DEF Types
    <3> QED BY <2>4, <2>6, <2>7, <3>6, <3>7 DEF Types
  <2> QED BY <1>23, <2>8, <2>9
<1> QED BY <1>4, <1>22, <1>23

(* Every step of the bridge.                                               *)
LEMMA GpuStepTypes ==
    ASSUME Types, GpuStep, UNCHANGED <<processVars, connVars, deskVars>>
    PROVE  Types' /\ (AllSound => AllSound')
BY CreateGpuTypes, EnterGpuTypes, UseGpuTypes, NativeDoneTypes, CallbackReturnsTypes, RequestTypes,
   AnswerTypes DEF GpuStep

-----------------------------------------------------------------------------
(* The theorems.                                                           *)

(* Nothing is there at the start.                                          *)
LEMMA InitTypes == Init => Types /\ AllSound
<1> SUFFICES ASSUME Init PROVE Types /\ AllSound
  OBVIOUS
<1> USE DEF Init, ObjectInit, ProcessInit, ConnInit, DeskInit, GpuInit
<1>1. PICK start \in Starts : /\ htype = [h \in Handle |-> IF h \in start.others THEN "other" ELSE "free"]
                              /\ left = start.calls
  OBVIOUS
<1>2. start.calls \in [Kinds -> Nat] /\ "other" \in HandleType
  BY ObjectAssumption
<1>3. made = 0 /\ Blank \in Data(made)
  BY BlankData
<1>4. TableTypes
  <2>1. HandleTypeOK
    BY <1>1, <1>2, HandleAssumption DEF HandleTypeOK, Handle
  <2>2. data \in [Handle -> Data(made)]
    BY <1>3
  <2>3. {"other", "free"} \cap ({"process", "pipe", "conn", "instance"} \cup DeskKind \cup TokenKind \cup GpuType) = {}
    BY DEF DeskKind, TokenKind, GpuType
  <2>4. ASSUME NEW h \in Handle PROVE Refers(htype[h], data[h], made, net, desk, gpu)
    <3>1. htype[h] \in {"other", "free"}
      BY <1>1
    <3> QED BY <2>3, <3>1 DEF Refers
  <2> QED BY <2>1, <2>2, <2>4 DEF TableTypes
<1>5. OsTypes
  BY <1>1, <1>2 DEF OsTypes
<1>6. OpTypes
  <2>1. NoOp \in Op /\ NoOp.call = "none"
    BY DEF NoOp, Op, Stream
  <2> QED BY <2>1 DEF OpTypes
<1>7. DOMAIN net = {} /\ DOMAIN tls = {} /\ DOMAIN quic = {} /\ DOMAIN desk = {} /\ DOMAIN gpu = {}
  BY EmptySeq
<1>8. ProcessTypes
  BY EmptySeq DEF ProcessTypes
<1>9. ConnTypes
  BY <1>7 DEF ConnTypes
<1>10. DeskTypes
  BY <1>3, <1>7 DEF DeskTypes
<1>11. GpuTypes
  BY <1>7, EmptySeq, GpuAssumption DEF GpuTypes, Asking
<1>12. AllSound
  BY <1>7 DEF AllSound
<1> QED BY <1>4, <1>5, <1>6, <1>8, <1>9, <1>10, <1>11, <1>12 DEF Types

(* Every step keeps both.                                                  *)
LEMMA StepTypes == Types /\ [Next]_vars => Types' /\ (AllSound => AllSound')
<1> SUFFICES ASSUME Types, [Next]_vars PROVE Types' /\ (AllSound => AllSound')
  OBVIOUS
<1>1. CASE ProcessStep /\ UNCHANGED <<connVars, otherVars>>
  BY <1>1, ProcessStepTypes DEF AllSound, connVars
<1>2. CASE ConnectionStep /\ UNCHANGED <<processVars, otherVars>>
  BY <1>2, ConnectionStepTypes
<1>3. CASE DesktopStep /\ UNCHANGED <<processVars, connVars, gpuVars>>
  BY <1>3, DesktopStepTypes
<1>4. CASE GpuStep /\ UNCHANGED <<processVars, connVars, deskVars>>
  BY <1>4, GpuStepTypes
<1>5. CASE UNCHANGED vars
  <2>1. /\ UNCHANGED <<htype, next, data, os, misused, op, made, left>>
        /\ UNCHANGED <<processVars, otherVars>> /\ UNCHANGED connVars
    BY <1>5 DEF vars, objectVars
  <2>2. ConnRest
    BY <2>1, ConnStays
  <2> QED BY <2>1, <2>2, ElsewhereTypes DEF Types, OsTypes
<1> QED BY <1>1, <1>2, <1>3, <1>4, <1>5 DEF Next, Rest

(* In every behaviour each variable has its type, each entry of the table  *)
(* refers to something that was made, each object of the system suits its  *)
(* creation, and the call in progress is about an entry of its type.       *)
THEOREM AlwaysTyped == Spec => []Types
<1>1. Init => Types
  BY InitTypes
<1>2. Types /\ [Next]_vars => Types'
  BY StepTypes
<1> QED BY <1>1, <1>2, PTL DEF Spec

(* The type invariant that the run checks.                                 *)
THEOREM TypeCorrect == Spec => []TypeOK
<1>1. ASSUME Types PROVE TypeOK
  <2>1. ObjectTypeOK
    <3>1. op.n \in Nat /\ op.h \in Handle \cup {0} /\ op.cap \in Nat
      BY <1>1 DEF Types, OpTypes, Op
    <3>2. os \subseteq What \X (1 .. made) \X (Stream \cup {"none"})
      BY <1>1 DEF Types, OsTypes, Suits
    <3> QED BY <1>1, <3>1, <3>2 DEF Types, OsTypes, TableTypes, Data, ObjectTypeOK, What
  <2>2. ProcessTypeOK
    BY <1>1 DEF Types, ProcessTypes, ProcessTypeOK
  <2>3. ConnTypeOK
    BY <1>1 DEF Types, ConnTypes, Net, TlsSession, QuicSession, Byte, ConnTypeOK
  <2>4. DeskTypeOK
    <3>1. ASSUME NEW n \in DOMAIN desk PROVE n <= made /\ desk[n].inner \in 0 .. made
      BY <1>1 DEF Types, DeskTypes, OsTypes
    <3> QED BY <1>1, <3>1 DEF Types, DeskTypes, DeskTypeOK
  <2>5. GpuTypeOK
    <3>1. Asking
      BY <1>1 DEF Types, GpuTypes
    <3>2. ASSUME NEW s \in DOMAIN states, NEW i \in DOMAIN states[s].pend
          PROVE  /\ states[s].addr \in Address
                 /\ states[s].pend[i] \in [kind : {"none", "adapter", "device"},
                                           req : DOMAIN asked, done : BOOLEAN]
      <4>1. states[s] \in List
        BY <3>1 DEF Asking
      <4>2. states[s].pend[i] \in Place /\ states[s].pend[i].req \in DOMAIN asked
        BY <3>1, <4>1 DEF Asking, List
      <4> QED BY <4>1, <4>2 DEF Place, List
    <3>3. ASSUME NEW s \in DOMAIN states PROVE states[s].addr \in Address /\ Len(states[s].pend) <= MaxPending
      <4>1. states[s] \in List
        BY <3>1 DEF Asking
      <4> QED BY <3>1, <4>1 DEF Asking, List
    <3> QED BY <1>1, <3>1, <3>2, <3>3 DEF Types, GpuTypes, Asking, GpuTypeOK
  <2> QED BY <2>1, <2>2, <2>3, <2>4, <2>5 DEF TypeOK
<1> QED BY <1>1, AlwaysTyped, PTL

(* The guest receives what the peer sent in its order, nothing twice, and  *)
(* nothing left out unless the QUIC ring was full; it is told of the end   *)
(* only when the peer is done and no byte that could be read is left.      *)
THEOREM BytesInOrder == Spec => []ReceivedInOrder
<1>1. ASSUME Types, AllSound PROVE ReceivedInOrder
  <2> SUFFICES ASSUME NEW n \in DOMAIN net
               PROVE  LET all == net[n].got \o Unread(n)
                      IN  /\ ~net[n].lost => all = [i \in 1 .. net[n].sent |-> i]
                          /\ \A i \in 1 .. Len(all) - 1 : all[i] < all[i + 1]
                          /\ net[n].told =>
                               /\ net[n].fin
                               /\ Len(Unread(n)) < IF net[n].kind = "tls" THEN RecordSize ELSE 1
    BY Zenon DEF ReceivedInOrder
  <2>1. net[n].kind \in {"tcp", "tls", "quic"} /\ Typed(net[n], tls[n], quic[n])
        /\ Sound(net[n], tls[n], quic[n])
    BY <1>1, ConnTyped DEF AllSound
  <2>2. Unread(n) = Coming(net[n], tls[n], quic[n])
    BY <2>1 DEF Unread, Coming
  <2>3. PICK all : all = net[n].got \o Unread(n)
    OBVIOUS
  <2>4. all = All(net[n], tls[n], quic[n]) /\ all \in Seq(Byte) /\ Len(all) \in Nat
    BY <2>1, <2>2, <2>3, BytesOf, LenProperties DEF All
  <2>5. ~net[n].lost => all = [i \in 1 .. net[n].sent |-> i]
    BY <2>1, <2>4 DEF Sound, Upto
  <2>6. \A i, j \in 1 .. Len(all) : i < j => all[i] < all[j]
    BY <2>1, <2>4 DEF Sound, Rising
  <2>7. ASSUME NEW i \in 1 .. Len(all) - 1 PROVE all[i] < all[i + 1]
    <3>1. i \in 1 .. Len(all) /\ i + 1 \in 1 .. Len(all) /\ i < i + 1
      BY <2>4
    <3> QED BY <2>6, <3>1
  <2>8. net[n].told => /\ net[n].fin
                       /\ Len(Unread(n)) < IF net[n].kind = "tls" THEN RecordSize ELSE 1
    BY <2>1, <2>2 DEF Sound
  <2> QED BY <2>3, <2>5, <2>7, <2>8
<1>2. Init => Types /\ AllSound
  BY InitTypes
<1>3. Types /\ AllSound /\ [Next]_vars => (Types /\ AllSound)'
  BY StepTypes
<1> QED BY <1>1, <1>2, <1>3, PTL DEF Spec
=============================================================================
