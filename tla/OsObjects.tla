----------------------------- MODULE OsObjects -----------------------------
(***************************************************************************)
(* The objects of the operating system and of libraries behind the host's  *)
(* handles: sockets, pipes, processes, sessions, windows, menus, files,    *)
(* WebGPU objects.                                                         *)
(* The n-th creation makes the objects <<what, n, stream>>.  The guest's   *)
(* thread is in one host call at a time; op says in which and where.       *)
(***************************************************************************)
EXTENDS HandleTable, Sequences, FiniteSets

CONSTANTS Starts       \* bound: entries of others, and how many calls of each kind

Stream == {"stdin", "stdout", "stderr"}
Kinds  == {"create", "connect", "send", "desk", "gpu", "request", "process"}

ASSUME ObjectAssumption ==
    /\ HandleType = {"process", "pipe", "conn", "window", "file", "directory", "menu", "tray",
                     "instance", "adapter", "device", "gsurface", "texture", "encoder",
                     "gpu", "other"}
    /\ Starts \subseteq [others : SUBSET Handle, calls : [Kinds -> Nat]]

VARIABLES data,        \* handles[].data: the object's number, or a process' pipes
          os,          \* open objects of the system
          misused,     \* history: an object was closed twice or used closed
          op,          \* the host call the guest's thread is in
          made,        \* creations so far
          left         \* calls that may still be made in this behaviour

objectVars == <<htype, next, data, os, misused, op, made, left>>

Blank == [n |-> 0, stream |-> "none", pipes |-> [s \in Stream |-> 0]]
NoOp  == [call |-> "none", at |-> "none", n |-> 0, h |-> 0, cap |-> 0,
          mode |-> [s \in Stream |-> "inherit"]]

(* Other capabilities hold some entries; what they do is not followed.     *)
ObjectInit ==
    /\ \E start \in Starts :
         /\ htype = [h \in Handle |-> IF h \in start.others THEN "other" ELSE "free"]
         /\ left = start.calls
    /\ next = First /\ data = [h \in Handle |-> Blank]
    /\ os = {} /\ misused = FALSE /\ op = NoOp /\ made = 0

IsA(h, t)       == h \in Handle /\ htype[h] = t
Object(what, n) == <<what, n, "none">>

(* A function on the creations, and one more.                              *)
Extended(f, n, x) == [m \in DOMAIN f \cup {n} |-> IF m = n THEN x ELSE f[m]]

Open(S)  == os' = os \cup S /\ UNCHANGED misused
Close(S) == os' = os \ S /\ misused' = (misused \/ ~(S \subseteq os))
Uses(S)  == misused' = (misused \/ ~(S \subseteq os))

Spend(kind) == left[kind] > 0 /\ left' = [left EXCEPT ![kind] = @ - 1]

Idle         == op.call = "none"
In(call, at) == op.call = call /\ op.at = at
Goto(at)     == op' = [op EXCEPT !.at = at]
Return       == op' = NoOp

(* A creation or another call begins.                                      *)
Create(call, at) ==
    /\ Idle /\ made' = made + 1
    /\ op' = [NoOp EXCEPT !.call = call, !.at = at, !.n = made + 1]
Begin(call, at, h) ==
    Idle /\ op' = [NoOp EXCEPT !.call = call, !.at = at, !.h = h, !.n = data[h].n]

Entry(h, t, d) == HandleAlloc(h, t) /\ data' = [data EXCEPT ![h] = d]

(* wapi_handle_free clears the entry's data.                               *)
FreeAll(H) ==
    /\ htype' = [h \in Handle |-> IF h \in H THEN "free" ELSE htype[h]]
    /\ data' = [h \in Handle |-> IF h \in H THEN Blank ELSE data[h]]
    /\ UNCHANGED next

ObjectTypeOK ==
    /\ HandleTypeOK
    /\ data \in [Handle -> [n : 0 .. made, stream : Stream \cup {"none"},
                            pipes : [Stream -> Handle \cup {0}]]]
    /\ made \in Nat /\ misused \in BOOLEAN /\ left \in [Kinds -> Nat]
    /\ op.n \in Nat /\ op.h \in Handle \cup {0} /\ op.cap \in Nat
    /\ os \subseteq {"parent", "child", "nul", "process", "thread", "socket", "tls",
                     "session", "events", "conn", "stream", "window", "file", "menu",
                     "tray", "gpu"}
                      \X (1 .. made) \X (Stream \cup {"none"})
=============================================================================
