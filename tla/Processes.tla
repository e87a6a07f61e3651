----------------------------- MODULE Processes -----------------------------
(***************************************************************************)
(* Child processes and their pipes (wapi_host_process.c).  create runs     *)
(* through the streams, then CreateProcess, then the handles; each step    *)
(* may fail and undoes the earlier ones.  What a child inherits, it holds  *)
(* until it ends: a read sees the end of a pipe only when nobody holds the *)
(* end to write to.  A pipe is reduced to whether there is something in it.*)
(***************************************************************************)
EXTENDS OsObjects

CONSTANTS Modes        \* how the streams of a child are set up

ASSUME ProcessAssumption == Modes \subseteq [Stream -> {"inherit", "pipe", "null"}]

VARIABLES alive,       \* children that run
          holds,       \* ends of pipes a child inherited
          filled       \* pipes with something in them

processVars == <<alive, holds, filled>>

ProcessInit == alive = {} /\ holds = <<>> /\ filled = {}

Parent(n, s) == <<"parent", n, s>>
Child(n, s)  == <<"child", n, s>>
Nul(n, s)    == <<"nul", n, s>>

Piped   == {s \in Stream : op.mode[s] = "pipe"}
Parents == {Parent(op.n, s) : s \in Piped}

ChildEnds == {Child(op.n, s) : s \in Piped}

CreateCall(mode) ==
    /\ Spend("create") /\ Idle /\ made' = made + 1
    /\ op' = [NoOp EXCEPT !.call = "create", !.at = "stdin", !.n = made + 1, !.mode = mode]
    /\ UNCHANGED <<htype, next, data, os, misused, processVars>>

(* A stream needs a pipe, the null device (stderr shares that of stdout)   *)
(* or nothing.                                                             *)
NeededFor(s) ==
    CASE op.mode[s] = "pipe"    -> {Parent(op.n, s), Child(op.n, s)}
      [] op.mode[s] = "null"    -> IF s = "stderr" /\ op.mode["stdout"] = "null"
                                     THEN {} ELSE {Nul(op.n, s)}
      [] op.mode[s] = "inherit" -> {}

Earlier  == [stdin |-> {}, stdout |-> {"stdin"}, stderr |-> {"stdin", "stdout"}]
Following == [stdin |-> "stdout", stdout |-> "stderr", stderr |-> "spawn"]

SetUp(s) ==
    /\ In("create", s)
    /\ \/ Open(NeededFor(s)) /\ Goto(Following[s])
       \/ /\ NeededFor(s) # {}
          /\ Close(UNION {NeededFor(t) : t \in Earlier[s]}) /\ Return
    /\ UNCHANGED <<htype, next, data, made, left, processVars>>

SpawnFails ==
    /\ In("create", "spawn") /\ Return
    /\ Close(ChildEnds \cup Parents \cup
             {Nul(op.n, s) : s \in {t \in {"stdin"} : op.mode[t] = "null"}})
    /\ UNCHANGED <<htype, next, data, made, left, processVars>>

(* The child inherits every end that can be inherited, if its streams need *)
(* that at all; then the host closes them.                                 *)
Spawn ==
    LET n == op.n
    IN  /\ In("create", "spawn") /\ Goto("entry")
        /\ alive' = alive \cup {n}
        /\ holds' = Extended(holds, n, IF \A s \in Stream : op.mode[s] = "inherit" THEN {}
                                    ELSE {o \in os : o[1] = "child"})
        /\ os' = (os \cup {Object("process", n), Object("thread", n)}) \ ChildEnds
        /\ UNCHANGED <<htype, next, data, misused, made, left, filled>>

(* Mutant: only the process is undone.                                     *)
NoEntry_pipesLeft == {Object("process", op.n), Object("thread", op.n)}

NoEntry == {Object("process", op.n), Object("thread", op.n)} \cup Parents

EnterProcess ==
    /\ In("create", "entry")
    /\ \/ \E h \in Handle :
            /\ Entry(h, "process", [Blank EXCEPT !.n = op.n])
            /\ op' = [op EXCEPT !.call = "wrap", !.at = "stdin", !.h = h]
            /\ UNCHANGED <<os, misused, alive>>
       \/ /\ TableFull /\ Return
          /\ Close(NoEntry) /\ alive' = alive \ {op.n}
          /\ UNCHANGED <<htype, next, data>>
    /\ UNCHANGED <<made, left, holds, filled>>

(* alloc_pipe_handle for each pipe; without an entry the pipe is closed.   *)
Wrap(s) ==
    LET thread == IF s = "stderr" THEN {Object("thread", op.n)} ELSE {}
    IN  /\ In("wrap", s)
        /\ IF s = "stderr" THEN Return ELSE Goto(Following[s])
        /\ \/ /\ s \in Piped /\ Close(thread)
              /\ \E h \in Handle :
                   /\ HandleAlloc(h, "pipe")
                   /\ data' = [data EXCEPT ![h] = [Blank EXCEPT !.n = op.n, !.stream = s],
                                           ![op.h].pipes[s] = h]
           \/ /\ s \in Piped /\ TableFull /\ Close(thread \cup {Parent(op.n, s)})
              /\ UNCHANGED <<htype, next, data>>
           \/ s \notin Piped /\ Close(thread) /\ UNCHANGED <<htype, next, data>>
        /\ UNCHANGED <<made, left, processVars>>

-----------------------------------------------------------------------------
(* Calls on a process or a pipe.                                           *)

PipeOf(h) == Parent(data[h].n, data[h].stream)

(* pipe_close also takes the pipe out of the process it belongs to.        *)
PipeClose(h) ==
    /\ Idle /\ IsA(h, "pipe") /\ Close({PipeOf(h)})
    /\ htype' = [htype EXCEPT ![h] = "free"]
    /\ data' = [g \in Handle |->
         IF g = h THEN Blank
         ELSE IF htype[g] = "process"
           THEN [data[g] EXCEPT !.pipes = [s \in Stream |-> IF @[s] = h THEN 0 ELSE @[s]]]
           ELSE data[g]]
    /\ UNCHANGED <<next, op, made, left, processVars>>

(* pipe_read, pipe_write and wait with block set do not return before they *)
(* can.                                                                    *)
PipeCall(h) ==
    /\ IsA(h, "pipe")
    /\ Begin(IF data[h].stream = "stdin" THEN "write" ELSE "read", "pipe", h)
    /\ UNCHANGED <<htype, next, data, os, misused, made, left, processVars>>

Held(end) == end \in os \/ \E m \in alive : end \in holds[m]

PipeReturns ==
    LET n == op.n
        s == data[op.h].stream
    IN  /\ op.call \in {"read", "write"} /\ Return
        /\ \/ op.call = "read" /\ <<n, s>> \in filled /\ filled' = filled \ {<<n, s>>}
           \/ op.call = "write" /\ <<n, s>> \notin filled /\ Held(Child(n, s))
                /\ filled' = filled \cup {<<n, s>>}
           \/ (op.call = "read" => <<n, s>> \notin filled)
                /\ ~Held(Child(n, s)) /\ UNCHANGED filled
        /\ Uses({PipeOf(op.h)})
        /\ UNCHANGED <<htype, next, data, os, made, left, alive, holds>>

WaitCall(h) ==
    /\ IsA(h, "process") /\ Begin("wait", "process", h)
    /\ UNCHANGED <<htype, next, data, os, misused, made, left, processVars>>

WaitReturns ==
    /\ op.call = "wait" /\ op.n \notin alive /\ Return
    /\ Uses({Object("process", op.n)})
    /\ UNCHANGED <<htype, next, data, os, made, left, processVars>>

Kill(h) ==
    /\ Idle /\ IsA(h, "process") /\ data[h].n \in alive
    /\ alive' = alive \ {data[h].n} /\ Uses({Object("process", data[h].n)})
    /\ UNCHANGED <<htype, next, data, os, op, made, left, holds, filled>>

Destroy(h) ==
    LET pipes == {p \in {data[h].pipes[s] : s \in Stream} : IsA(p, "pipe")}
    IN  /\ Idle /\ IsA(h, "process")
        /\ Close({PipeOf(p) : p \in pipes} \cup {Object("process", data[h].n)})
        /\ FreeAll(pipes \cup {h})
        /\ UNCHANGED <<op, made, left, processVars>>

-----------------------------------------------------------------------------
(* What children do.                                                       *)

ChildStep(n) ==
    /\ n \in alive
    /\ \/ alive' = alive \ {n} /\ UNCHANGED filled
       \/ \E o \in holds[n] :
            /\ filled' = IF o[3] = "stdin" THEN filled \ {<<o[2], o[3]>>}
                                           ELSE filled \cup {<<o[2], o[3]>>}
            /\ UNCHANGED alive
    /\ UNCHANGED <<objectVars, holds>>

CreateStep ==
    \/ \E s \in Stream : SetUp(s) \/ Wrap(s)
    \/ SpawnFails \/ Spawn \/ EnterProcess

ProcessStep ==
    \/ \E mode \in Modes : CreateCall(mode)
    \/ CreateStep \/ PipeReturns \/ WaitReturns
    \/ \E h \in Handle : PipeClose(h) \/ PipeCall(h) \/ WaitCall(h) \/ Kill(h) \/ Destroy(h)
    \/ \E n \in alive : ChildStep(n)

ProcessTypeOK ==
    /\ alive \subseteq 1 .. made
    /\ \A n \in DOMAIN holds : holds[n] \subseteq {Child(m, s) : m \in 1 .. made, s \in Stream}
    /\ filled \subseteq (1 .. made) \X Stream
=============================================================================
