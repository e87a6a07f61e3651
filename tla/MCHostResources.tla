---- MODULE MCHostResources ----
(* Two processes, a connection, three objects of the desktop, or WebGPU    *)
(* objects with requests, in a table with entries of others.               *)
EXTENDS HostResources

NoCalls == [kind \in Kinds |-> 0]

Some(others, calls) == [others : others, calls : calls]

MCStarts ==
    Some(SUBSET Handle, {[NoCalls EXCEPT !["create"] = 2],
                         [NoCalls EXCEPT !["connect"] = 1, !["send"] = 1],
                         [NoCalls EXCEPT !["desk"] = 3]})
    \cup
    Some({{}, {5}, {4, 6}, {5, 6, 7}},
         {[NoCalls EXCEPT !["desk"] = 1, !["gpu"] = 3],
          [NoCalls EXCEPT !["gpu"] = 3, !["request"] = 2],
          [NoCalls EXCEPT !["gpu"] = 2, !["request"] = 2, !["process"] = 1],
          [NoCalls EXCEPT !["gpu"] = 1, !["request"] = 3, !["process"] = 2]})

Streams3(a, b, c) == [stdin |-> a, stdout |-> b, stderr |-> c]

MCModes ==
    {Streams3("pipe", "pipe", "pipe"), Streams3("null", "pipe", "null"),
     Streams3("pipe", "null", "null"), Streams3("inherit", "inherit", "pipe"),
     Streams3("inherit", "inherit", "inherit")}

MCToken == [menu |-> {1, 2}, tray |-> {4, 5}]
=============================================================================
