---- MODULE MCBrowser ----
(* One extension and its pages: two services of one module.  Each behaviour*)
(* draws a budget for linking -- three kinds of page life, the worker's    *)
(* services -- or a plan for operations and requests, or for memory.        *)
EXTENDS Browser

NoCalls == [kind \in Kinds |-> 0]

MCHashOf == [k \in Key |-> CHOOSE h \in Hash : TRUE]

MCBudgets ==
    {[NoCalls EXCEPT !["fetch"] = 2],
     [NoCalls EXCEPT !["join"] = 1, !["fetch"] = 1],
     [NoCalls EXCEPT !["fetch"] = 1, !["restart"] = 1],
     [NoCalls EXCEPT !["join"] = 2, !["close"] = 1, !["restart"] = 1],
     [NoCalls EXCEPT !["join"] = 2, !["fclose"] = 1],
     [NoCalls EXCEPT !["wjoin"] = 3, !["clear"] = 1, !["restart"] = 1],
     NoCalls}

NoPlan == [codes |-> {}, has |-> <<>>, ops |-> 0, sent |-> 0, drops |-> 0,
           imports |-> {}, asks |-> 0, locks |-> 0]

Does(codes, has, n) == [NoPlan EXCEPT !.codes = codes, !.has = has, !.ops = n]
Reads(codes, kind)  == [Does(codes, <<kind>>, 2) EXCEPT !.sent = 3]
Polls(imports, n)   == [NoPlan EXCEPT !.imports = imports, !.asks = n]

Needing(kind) == {code \in Opcode : Table[code].needs = kind}

MCIoPlans ==
    {NoPlan,
     Does({"TIMEOUT", "CONNECT", "LOG"}, <<>>, 2),
     Reads({"RECV", "SEND"}, "websocket"), Reads({"SERIAL_OPEN", "SERIAL_READ"}, "serial"),
     Reads({"MIDI_RECV"}, "midi_in"),
     Does({"BT_NOTIFICATIONS_START"}, <<"bt_char">>, 2),
     Does({"POWER_IDLE_START", "CLIPBOARD_READ"}, <<>>, 2),
     Does({"GEO_POSITION_WATCH", "NFC_SCAN_START"}, <<>>, 2),
     Does({"FWATCH_ADD", "FWATCH_REMOVE", "CRYPTO_HASH_FINISH"}, <<"hashctx">>, 2),
     [Does({"DROP_READ"}, <<>>, 1) EXCEPT !.drops = 2],
     [NoPlan EXCEPT !.locks = 2]}
    \cup {Polls({imp}, 2) : imp \in Import \ (Open \cup Link \cup OnObject)}
    \cup {Polls({imp}, 3) : imp \in Open \cup Link \cup OnObject}
    \cup {Does(Needing("none"), <<>>, 1)}
    \cup {Does(Needing(kind), <<kind>>, 1) : kind \in {Table[code].needs : code \in Opcode} \ {"none"}}

NoMem == [call \in MemCall |-> 0]

MCMemPlans ==
    {NoMem, [NoMem EXCEPT !["heap"] = 3], [NoMem EXCEPT !["heap"] = 2, !["page"] = 1],
     [NoMem EXCEPT !["heap"] = 1, !["page"] = 1, !["regrow"] = 1],
     [NoMem EXCEPT !["heap"] = 1, !["page"] = 1, !["pages"] = 1],
     [NoMem EXCEPT !["page"] = 1, !["regrow"] = 1, !["pages"] = 1],
     [NoMem EXCEPT !["pool"] = 3]}

MCLives ==
    {<<b, NoPlan, NoMem, HeapBase>> : b \in MCBudgets \ {NoCalls}}
    \cup {<<NoCalls, p, NoMem, HeapBase>> : p \in MCIoPlans \ {NoPlan}}
    \cup ({NoCalls} \X {NoPlan} \X (MCMemPlans \ {NoMem}) \X Bases)
=============================================================================
