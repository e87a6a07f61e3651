------------------------------ MODULE Desktop ------------------------------
(***************************************************************************)
(* Windows, menus, tray icons, files and directories behind handles        *)
(* (wapi_host_surface.c, wapi_host_menu.c, wapi_host_tray.c, wapi_host_fs.c*)
(* over platform/win32).  Each creation makes the object, then looks for   *)
(* an entry, and gives the object back when there is none.  A menu or tray *)
(* also takes a token from a bitmap, by which the platform finds it again. *)
(* A menu put into a window's bar or into another menu is not followed.    *)
(***************************************************************************)
EXTENDS OsObjects

CONSTANTS MaxWindows,  \* windows the platform has room for
          MaxTrays,    \* TRAY_MAX
          Token,       \* per token kind: the tokens of its bitmap
          MenuMax      \* MENU_MAX: smaller tokens index s_menus

TokenKind == {"menu", "tray"}
DeskKind  == {"window", "file", "directory"} \cup TokenKind

ASSUME DesktopAssumption ==
    /\ MaxWindows \in Nat /\ MaxTrays \in Nat /\ MenuMax \in Nat
    /\ Token \in [TokenKind -> SUBSET (Nat \ {0})]
    /\ \A t \in Token["tray"] : t >= MenuMax /\ t \notin Token["menu"]

VARIABLES taken,       \* s_menu_token_bitmap, s_tray_token_bitmap
          menus,       \* s_menus: the menu of each small token, 0 for none
          desk,        \* per menu or tray: its token and its inner menu
          lost         \* history: inner menus whose pointer was cut

deskVars == <<taken, menus, desk, lost>>

SmallToken == {t \in Token["menu"] : t < MenuMax}

DeskInit ==
    /\ taken = [kind \in TokenKind |-> {}]
    /\ menus = [t \in SmallToken |-> 0]
    /\ desk = <<>> /\ lost = {}

ObjectsFor(kind, n) == IF kind = "directory" THEN {} ELSE {Object(kind, n)}

Existing(kind) == Cardinality({o \in os : o[1] = kind})

Room(kind) ==
    CASE kind = "window" -> Existing("window") < MaxWindows
      [] kind = "tray"   -> Existing("tray") < MaxTrays
      [] OTHER           -> TRUE

(* The platform refuses a small token whose place in s_menus is occupied.  *)
TakeToken(kind, n) ==
    \E t \in Token[kind] \ taken[kind] :
      /\ Lowest(Token[kind] \ taken[kind], t)
      /\ (kind = "menu" /\ t \in SmallToken) => menus[t] = 0
      /\ taken' = [taken EXCEPT ![kind] = @ \cup {t}]
      /\ menus' = IF kind = "menu" /\ t \in SmallToken THEN [menus EXCEPT ![t] = n] ELSE menus
      /\ desk' = Extended(desk, n, [token |-> t, inner |-> 0])

(* A creation that finds no token or that the system refuses changes       *)
(* nothing.                                                                *)
MakeDesk(kind) ==
    /\ Spend("desk") /\ Create("make", kind) /\ Room(kind)
    /\ Open(ObjectsFor(kind, made + 1))
    /\ IF kind \in TokenKind THEN TakeToken(kind, made + 1) ELSE UNCHANGED <<taken, menus, desk>>
    /\ UNCHANGED <<htype, next, data, lost>>

(* The token of a menu or tray, and its place in s_menus, become free.     *)
GiveToken(kind, n) ==
    /\ taken' = [taken EXCEPT ![kind] = @ \ {desk[n].token}]
    /\ menus' = [t \in SmallToken |-> IF menus[t] = n THEN 0 ELSE menus[t]]

GiveBack(kind, n) ==
    /\ IF kind \in TokenKind THEN GiveToken(kind, n) ELSE UNCHANGED <<taken, menus>>
    /\ Close(ObjectsFor(kind, n) \cup
             IF kind = "tray" /\ desk[n].inner # 0 THEN {Object("menu", desk[n].inner)} ELSE {})

EnterDesk ==
    /\ op.call = "make" /\ Return
    /\ \/ /\ \E h \in Handle : Entry(h, op.at, [Blank EXCEPT !.n = op.n])
          /\ UNCHANGED <<os, misused, taken, menus>>
       \/ TableFull /\ GiveBack(op.at, op.n) /\ UNCHANGED <<htype, next, data>>
    /\ UNCHANGED <<made, left, desk, lost>>

DestroyDesk(h) ==
    /\ Idle /\ h \in Handle /\ htype[h] \in DeskKind
    /\ GiveBack(htype[h], data[h].n) /\ FreeAll({h})
    /\ UNCHANGED <<op, made, left, desk, lost>>

(* tray_set_menu drops the inner menu, then makes another if there are     *)
(* items.  The pointer is kept in 32 bits: it may be whole, or come out    *)
(* negative and count as none.  One that is cut and positive is freed      *)
(* later, with undefined behaviour, which is not followed.                 *)
SetTrayMenu(h) ==
    LET n    == data[h].n
        old  == IF desk[n].inner = 0 THEN {} ELSE {Object("menu", desk[n].inner)}
        new  == Object("menu", made + 1)
    IN  /\ Idle /\ IsA(h, "tray")
        /\ \/ /\ Close(old) /\ desk' = [desk EXCEPT ![n].inner = 0]
              /\ UNCHANGED <<made, left, lost>>
           \/ /\ Spend("desk") /\ made' = made + 1
              /\ os' = (os \ old) \cup {new} /\ misused' = (misused \/ ~(old \subseteq os))
              /\ \/ desk' = [desk EXCEPT ![n].inner = made + 1] /\ UNCHANGED lost
                 \/ desk' = [desk EXCEPT ![n].inner = 0] /\ lost' = lost \cup {new}
        /\ UNCHANGED <<htype, next, data, op, taken, menus>>

DesktopStep ==
    \/ \E kind \in DeskKind : MakeDesk(kind)
    \/ EnterDesk
    \/ \E h \in Handle : DestroyDesk(h) \/ SetTrayMenu(h)

DeskTypeOK ==
    /\ \A kind \in TokenKind : taken[kind] \subseteq Token[kind]
    /\ menus \in [SmallToken -> 0 .. made]
    /\ \A n \in DOMAIN desk : n <= made /\ desk[n].inner \in 0 .. made
    /\ lost \subseteq {Object("menu", n) : n \in 1 .. made}
=============================================================================
