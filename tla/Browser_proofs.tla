--------------------------- MODULE Browser_proofs ---------------------------
(***************************************************************************)
(* What a page and its worker promise, for every value of the constants:   *)
(* that an operation ends once (EndsOnce), that the guest is given its own *)
(* data (OwnData), that the tables and counts of linked services agree and *)
(* a holder is served (CountsAgree, HeldIsServed), that blocks of memory   *)
(* lie apart and keep what they hold (BlocksApart), and types (TypeOK).    *)
(*                                                                         *)
(* BrowserInv has one part for each piece of state; a step of one leaves   *)
(* the others alone (BrowserKept).                                         *)
(* Operations (IoInv): where an operation can be by the form of its answer *)
(* and when it has had a last completion (OpOK), which objects name which  *)
(* operation (OpsOK), what of a stream is read and what waits (StreamOK),  *)
(* whose the items of a drop are (DropsOK).  A step is taken apart into    *)
(* what it does to the operations (OpsGood), to the objects (ObjsGood,     *)
(* NotifyKept) and to the queue.                                           *)
(* Polled imports (AskInv): one request and one state at a key, and the    *)
(* state is that of the request.                                           *)
(* Memory (MemInv): the blocks of one allocator lie one after another      *)
(* (Ordered) between its floor and its pointer (Placed); what they hold is *)
(* kept until one runs into the ground of another (Contents).              *)
(* Linking (LinkInv): of the worker (WorkerInv) which tables lead where    *)
(* (Tables), what holders were given (Holds) and where their handles lead  *)
(* (Serves); of the pages that a service counts the handles to it          *)
(* (Hosting), also those that have left the table (ClosedHandles), and     *)
(* that each pending module has its one fetch (Fetching).                  *)
(* What Without, Kept and FlattenSeq compute for sequences of any length   *)
(* is proved by induction: a set of numbers with 0 and with n + 1 for each *)
(* of its n has all of them (NatSetInduction), or one it lacks would be    *)
(* the least.                                                              *)
(***************************************************************************)
EXTENDS Browser, SequenceTheorems, FiniteSetTheorems, WellFoundedInduction, TLAPS

-----------------------------------------------------------------------------
(* Polled imports.                                                         *)

(* Imports that answer a request from the state made for it.               *)
Strict == (Keyed \ OnObject) \cup Single \cup Link

AskState == [imp : Import, key : AskKey \cup {0}, by : Nat,
             state : {"pending", "ready", "failed"}]

Lock == [lock : {"asked", "held", "none"}, in : BOOLEAN, released : BOOLEAN]

AskTypes ==
    /\ plan \in IoPlans
    /\ asks \subseteq AskState /\ \A a \in asks : a.key \in KeyOf(a.imp)
    /\ reqs \subseteq Request /\ \A r \in reqs : r.key \in KeyOf(r.imp)
    /\ asked \in Nat
    /\ opened \subseteq (Open \cup Link) \X AskKey /\ misled \subseteq Import
    /\ locks \in Seq(Lock)

Same(x, y) == x.imp = y.imp /\ x.key = y.key

(* One request and one state at a key; and a state of a strict import is   *)
(* that of the request the guest waits for, at a device that is not open.  *)
Matched ==
    /\ \A r, s \in reqs : Same(r, s) => r = s
    /\ \A a, b \in asks : Same(a, b) => a = b
    /\ \A a \in asks : a.imp \in Strict =>
         /\ <<a.imp, a.key>> \notin opened
         /\ \E r \in reqs : Same(r, a) /\ r.id = a.by

AskInv == AskTypes /\ Matched /\ OwnAnswer /\ HeldByHandle

(* The kinds of imports, apart from each other.                            *)
LEMMA ImportFacts ==
    /\ Hasty \subseteq Import /\ Open \subseteq Import /\ Link \subseteq Import
    /\ Import \subseteq Strict \cup Hasty \cup Open \cup Grant \cup OnObject
    /\ \A imp \in Open \cup Link : KeyOf(imp) = AskKey /\ imp \notin Grant
    /\ \A imp \in Strict : imp \notin Hasty /\ imp \notin Open /\ imp \notin Grant /\ imp \notin OnObject
    /\ \A imp : KeyOf(imp) \subseteq AskKey \cup {0}
<1>1. /\ Import \subseteq Strict \cup Hasty \cup Open \cup Grant \cup OnObject
      /\ Hasty \subseteq Import /\ Open \subseteq Import /\ Link \subseteq Import
  BY DEF Import, Strict
<1>2. \A imp \in Open \cup Link : imp \notin Single \cup Grant
  BY DEF Open, Link, Single, Grant
<1>3. \A imp \in Link \cup Single : imp \notin Hasty /\ imp \notin Open /\ imp \notin Grant
  BY DEF Link, Hasty, BtImports, DialogImports, Open, Grant, Single
<1>4. \A imp \in Keyed : imp \notin Hasty /\ imp \notin Open /\ imp \notin Grant
  <2>1. \A imp \in UsbImports \cup SerialImports \cup CameraImports \cup CaptureImports \cup XrImports :
          imp \notin Hasty /\ imp \notin Open /\ imp \notin Grant
    BY DEF Hasty, BtImports, DialogImports, Open, Grant, UsbImports, SerialImports,
           CameraImports, CaptureImports, XrImports
  <2>2. \A imp \in ContactImports \cup CryptoImports \cup AuthnImports \cup BarcodeImports \cup PickerImports :
          imp \notin Hasty /\ imp \notin Open /\ imp \notin Grant
    BY DEF Hasty, BtImports, DialogImports, Open, Grant, ContactImports, CryptoImports,
           AuthnImports, BarcodeImports, PickerImports
  <2> QED BY <2>1, <2>2 DEF Keyed
<1>5. \A imp \in Link \cup Single : imp \notin OnObject
  BY DEF Link, Single, OnObject, BtImports
<1> QED BY <1>1, <1>2, <1>3, <1>4, <1>5 DEF KeyOf, Strict

(* A call for a request that is the only one at its key, waiting or new.   *)
LEMMA AskCall ==
    ASSUME AskInv, NEW r \in Request, r.key \in KeyOf(r.imp), Calls(r),
           \A s \in reqs : Same(r, s) => s = r, asked' \in Nat,
           UNCHANGED plan
    PROVE  AskInv'
<1> USE DEF AskInv, AskTypes, Request
<1>0. opened' = opened /\ locks' = locks /\ plan' = plan
  BY DEF Calls
<1>h. HeldByHandle'
  BY <1>0 DEF HeldByHandle
<1>1. CASE OnOpen(r)
  <2>1. asks' = asks /\ reqs' = reqs \ {r} /\ misled' = misled /\ <<r.imp, r.key>> \in opened
    BY <1>1 DEF OnOpen
  <2>2. Matched'
    <3>1. \A a \in asks : a.imp \in Strict => ~Same(r, a)
      BY <2>1 DEF Matched, Same
    <3> QED BY <1>0, <2>1, <3>1 DEF Matched, Same
  <2> QED BY <1>0, <1>h, <2>1, <2>2 DEF OwnAnswer
<1>2. CASE Starts(r)
  <2> DEFINE n == [imp |-> r.imp, key |-> r.key, by |-> r.id, state |-> "pending"]
  <2>1. /\ asks' = asks \cup {n} /\ reqs' = reqs \cup {r} /\ misled' = misled
        /\ <<r.imp, r.key>> \notin opened /\ \A a \in asks : ~Same(r, a)
    BY <1>2 DEF Starts, StatesAt, Same
  <2>2. n \in AskState /\ n.imp = r.imp /\ n.key = r.key /\ n.by = r.id
    BY DEF AskState
  <2>3. Same(r, n)
    BY <2>2 DEF Same
  <2> HIDE DEF n
  <2>4. Matched'
    <3>1. \A p, q \in reqs' : Same(p, q) => p = q
      BY <2>1 DEF Matched, Same
    <3>2. \A a, b \in asks' : Same(a, b) => a = b
      BY <2>1, <2>2 DEF Matched, Same
    <3>3. \A a \in asks' : a.imp \in Strict =>
         /\ <<a.imp, a.key>> \notin opened
         /\ \E s \in reqs' : Same(s, a) /\ s.id = a.by
      BY <2>1, <2>2, <2>3 DEF Matched
    <3> QED BY <3>1, <3>2, <3>3, <1>0 DEF Matched
  <2>5. AskTypes'
    BY <1>0, <2>1, <2>2
  <2> QED BY <1>0, <1>h, <2>1, <2>4, <2>5 DEF OwnAnswer
<1>3. CASE Again(r)
  <2>1. /\ asks' = asks /\ misled' = misled
        /\ reqs' = IF r.imp \in Hasty THEN reqs \ {r} ELSE reqs \cup {r}
    BY <1>3 DEF Again
  <2>2. Matched'
    <3>1. \A p, q \in reqs' : Same(p, q) => p = q
      BY <2>1 DEF Matched, Same
    <3>2. \A a \in asks : a.imp \in Strict =>
            \E s \in reqs' : Same(s, a) /\ s.id = a.by
      BY <2>1, ImportFacts DEF Matched, Same
    <3> QED BY <1>0, <2>1, <3>1, <3>2 DEF Matched
  <2>3. AskTypes'
    BY <1>0, <2>1
  <2> QED BY <1>0, <1>h, <2>1, <2>2, <2>3 DEF OwnAnswer
<1>4. CASE Answered(r)
  <2>1. PICK a \in asks :
          /\ Same(r, a) /\ asks' = Left(a) /\ reqs' = reqs \ {r}
          /\ misled' = IF a.by = r.id \/ r.imp \in Grant THEN misled ELSE misled \cup {r.imp}
    BY <1>4 DEF Answered, StatesAt, Same
  <2>2. asks' \subseteq asks /\ (a.imp \notin Grant => asks' = asks \ {a})
    BY <2>1 DEF Left
  <2>3. a.imp = r.imp /\ a.key = r.key
    BY <2>1 DEF Same
  <2>4. r.imp \in Strict => a.by = r.id
    BY <2>1, <2>3 DEF Matched, Same
  <2>5. misled' = misled \/ (misled' = misled \cup {r.imp} /\ r.imp \in Hasty \cup Open \cup OnObject)
    BY <2>1, <2>4, ImportFacts
  <2>6. Matched'
    <3>1. \A p, q \in reqs' : Same(p, q) => p = q
      BY <2>1 DEF Matched
    <3>2. \A x, y \in asks' : Same(x, y) => x = y
      BY <2>2 DEF Matched
    <3>3. ASSUME NEW x \in asks', x.imp \in Strict
          PROVE  /\ <<x.imp, x.key>> \notin opened'
                 /\ \E s \in reqs' : Same(s, x) /\ s.id = x.by
      <4>1. x \in asks
        BY <2>2, <3>3
      <4>2. PICK s \in reqs : Same(s, x) /\ s.id = x.by
        BY <3>3, <4>1 DEF Matched
      <4>3. s # r
        <5> SUFFICES ASSUME s = r PROVE FALSE
          OBVIOUS
        <5>1. Same(x, a)
          BY <2>3, <4>2 DEF Same
        <5>2. x = a
          BY <5>1, <4>1 DEF Matched
        <5>3. a.imp \notin Grant
          BY <5>2, <3>3, ImportFacts
        <5> QED BY <5>2, <5>3, <2>2, <3>3
      <4> QED BY <4>1, <4>2, <4>3, <2>1, <1>0, <3>3 DEF Matched
    <3> QED BY <3>1, <3>2, <3>3 DEF Matched
  <2>7. AskTypes'
    BY <1>0, <2>1, <2>2, <2>5, ImportFacts
  <2>8. OwnAnswer'
    BY <2>5 DEF OwnAnswer
  <2> QED BY <1>h, <2>6, <2>7, <2>8
<1> QED BY <1>1, <1>2, <1>3, <1>4 DEF Calls

(* Every step of the polled imports keeps their invariant.                 *)
LEMMA AskStepKeeps ==
    ASSUME AskInv, AskStep, UNCHANGED plan
    PROVE  AskInv'
<1> USE DEF AskInv
<1>1. ASSUME NEW imp \in plan.imports, NEW key \in KeyOf(imp), Asking(imp, key)
      PROVE  AskInv'
  <2> DEFINE r == [imp |-> imp, key |-> key, id |-> asked + 1]
  <2>1. /\ asked' = asked + 1 /\ Calls(r)
        /\ {s \in reqs : s.imp = imp /\ s.key = key} = {}
    BY <1>1 DEF Asking
  <2>2. imp \in Import /\ key \in AskKey \cup {0} /\ asked \in Nat
    BY AskAssumption, ImportFacts, <1>1 DEF AskTypes
  <2>3. r \in Request /\ r.imp = imp /\ r.key = key /\ r.id = asked + 1
    BY <2>2 DEF Request
  <2> HIDE DEF r
  <2>4. \A s \in reqs : ~Same(r, s)
    BY <2>1, <2>3 DEF Same
  <2>5. asked' \in Nat /\ r.key \in KeyOf(r.imp)
    BY <2>1, <2>2, <2>3, <1>1
  <2> QED BY <2>1, <2>3, <2>4, <2>5, AskCall
<1>2. ASSUME NEW r \in reqs, Calls(r), UNCHANGED asked
      PROVE  AskInv'
  <2>1. r \in Request /\ r.key \in KeyOf(r.imp) /\ asked' \in Nat
    BY <1>2 DEF AskTypes
  <2>2. \A s \in reqs : Same(r, s) => s = r
    BY DEF Matched
  <2> QED BY <1>2, <2>1, <2>2, AskCall
<1>3. ASSUME NEW a \in asks, AskSettles(a)
      PROVE  AskInv'
  <2>1. /\ reqs' = reqs /\ asked' = asked /\ misled' = misled /\ locks' = locks
        /\ a \in AskState /\ a.key \in KeyOf(a.imp)
    BY <1>3 DEF AskSettles, AskTypes
  <2>2. PICK f, g : f = [a EXCEPT !.state = "failed"] /\ g = [a EXCEPT !.state = "ready"]
    OBVIOUS
  <2>3. /\ f \in AskState /\ f.imp = a.imp /\ f.key = a.key /\ f.by = a.by
        /\ g \in AskState /\ g.imp = a.imp /\ g.key = a.key /\ g.by = a.by
    BY <2>1, <2>2 DEF AskState
  <2>4. \/ asks' = (asks \ {a}) \cup {f} /\ opened' = opened
        \/ a.imp \in Link /\ asks' = asks \ {a} /\ opened' = opened \cup {<<a.imp, a.key>>}
        \/ asks' = (asks \ {a}) \cup {g} /\ opened' = opened
        \/ a.imp \in Open /\ asks' = (asks \ {a}) \cup {g} /\ opened' = opened \cup {<<a.imp, a.key>>}
    BY <1>3, <2>2 DEF AskSettles
  <2>5. \A x, y \in asks' : Same(x, y) => x = y
    BY <2>3, <2>4 DEF Matched, Same
  <2>6. \A x \in asks' : x.imp \in Strict =>
          /\ <<x.imp, x.key>> \notin opened'
          /\ \E r \in reqs : Same(r, x) /\ r.id = x.by
    <3>1. CASE asks' = (asks \ {a}) \cup {f} /\ opened' = opened
      BY <3>1, <2>3 DEF Matched, Same
    <3>2. CASE a.imp \in Link /\ asks' = asks \ {a} /\ opened' = opened \cup {<<a.imp, a.key>>}
      <4>1. \A x \in asks' : ~Same(x, a)
        BY <3>2 DEF Matched
      <4> QED BY <3>2, <4>1 DEF Matched, Same
    <3>3. CASE asks' = (asks \ {a}) \cup {g} /\ opened' = opened
      BY <3>3, <2>3 DEF Matched, Same
    <3>4. CASE a.imp \in Open /\ asks' = (asks \ {a}) \cup {g} /\ opened' = opened \cup {<<a.imp, a.key>>}
      <4>1. \A x \in asks' : x.imp \in Strict => x \in asks /\ x.imp # a.imp
        BY <3>4, <2>3, ImportFacts
      <4> QED BY <3>4, <4>1 DEF Matched, Same
    <3> QED BY <2>4, <3>1, <3>2, <3>3, <3>4
  <2>7. Matched'
    BY <2>1, <2>5, <2>6 DEF Matched
  <2>8. a.imp \in Open \cup Link => a.key \in AskKey
    BY <2>1, ImportFacts
  <2>9. AskTypes'
    BY <2>1, <2>3, <2>4, <2>8 DEF AskTypes
  <2> QED BY <2>1, <2>7, <2>9 DEF OwnAnswer, HeldByHandle
<1>4. ASSUME NEW device \in opened, Closes(device)
      PROVE  AskInv'
  BY <1>4 DEF Closes, AskTypes, Matched, OwnAnswer, HeldByHandle
<1>5. ASSUME UNCHANGED <<asks, reqs, asked, opened, misled>>,
             locks' \in Seq(Lock), \A k \in DOMAIN locks' : locks'[k].lock = "held" => ~locks'[k].released
      PROVE  AskInv'
  BY <1>5 DEF AskTypes, Matched, OwnAnswer, HeldByHandle
<1>l. locks \in Seq(Lock) /\ \A k \in DOMAIN locks : locks[k].lock = "held" => ~locks[k].released
  BY DEF AskTypes, HeldByHandle
<1>6. ASSUME WakeAcquire PROVE AskInv'
  <2> DEFINE l == [lock |-> "asked", in |-> TRUE, released |-> FALSE]
  <2>1. l \in Lock /\ l.lock = "asked"
    BY DEF Lock
  <2>2. /\ locks' = Append(locks, l)
        /\ UNCHANGED <<asks, reqs, asked, opened, misled>>
    BY <1>6 DEF WakeAcquire
  <2> HIDE DEF l
  <2> QED BY <1>l, <2>1, <2>2, <1>5
<1>7. ASSUME NEW k \in DOMAIN locks, WakeSettles(k) \/ WakeRelease(k) \/ WakeCloses(k)
      PROVE  AskInv'
  <2>1. locks[k] \in Lock
    BY <1>l
  <2>2. PICK l \in Lock : locks' = [locks EXCEPT ![k] = l] /\ (l.lock = "held" => ~l.released)
    <3>1. CASE WakeSettles(k)
      <4>1. PICK lock \in {Granted(locks[k]), "none"} :
              locks' = [locks EXCEPT ![k].lock = lock, ![k].released = @ \/ lock = "none"]
        BY <3>1 DEF WakeSettles
      <4>2. PICK l : l = [locks[k] EXCEPT !.lock = lock, !.released = @ \/ lock = "none"]
        OBVIOUS
      <4>3. locks' = [locks EXCEPT ![k] = l]
        BY <1>l, <4>1, <4>2
      <4>4. l \in Lock /\ (l.lock = "held" => ~l.released)
        BY <2>1, <4>1, <4>2 DEF Lock, Granted
      <4> QED BY <4>3, <4>4
    <3>2. CASE WakeRelease(k)
      <4>1. PICK l : l = [locks[k] EXCEPT !.in = FALSE, !.released = TRUE, !.lock = IF @ = "held" THEN "none" ELSE @]
        OBVIOUS
      <4>3. locks' = [locks EXCEPT ![k] = l]
        BY <3>2, <4>1 DEF WakeRelease
      <4>4. l \in Lock /\ (l.lock = "held" => ~l.released)
        BY <2>1, <4>1 DEF Lock
      <4> QED BY <4>3, <4>4
    <3>3. CASE WakeCloses(k)
      <4>1. PICK l : l = [locks[k] EXCEPT !.in = FALSE]
        OBVIOUS
      <4>2. locks' = [locks EXCEPT ![k] = l]
        BY <3>3, <4>1 DEF WakeCloses
      <4>3. l \in Lock /\ (l.lock = "held" => ~l.released)
        BY <1>l, <2>1, <4>1 DEF Lock
      <4> QED BY <4>2, <4>3
    <3> QED BY <1>7, <3>1, <3>2, <3>3
  <2>3. UNCHANGED <<asks, reqs, asked, opened, misled>>
    BY <1>7 DEF WakeSettles, WakeRelease, WakeCloses
  <2>4. locks' \in Seq(Lock) /\ DOMAIN locks' = DOMAIN locks
    BY <1>l, <2>2
  <2>5. \A j \in DOMAIN locks : locks'[j] = IF j = k THEN l ELSE locks[j]
    BY <2>2
  <2> QED BY <1>5, <1>l, <2>2, <2>3, <2>4, <2>5
<1>8. ASSUME NEW imp \in plan.imports, NEW key \in KeyOf(imp), ObjectGoes(imp, key)
      PROVE  AskInv'
  <2>1. /\ reqs' = {r \in reqs : r.imp # imp \/ r.key # key} /\ opened' = opened \ {<<imp, key>>}
        /\ UNCHANGED <<asked, misled, locks>>
        /\ asks' = IF imp \in ByHandle THEN {a \in asks : a.imp # imp \/ a.key # key} ELSE asks
        /\ imp \in ByHandle \cup OnObject
    BY <1>8 DEF ObjectGoes, StatesLeft
  <2>2. asks' \subseteq asks /\ reqs' \subseteq reqs /\ opened' \subseteq opened
    BY <2>1
  <2>3. ASSUME NEW a \in asks', a.imp \in Strict
        PROVE  <<a.imp, a.key>> \notin opened' /\ \E r \in reqs' : Same(r, a) /\ r.id = a.by
    <3>1. a.imp # imp \/ a.key # key
      BY <2>1, <2>3, ImportFacts
    <3>2. PICK r \in reqs : Same(r, a) /\ r.id = a.by
      BY <2>2, <2>3 DEF Matched
    <3>3. r \in reqs'
      BY <2>1, <3>1, <3>2 DEF Same
    <3> QED BY <2>2, <2>3, <3>2, <3>3 DEF Matched
  <2>4. Matched'
    BY <2>2, <2>3 DEF Matched
  <2>5. AskTypes'
    BY <2>1, <2>2 DEF AskTypes
  <2> QED BY <2>1, <2>4, <2>5 DEF OwnAnswer, HeldByHandle
<1> QED BY <1>1, <1>2, <1>3, <1>4, <1>6, <1>7, <1>8 DEF AskStep, AskingAgain, AskSettling

-----------------------------------------------------------------------------
(* Sequences of chunks.                                                    *)

(* Induction, for a set of numbers.                                        *)
LEMMA NatSetInduction ==
    ASSUME NEW S, 0 \in S, \A n \in Nat : n \in S => n + 1 \in S
    PROVE  Nat \subseteq S
<1> DEFINE R == OpToRel(<, Nat)
<1>1. \A x, y : <<x, y>> \in R <=> x \in Nat /\ y \in Nat /\ x < y
  BY DEF OpToRel
<1>2. IsWellFoundedOn(R, Nat)
  BY NatLessThanWellFounded
<1> HIDE DEF R
<1>3. SUFFICES ASSUME Nat \ S # {} PROVE FALSE
  OBVIOUS
<1>4. PICK m \in Nat \ S : \A y \in Nat \ S : ~(<<y, m>> \in R)
  BY <1>2, <1>3, WFMin
<1>5. m # 0 /\ m - 1 \in Nat /\ m - 1 < m
  OBVIOUS
<1>6. m - 1 \in S
  BY <1>1, <1>4, <1>5
<1> QED BY <1>5, <1>6, <1>4

Chunks == Seq(Seq(Nat))

(* f[i] is the first i chunks in one sequence.                             *)
Step(s, i, f) == IF i = 1 THEN s[i] ELSE f \o s[i]
IsJoin(s, n, f) == f = [i \in 1 .. n |-> Step(s, i, f[i - 1])]

Join(s) == CHOOSE f : IsJoin(s, Len(s), f)

(* FlattenSeq is the last of the joins.                                    *)
LEMMA FlattenJoin ==
    ASSUME NEW s
    PROVE  FlattenSeq(s) = IF Len(s) = 0 THEN s ELSE Join(s)[Len(s)]
BY DEF FlattenSeq, Join, IsJoin, Step

(* There are joins of any sequence of chunks.                              *)
LEMMA JoinExists ==
    ASSUME NEW s \in Chunks
    PROVE  \E f : IsJoin(s, Len(s), f)
<1> DEFINE S == {n \in Nat : \E f : IsJoin(s, n, f)}
<1>1. 0 \in S
  <2>1. PICK e : e = [i \in 1 .. 0 |-> 0]
    OBVIOUS
  <2>2. IsJoin(s, 0, e)
    BY <2>1 DEF IsJoin
  <2> QED BY <2>2
<1>2. ASSUME NEW n \in Nat, n \in S PROVE n + 1 \in S
  <2>1. PICK f : IsJoin(s, n, f)
    BY <1>2
  <2>2. PICK g : g = [i \in 1 .. n + 1 |-> Step(s, i, f[i - 1])]
    OBVIOUS
  <2>3. \A i \in 1 .. n : g[i] = f[i]
    BY <2>1, <2>2 DEF IsJoin
  <2>4. \A i \in 1 .. n + 1 : Step(s, i, f[i - 1]) = Step(s, i, g[i - 1])
    <3>1. \A i \in 1 .. n + 1 : i # 1 => i - 1 \in 1 .. n
      OBVIOUS
    <3>2. \A i \in 1 .. n + 1 : i # 1 => f[i - 1] = g[i - 1]
      BY <3>1, <2>3
    <3>3. \A x, y : Step(s, 1, x) = Step(s, 1, y)
      BY DEF Step
    <3> QED BY <3>2, <3>3
  <2>5. IsJoin(s, n + 1, g)
    BY <2>2, <2>4 DEF IsJoin
  <2> QED BY <2>5
<1>3. Len(s) \in Nat
  BY DEF Chunks
<1> HIDE DEF S
<1>4. Len(s) \in S
  BY <1>1, <1>2, <1>3, NatSetInduction
<1> QED BY <1>4 DEF S

(* Each join is the one before and the next chunk.                         *)
LEMMA JoinRec ==
    ASSUME NEW s \in Chunks
    PROVE  /\ DOMAIN Join(s) = 1 .. Len(s)
           /\ Len(s) > 0 => Join(s)[1] = s[1]
           /\ \A i \in 2 .. Len(s) : Join(s)[i] = Join(s)[i - 1] \o s[i]
           /\ \A i \in 1 .. Len(s) : Join(s)[i] \in Seq(Nat)
<1>1. IsJoin(s, Len(s), Join(s))
  BY JoinExists DEF Join
<1>2. PICK f : f = Join(s)
  OBVIOUS
<1>3. PICK L \in Nat : L = Len(s)
  BY DEF Chunks
<1>4. DOMAIN f = 1 .. L /\ \A i \in 1 .. L : f[i] = Step(s, i, f[i - 1])
  BY <1>1, <1>2, <1>3 DEF IsJoin
<1>5. \A x : Step(s, 1, x) = s[1]
  BY DEF Step
<1>6. \A i \in 2 .. L : \A x : Step(s, i, x) = x \o s[i]
  BY DEF Step
<1>7. \A i \in 1 .. L : s[i] \in Seq(Nat)
  BY <1>3 DEF Chunks
<1>8. L > 0 => f[1] = s[1]
  BY <1>4, <1>5
<1>9. \A i \in 2 .. L : f[i] = f[i - 1] \o s[i]
  <2> TAKE i \in 2 .. L
  <2>1. i \in 1 .. L
    OBVIOUS
  <2>2. f[i] = Step(s, i, f[i - 1])
    BY <2>1, <1>4
  <2> QED BY <2>2, <1>6
<1> DEFINE S == {n \in Nat : n \in 1 .. L => f[n] \in Seq(Nat)}
<1>10. 0 \in S
  OBVIOUS
<1>11. ASSUME NEW n \in Nat, n \in S PROVE n + 1 \in S
  <2>1. ASSUME n + 1 \in 1 .. L, n # 0 PROVE f[n + 1] \in Seq(Nat)
    <3>0. PICK m \in 2 .. L : m = n + 1 /\ m - 1 = n /\ m \in 1 .. L
      BY <2>1
    <3>1. f[m] = f[m - 1] \o s[m]
      BY <3>0, <1>9
    <3>2. n \in 1 .. L
      BY <3>0
    <3>3. f[m - 1] \in Seq(Nat) /\ s[m] \in Seq(Nat)
      BY <1>7, <1>11, <3>0, <3>2
    <3>4. PICK a \in Seq(Nat), b \in Seq(Nat) : a = f[m - 1] /\ b = s[m]
      BY <3>3
    <3>5. a \o b \in Seq(Nat)
      OBVIOUS
    <3> QED BY <3>0, <3>1, <3>4, <3>5
  <2>2. ASSUME n = 0, n + 1 \in 1 .. L PROVE f[n + 1] \in Seq(Nat)
    BY <1>7, <1>8, <2>2
  <2> QED BY <2>1, <2>2
<1> HIDE DEF S
<1>12. Nat \subseteq S
  BY <1>10, <1>11, NatSetInduction
<1>13. \A i \in 1 .. L : f[i] \in Seq(Nat)
  BY <1>12 DEF S
<1> QED BY <1>2, <1>3, <1>4, <1>8, <1>9, <1>13

(* Concatenation is associative, for numbers.                              *)
LEMMA ConcatNat ==
    \A a, b, c \in Seq(Nat) : (a \o b) \o c = a \o (b \o c)
BY ConcatAssociative

(* The first w chunks of s in one sequence.                                *)
First(s, w) == IF w = 0 THEN <<>> ELSE Join(s)[w]

(* The first chunks in one, one chunk at a time.                           *)
LEMMA FirstRec ==
    ASSUME NEW s \in Chunks
    PROVE  /\ First(s, 0) = <<>>
           /\ \A w \in 0 .. Len(s) : First(s, w) \in Seq(Nat)
           /\ \A w \in 0 .. Len(s) - 1 :
                s[w + 1] \in Seq(Nat) /\ First(s, w + 1) = First(s, w) \o s[w + 1]
           /\ FlattenSeq(s) = First(s, Len(s))
           /\ FlattenSeq(s) \in Seq(Nat)
<1>1. PICK L \in Nat : L = Len(s)
  BY DEF Chunks
<1>2. PICK f : f = Join(s)
  OBVIOUS
<1>3. /\ L > 0 => f[1] = s[1]
      /\ \A i \in 2 .. L : f[i] = f[i - 1] \o s[i]
      /\ \A i \in 1 .. L : f[i] \in Seq(Nat)
  BY <1>1, <1>2, JoinRec
<1>4. \A i \in 1 .. L : s[i] \in Seq(Nat)
  BY <1>1 DEF Chunks
<1>5. First(s, 0) = <<>>
  BY DEF First
<1>6. \A w \in 1 .. L : First(s, w) = f[w]
  BY <1>2 DEF First
<1>7. \A w \in 0 .. L : First(s, w) \in Seq(Nat)
  <2>1. \A w \in 0 .. L : w = 0 \/ w \in 1 .. L
    OBVIOUS
  <2>2. <<>> \in Seq(Nat)
    BY EmptySeq
  <2> QED BY <1>3, <1>5, <1>6, <2>1, <2>2
<1>8. ASSUME NEW w \in 0 .. L - 1
      PROVE  s[w + 1] \in Seq(Nat) /\ First(s, w + 1) = First(s, w) \o s[w + 1]
  <2>0. w + 1 \in 1 .. L
    OBVIOUS
  <2>1. s[w + 1] \in Seq(Nat)
    BY <1>4, <2>0
  <2>2. CASE w = 0
    <3>1. First(s, w + 1) = s[w + 1]
      BY <1>3, <1>6, <2>0, <2>2
    <3>2. PICK c \in Seq(Nat) : c = s[w + 1]
      BY <2>1
    <3>3. <<>> \o c = c
      BY ConcatEmptySeq
    <3> QED BY <1>5, <2>1, <2>2, <3>1, <3>2, <3>3
  <2>3. CASE w # 0
    <3>1. PICK i \in 2 .. L : i = w + 1 /\ i - 1 = w /\ i \in 1 .. L /\ i - 1 \in 1 .. L
      BY <2>3
    <3>2. f[i] = f[i - 1] \o s[i]
      BY <1>3
    <3>3. First(s, i) = f[i] /\ First(s, w) = f[w]
      BY <1>6, <3>1
    <3> QED BY <2>1, <3>1, <3>2, <3>3, Zenon
  <2> QED BY <2>2, <2>3
<1>9. FlattenSeq(s) = First(s, L)
  <2>1. CASE L = 0
    <3>1. s = <<>>
      BY <1>1, <2>1, EmptySeq DEF Chunks
    <3> QED BY <1>1, <2>1, <3>1, <1>5, FlattenJoin
  <2>2. CASE L # 0
    BY <1>1, <2>2, FlattenJoin DEF First
  <2> QED BY <2>1, <2>2
<1>10. First(s, L) \in Seq(Nat)
  BY <1>7
<1> QED BY <1>1, <1>5, <1>7, <1>8, <1>9, <1>10

(* Equal beginnings join to equal sequences.                               *)
LEMMA FirstAgrees ==
    ASSUME NEW s \in Chunks, NEW t \in Chunks, NEW n \in Nat,
           n <= Len(s), n <= Len(t), \A i \in 1 .. n : s[i] = t[i]
    PROVE  First(s, n) = First(t, n)
<1> DEFINE S == {w \in Nat : w <= n => First(s, w) = First(t, w)}
<1>0. Len(s) \in Nat /\ Len(t) \in Nat
  BY DEF Chunks
<1>1. 0 \in S
  BY FirstRec
<1>2. ASSUME NEW w \in Nat, w \in S PROVE w + 1 \in S
  <2> SUFFICES ASSUME w + 1 <= n PROVE First(s, w + 1) = First(t, w + 1)
    OBVIOUS
  <2>1. w \in 0 .. Len(s) - 1 /\ w \in 0 .. Len(t) - 1 /\ w <= n /\ w + 1 \in 1 .. n
    BY <1>0
  <2>2. First(s, w + 1) = First(s, w) \o s[w + 1]
    BY <2>1, FirstRec
  <2>3. First(t, w + 1) = First(t, w) \o t[w + 1]
    BY <2>1, FirstRec
  <2>4. First(s, w) = First(t, w) /\ s[w + 1] = t[w + 1]
    BY <1>2, <2>1
  <2> QED BY <2>2, <2>3, <2>4, Zenon
<1> HIDE DEF S
<1>3. Nat \subseteq S
  BY <1>1, <1>2, NatSetInduction
<1> QED BY <1>3 DEF S

(* A chunk at the end adds its bytes at the end.                           *)
LEMMA FlattenAppend ==
    ASSUME NEW s \in Chunks, NEW c \in Seq(Nat)
    PROVE  Append(s, c) \in Chunks /\ FlattenSeq(Append(s, c)) = FlattenSeq(s) \o c
<1>1. PICK t : t = Append(s, c)
  OBVIOUS
<1>2. PICK n \in Nat : n = Len(s)
  BY DEF Chunks
<1>3. t \in Chunks /\ Len(t) = n + 1 /\ t[n + 1] = c /\ \A i \in 1 .. n : s[i] = t[i]
  BY <1>1, <1>2, AppendProperties DEF Chunks
<1>4. First(s, n) = First(t, n)
  BY <1>2, <1>3, FirstAgrees
<1>5. First(t, n + 1) = First(t, n) \o t[n + 1]
  <2>1. n \in 0 .. Len(t) - 1
    BY <1>3
  <2> QED BY <1>3, <2>1, FirstRec
<1>6. FlattenSeq(s) = First(s, n) /\ FlattenSeq(t) = First(t, n + 1)
  BY <1>2, <1>3, FirstRec
<1> QED BY <1>1, <1>3, <1>4, <1>5, <1>6, Zenon

(* What follows the first chunk, and what follows the first w.             *)
LEMMA FirstTail ==
    ASSUME NEW s \in Chunks, s # <<>>
    PROVE  /\ Tail(s) \in Chunks /\ Head(s) \in Seq(Nat) /\ Len(Tail(s)) = Len(s) - 1
           /\ \A w \in 0 .. Len(s) - 1 : First(s, w + 1) = Head(s) \o First(Tail(s), w)
           /\ FlattenSeq(s) = Head(s) \o FlattenSeq(Tail(s))
<1>1. PICK t, h : t = Tail(s) /\ h = Head(s)
  OBVIOUS
<1>2. PICK n \in Nat : n + 1 = Len(s)
  <2>1. Len(s) \in Nat \ {0}
    BY EmptySeq DEF Chunks
  <2> QED BY <2>1
<1>3. /\ t \in Chunks /\ h \in Seq(Nat) /\ Len(t) = n
      /\ h = s[1] /\ \A i \in 1 .. n : t[i] = s[i + 1]
  <2>1. /\ Head(s) \in Seq(Nat) /\ Tail(s) \in Seq(Seq(Nat)) /\ Len(Tail(s)) = Len(s) - 1
        /\ \A i \in 1 .. Len(Tail(s)) : Tail(s)[i] = s[i + 1]
    BY HeadTailProperties DEF Chunks
  <2>2. Head(s) = s[1]
    BY DEF Chunks
  <2> QED BY <1>1, <1>2, <2>1, <2>2 DEF Chunks
<1> DEFINE S == {w \in Nat : w <= n => First(s, w + 1) = h \o First(t, w)}
<1>4. 0 \in S
  <2>1. First(s, 1) = First(s, 0) \o s[1] /\ First(s, 0) = <<>>
    <3>1. 0 \in 0 .. Len(s) - 1 /\ 0 + 1 = 1
      BY <1>2
    <3>2. First(s, 0 + 1) = First(s, 0) \o s[0 + 1] /\ First(s, 0) = <<>>
      BY <3>1, FirstRec
    <3> QED BY <3>1, <3>2
  <2>2. First(t, 0) = <<>>
    BY <1>3, FirstRec
  <2>3. <<>> \o h = h /\ h \o <<>> = h
    BY <1>3, ConcatEmptySeq
  <2>4. First(s, 1) = h /\ h \o First(t, 0) = h
    BY <1>3, <2>1, <2>2, <2>3, Zenon
  <2> QED BY <2>4
<1>5. ASSUME NEW w \in Nat, w \in S PROVE w + 1 \in S
  <2> SUFFICES ASSUME w + 1 <= n PROVE First(s, (w + 1) + 1) = h \o First(t, w + 1)
    OBVIOUS
  <2>1. w + 1 \in 0 .. Len(s) - 1 /\ w \in 0 .. Len(t) - 1 /\ w \in 0 .. Len(t) /\ w <= n /\ w + 1 \in 1 .. n
    BY <1>2, <1>3
  <2>2. First(s, (w + 1) + 1) = First(s, w + 1) \o s[(w + 1) + 1]
    BY <2>1, FirstRec
  <2>3. First(t, w + 1) = First(t, w) \o t[w + 1] /\ t[w + 1] \in Seq(Nat) /\ First(t, w) \in Seq(Nat)
    BY <1>3, <2>1, FirstRec
  <2>4. First(s, w + 1) = h \o First(t, w)
    BY <1>5, <2>1
  <2>5. s[(w + 1) + 1] = t[w + 1]
    BY <1>3, <2>1
  <2>6. PICK a \in Seq(Nat), b \in Seq(Nat) : a = First(t, w) /\ b = t[w + 1]
    BY <2>3
  <2>7. (h \o a) \o b = h \o (a \o b)
    BY <1>3, ConcatNat
  <2> QED BY <2>2, <2>3, <2>4, <2>5, <2>6, <2>7, Zenon
<1> HIDE DEF S
<1>6. Nat \subseteq S
  BY <1>4, <1>5, NatSetInduction
<1>7. \A w \in 0 .. n : First(s, w + 1) = h \o First(t, w)
  BY <1>6 DEF S
<1>8. FlattenSeq(s) = First(s, n + 1) /\ FlattenSeq(t) = First(t, n)
  BY <1>2, <1>3, FirstRec
<1>9. FlattenSeq(s) = h \o FlattenSeq(t)
  <2>1. First(s, n + 1) = h \o First(t, n)
    BY <1>7
  <2> QED BY <1>8, <2>1, Zenon
<1> QED BY <1>1, <1>2, <1>3, <1>7, <1>9

(* What follows the first n elements.                                      *)
After(a, n) == SubSeq(a, n + 1, Len(a))

(* What is after the first n bytes of two sequences.                       *)
LEMMA AfterConcat ==
    ASSUME NEW a \in Seq(Nat), NEW b \in Seq(Nat), NEW n \in Nat
    PROVE  /\ After(a, n) \in Seq(Nat)
           /\ n >= Len(a) => After(a \o b, n) = After(b, n - Len(a))
           /\ n <= Len(a) => After(a \o b, n) = After(a, n) \o b
           /\ After(a, 0) = a
           /\ n <= Len(a) => Len(After(a, n)) = Len(a) - n /\ a = SubSeq(a, 1, n) \o After(a, n)
<1>1. PICK l \in Nat, m \in Nat : l = Len(a) /\ m = Len(b)
  OBVIOUS
<1>2. PICK c : c = a \o b
  OBVIOUS
<1>3. /\ c \in Seq(Nat) /\ Len(c) = l + m
      /\ \A i \in 1 .. l + m : c[i] = IF i <= l THEN a[i] ELSE b[i - l]
  BY <1>1, <1>2, ConcatProperties
<1>4. \A i \in 1 .. l : a[i] \in Nat
  BY <1>1
<1>5. \A i \in 1 .. m : b[i] \in Nat
  BY <1>1
<1>6. \A i \in 1 .. l + m : c[i] \in Nat
  BY <1>3
<1>7. PICK x : x = After(a, n)
  OBVIOUS
<1>8. /\ x \in Seq(Nat) /\ Len(x) = IF n + 1 <= l THEN l - n ELSE 0
      /\ \A i \in 1 .. l - n : x[i] = a[n + i]
  BY <1>1, <1>4, <1>7, SubSeqProperties DEF After
<1>9. PICK y : y = After(c, n)
  OBVIOUS
<1>10. /\ y \in Seq(Nat) /\ Len(y) = IF n + 1 <= l + m THEN l + m - n ELSE 0
       /\ \A i \in 1 .. l + m - n : y[i] = c[n + i]
  BY <1>3, <1>6, <1>9, SubSeqProperties DEF After
<1>11. n >= l => y = After(b, n - l)
  <2> SUFFICES ASSUME n >= l PROVE y = After(b, n - l)
    OBVIOUS
  <2>1. PICK k \in Nat : k = n - l
    OBVIOUS
  <2>2. PICK z : z = After(b, k)
    OBVIOUS
  <2>3. /\ z \in Seq(Nat) /\ Len(z) = IF k + 1 <= m THEN m - k ELSE 0
        /\ \A i \in 1 .. m - k : z[i] = b[k + i]
    BY <1>1, <1>5, <2>2, SubSeqProperties DEF After
  <2>4. Len(y) = Len(z) /\ (Len(y) = m - k \/ Len(y) = 0)
    BY <1>10, <2>1, <2>3
  <2>5. ASSUME NEW i \in 1 .. Len(y) PROVE y[i] = z[i]
    <3>1. i \in 1 .. m - k /\ i \in 1 .. l + m - n /\ n + i \in 1 .. l + m /\ ~(n + i <= l) /\ n + i - l = k + i
      BY <2>1, <2>4
    <3>2. y[i] = c[n + i]
      BY <1>10, <3>1
    <3>3. c[n + i] = b[n + i - l]
      <4>1. PICK p \in 1 .. l + m : p = n + i /\ ~(p <= l)
        BY <3>1
      <4>2. c[p] = b[p - l]
        BY <1>3, <4>1
      <4> QED BY <4>1, <4>2
    <3>4. z[i] = b[k + i]
      BY <2>3, <3>1
    <3> QED BY <3>1, <3>2, <3>3, <3>4
  <2>6. y = z
    BY <1>10, <2>3, <2>4, <2>5, SeqEqual
  <2> QED BY <2>1, <2>2, <2>6
<1>12. n <= l => y = x \o b
  <2> SUFFICES ASSUME n <= l PROVE y = x \o b
    OBVIOUS
  <2>2. PICK z : z = x \o b
    OBVIOUS
  <2>3. /\ z \in Seq(Nat) /\ Len(z) = Len(x) + m
        /\ \A i \in 1 .. Len(x) + m : z[i] = IF i <= Len(x) THEN x[i] ELSE b[i - Len(x)]
    BY <1>1, <1>8, <2>2, ConcatProperties
  <2>4. Len(x) = l - n
    BY <1>8
  <2>5. Len(y) = l + m - n /\ Len(z) = l + m - n
    BY <1>10, <2>3, <2>4
  <2>6. ASSUME NEW i \in 1 .. Len(y) PROVE y[i] = z[i]
    <3>1. y[i] = c[n + i] /\ n + i \in 1 .. l + m
      BY <1>10, <2>5
    <3>2. CASE i <= l - n
      <4>1. z[i] = x[i] /\ x[i] = a[n + i]
        BY <1>8, <2>3, <2>4, <2>5, <3>2
      <4>2. c[n + i] = a[n + i]
        BY <1>3, <3>1, <3>2
      <4> QED BY <3>1, <4>1, <4>2
    <3>3. CASE ~(i <= l - n)
      <4>1. z[i] = b[i - (l - n)]
        BY <2>3, <2>4, <2>5, <3>3
      <4>2. c[n + i] = b[n + i - l] /\ n + i - l = i - (l - n)
        BY <1>3, <3>1, <3>3
      <4> QED BY <3>1, <4>1, <4>2
    <3> QED BY <3>2, <3>3
  <2>7. y = z
    BY <1>10, <2>3, <2>5, <2>6, SeqEqual
  <2> QED BY <2>2, <2>7
<1>13. After(a, 0) = a
  BY SubSeqFull DEF After
<1>14. n <= l => Len(x) = l - n /\ a = SubSeq(a, 1, n) \o x
  <2> SUFFICES ASSUME n <= l PROVE Len(x) = l - n /\ a = SubSeq(a, 1, n) \o x
    OBVIOUS
  <2>1. 1 \in 1 .. Len(a) + 1 /\ n \in 1 - 1 .. Len(a) /\ Len(a) \in n .. Len(a)
    BY <1>1
  <2>2. SubSeq(a, 1, n) \o SubSeq(a, n + 1, Len(a)) = SubSeq(a, 1, Len(a))
    BY <2>1, ConcatAdjacentSubSeq
  <2>3. SubSeq(a, 1, Len(a)) = a
    BY SubSeqFull
  <2>4. a = SubSeq(a, 1, n) \o x
    BY <1>7, <2>2, <2>3 DEF After
  <2> QED BY <1>8, <2>4
<1> QED BY <1>1, <1>2, <1>7, <1>8, <1>9, <1>11, <1>12, <1>13, <1>14

(* BytesIn counts the bytes in the first chunks.                           *)
LEMMA BytesFirst ==
    ASSUME NEW s \in Chunks
    PROVE  \A k \in 0 .. Len(s) : BytesIn(s)[k] = Len(First(s, k))
<1> DEFINE IsSum(f) == f = [k \in 0 .. Len(s) |-> IF k = 0 THEN 0 ELSE f[k - 1] + Len(s[k])]
<1>1. BytesIn(s) = CHOOSE f : IsSum(f)
  BY DEF BytesIn
<1>2. PICK L \in Nat : L = Len(s)
  BY DEF Chunks
<1>3. PICK g : g = [k \in 0 .. L |-> Len(First(s, k))]
  OBVIOUS
<1>4. ASSUME NEW k \in 0 .. L
      PROVE  g[k] = IF k = 0 THEN 0 ELSE g[k - 1] + Len(s[k])
  <2>1. CASE k = 0
    BY <1>3, <2>1, FirstRec, EmptySeq
  <2>2. CASE k # 0
    <3>1. PICK j \in 0 .. L - 1 : k = j + 1 /\ j = k - 1 /\ j \in 0 .. L
      BY <2>2
    <3>2. /\ First(s, j + 1) = First(s, j) \o s[j + 1]
          /\ First(s, j) \in Seq(Nat) /\ s[j + 1] \in Seq(Nat)
      BY <1>2, <3>1, FirstRec
    <3>3. PICK a \in Seq(Nat), b \in Seq(Nat) : a = First(s, j) /\ b = s[j + 1]
      BY <3>2
    <3>4. Len(a \o b) = Len(a) + Len(b)
      OBVIOUS
    <3>5. g[k] = Len(First(s, k)) /\ g[j] = Len(First(s, j))
      BY <1>3, <3>1
    <3> QED BY <2>2, <3>1, <3>2, <3>3, <3>4, <3>5
  <2> QED BY <2>1, <2>2
<1>5. IsSum(g)
  <2>1. g = [k \in 0 .. L |-> g[k]]
    BY <1>3
  <2> QED BY <1>2, <1>4, <2>1
<1>6. IsSum(BytesIn(s))
  <2> HIDE DEF IsSum
  <2> QED BY <1>1, <1>5
<1>7. PICK f : f = BytesIn(s)
  OBVIOUS
<1>8. \A k \in 0 .. L : f[k] = IF k = 0 THEN 0 ELSE f[k - 1] + Len(s[k])
  BY <1>2, <1>6, <1>7
<1> DEFINE S == {k \in Nat : k <= L => f[k] = g[k]}
<1>9. 0 \in S
  BY <1>4, <1>8
<1>10. ASSUME NEW k \in Nat, k \in S PROVE k + 1 \in S
  <2> SUFFICES ASSUME k + 1 <= L PROVE f[k + 1] = g[k + 1]
    OBVIOUS
  <2>1. PICK j \in 0 .. L : j = k + 1 /\ j # 0 /\ j - 1 = k
    OBVIOUS
  <2>2. f[j] = f[j - 1] + Len(s[j]) /\ g[j] = g[j - 1] + Len(s[j])
    BY <1>4, <1>8, <2>1
  <2>3. f[k] = g[k]
    BY <1>10
  <2> QED BY <2>1, <2>2, <2>3
<1> HIDE DEF S
<1>11. Nat \subseteq S
  BY <1>9, <1>10, NatSetInduction
<1>12. \A k \in 0 .. L : f[k] = g[k]
  BY <1>11 DEF S
<1> QED BY <1>2, <1>3, <1>7, <1>12

(* The first w chunks, and the others.                                     *)
LEMMA FirstSplit ==
    ASSUME NEW s \in Chunks, NEW w \in 0 .. Len(s)
    PROVE  /\ SubSeq(s, w + 1, Len(s)) \in Chunks
           /\ FlattenSeq(s) = First(s, w) \o FlattenSeq(SubSeq(s, w + 1, Len(s)))
<1>1. PICK L \in Nat : L = Len(s)
  BY DEF Chunks
<1>2. ASSUME NEW k \in Nat, k <= L
      PROVE  SubSeq(s, k + 1, L) \in Chunks /\ FlattenSeq(SubSeq(s, k + 1, L)) \in Seq(Nat)
  <2>1. \A i \in k + 1 .. L : s[i] \in Seq(Nat)
    BY <1>1, <1>2 DEF Chunks
  <2>2. SubSeq(s, k + 1, L) \in Chunks
    BY <2>1, SubSeqProperties DEF Chunks
  <2> QED BY <2>2, FirstRec
<1> DEFINE S == {k \in Nat : k <= L => FlattenSeq(s) = First(s, k) \o FlattenSeq(SubSeq(s, k + 1, L))}
<1>3. 0 \in S
  <2>1. SubSeq(s, 1, L) = s
    BY <1>1, SubSeqFull DEF Chunks
  <2>2. First(s, 0) = <<>> /\ FlattenSeq(s) \in Seq(Nat)
    BY FirstRec
  <2>3. <<>> \o FlattenSeq(s) = FlattenSeq(s)
    BY <2>2, ConcatEmptySeq
  <2>4. FlattenSeq(s) = First(s, 0) \o FlattenSeq(SubSeq(s, 1, L))
    BY <2>1, <2>2, <2>3, Zenon
  <2>5. SubSeq(s, 1, L) = SubSeq(s, 0 + 1, L)
    OBVIOUS
  <2> QED BY <2>4, <2>5
<1>4. ASSUME NEW k \in Nat, k \in S PROVE k + 1 \in S
  <2> SUFFICES ASSUME k + 1 <= L
               PROVE  FlattenSeq(s) = First(s, k + 1) \o FlattenSeq(SubSeq(s, (k + 1) + 1, L))
    OBVIOUS
  <2>1. PICK t, u : t = SubSeq(s, k + 1, L) /\ u = SubSeq(s, (k + 1) + 1, L)
    OBVIOUS
  <2>2. /\ t \in Chunks /\ u \in Chunks /\ FlattenSeq(u) \in Seq(Nat)
    <3>1. k <= L /\ k + 1 \in Nat
      BY <1>1
    <3>2. t \in Chunks
      BY <1>2, <2>1, <3>1
    <3>3. u \in Chunks /\ FlattenSeq(u) \in Seq(Nat)
      BY <1>2, <2>1, <3>1
    <3> QED BY <3>2, <3>3
  <2>3. t # <<>> /\ Head(t) = s[k + 1] /\ Tail(t) = u
    <3>1. k + 1 \in 1 .. Len(s) /\ L \in k + 1 .. Len(s)
      BY <1>1
    <3>2. Head(t) = s[k + 1] /\ Tail(t) = u
      BY <2>1, <3>1, HeadTailOfSubSeq DEF Chunks
    <3>3. Len(t) # 0
      <4>1. \A i \in k + 1 .. L : s[i] \in Seq(Nat)
        BY <1>1 DEF Chunks
      <4>2. Len(t) = IF k + 1 <= L THEN L - (k + 1) + 1 ELSE 0
        BY <2>1, <4>1, SubSeqProperties
      <4> QED BY <4>2
    <3> QED BY <3>2, <3>3, EmptySeq
  <2>4. FlattenSeq(t) = s[k + 1] \o FlattenSeq(u)
    BY <2>2, <2>3, FirstTail
  <2>5. /\ First(s, k + 1) = First(s, k) \o s[k + 1]
        /\ First(s, k) \in Seq(Nat) /\ s[k + 1] \in Seq(Nat)
    <3>1. k \in 0 .. Len(s) - 1 /\ k \in 0 .. Len(s)
      BY <1>1
    <3> QED BY <3>1, FirstRec
  <2>6. FlattenSeq(s) = First(s, k) \o FlattenSeq(t)
    BY <1>4, <2>1
  <2>7. PICK a \in Seq(Nat), b \in Seq(Nat), c \in Seq(Nat) :
          a = First(s, k) /\ b = s[k + 1] /\ c = FlattenSeq(u)
    BY <2>2, <2>5
  <2>8. (a \o b) \o c = a \o (b \o c)
    BY ConcatNat
  <2> QED BY <2>1, <2>4, <2>5, <2>6, <2>7, <2>8, Zenon
<1> HIDE DEF S
<1>5. Nat \subseteq S
  BY <1>3, <1>4, NatSetInduction
<1>6. w \in S /\ w <= L /\ w \in Nat
  BY <1>1, <1>5
<1>7. FlattenSeq(s) = First(s, w) \o FlattenSeq(SubSeq(s, w + 1, L))
  BY <1>6 DEF S
<1> QED BY <1>1, <1>2, <1>6, <1>7

(* The chunks that are within the first n bytes.                           *)
LEMMA WholeChunks ==
    ASSUME NEW s \in Chunks, NEW n \in Nat
    PROVE  \E w \in 0 .. Len(s) :
             /\ Cardinality({k \in 1 .. Len(s) : BytesIn(s)[k] <= n}) = w
             /\ Len(First(s, w)) <= n
             /\ w < Len(s) => n < Len(First(s, w)) + Len(s[w + 1])
<1>1. PICK L \in Nat : L = Len(s)
  BY DEF Chunks
<1>2. PICK B : B = [k \in 0 .. L |-> Len(First(s, k))]
  OBVIOUS
<1>3. /\ \A k \in 0 .. L : B[k] = Len(First(s, k)) /\ B[k] \in Nat
      /\ B[0] = 0
  <2>1. \A k \in 0 .. L : First(s, k) \in Seq(Nat)
    BY <1>1, FirstRec
  <2>2. First(s, 0) = <<>> /\ Len(<<>>) = 0
    BY FirstRec, EmptySeq
  <2> QED BY <1>1, <1>2, <2>1, <2>2
<1>4. ASSUME NEW k \in 0 .. L - 1
      PROVE  B[k + 1] = B[k] + Len(s[k + 1]) /\ Len(s[k + 1]) \in Nat
  <2>1. /\ First(s, k + 1) = First(s, k) \o s[k + 1]
        /\ First(s, k) \in Seq(Nat) /\ s[k + 1] \in Seq(Nat)
    <3>1. k \in 0 .. Len(s) - 1 /\ k \in 0 .. Len(s)
      BY <1>1
    <3> QED BY <3>1, FirstRec
  <2>2. PICK a \in Seq(Nat), b \in Seq(Nat) : a = First(s, k) /\ b = s[k + 1]
    BY <2>1
  <2>3. Len(a \o b) = Len(a) + Len(b) /\ Len(b) \in Nat
    OBVIOUS
  <2>4. k \in 0 .. L /\ k + 1 \in 0 .. L
    OBVIOUS
  <2>5. B[k] = Len(a) /\ B[k + 1] = Len(First(s, k + 1))
    BY <1>3, <2>2, <2>4
  <2>6. First(s, k + 1) = a \o b
    BY <2>1, <2>2
  <2>7. B[k + 1] = Len(a \o b)
    BY <2>5, <2>6
  <2> QED BY <2>2, <2>3, <2>5, <2>7
<1> DEFINE S == {m \in Nat : m <= L =>
                   \E w \in 0 .. m : /\ \A k \in 0 .. w : B[k] <= n
                                     /\ \A k \in w + 1 .. m : B[k] > n}
<1>5. 0 \in S
  BY <1>3
<1>6. ASSUME NEW m \in Nat, m \in S PROVE m + 1 \in S
  <2> SUFFICES ASSUME m + 1 <= L
               PROVE  \E w \in 0 .. m + 1 : /\ \A k \in 0 .. w : B[k] <= n
                                            /\ \A k \in w + 1 .. m + 1 : B[k] > n
    OBVIOUS
  <2>1. PICK w \in 0 .. m : /\ \A k \in 0 .. w : B[k] <= n
                            /\ \A k \in w + 1 .. m : B[k] > n
    BY <1>6
  <2>2. B[m + 1] >= B[m] /\ B[m] \in Nat /\ B[m + 1] \in Nat
    <3>1. m \in 0 .. L - 1 /\ m \in 0 .. L /\ m + 1 \in 0 .. L
      OBVIOUS
    <3>2. B[m] \in Nat /\ B[m + 1] \in Nat
      BY <1>3, <3>1
    <3>3. B[m + 1] = B[m] + Len(s[m + 1]) /\ Len(s[m + 1]) \in Nat
      BY <1>4, <3>1
    <3> QED BY <3>2, <3>3
  <2>3. CASE B[m + 1] > n
    <3>1. \A k \in w + 1 .. m + 1 : k \in w + 1 .. m \/ k = m + 1
      OBVIOUS
    <3>2. \A k \in w + 1 .. m + 1 : B[k] > n
      BY <2>1, <2>3, <3>1
    <3> QED BY <2>1, <3>2
  <2>4. CASE ~(B[m + 1] > n)
    <3>1. w = m
      <4> SUFFICES ASSUME w # m PROVE FALSE
        OBVIOUS
      <4>1. m \in w + 1 .. m
        OBVIOUS
      <4>2. B[m] > n
        BY <2>1, <4>1
      <4> QED BY <2>2, <2>4, <4>2
    <3>2. \A k \in 0 .. m + 1 : k \in 0 .. w \/ k = m + 1
      BY <3>1
    <3>3. \A k \in 0 .. m + 1 : B[k] <= n
      BY <2>1, <2>2, <2>4, <3>2
    <3> QED BY <3>3
  <2> QED BY <2>3, <2>4
<1> HIDE DEF S
<1>7. L \in S
  BY <1>5, <1>6, NatSetInduction
<1>8. PICK w \in 0 .. L : /\ \A k \in 0 .. w : B[k] <= n
                          /\ \A k \in w + 1 .. L : B[k] > n
  BY <1>7 DEF S
<1>9. \A k \in 1 .. L : BytesIn(s)[k] = B[k]
  BY <1>1, <1>3, BytesFirst
<1>10. {k \in 1 .. L : BytesIn(s)[k] <= n} = 1 .. w
  <2>1. ASSUME NEW k \in 1 .. L PROVE BytesIn(s)[k] <= n <=> k \in 1 .. w
    <3>1. k \in 0 .. L /\ B[k] \in Nat /\ (k \in 0 .. w \/ k \in w + 1 .. L)
      BY <1>3
    <3> QED BY <1>8, <1>9, <3>1
  <2>2. 1 .. w \subseteq 1 .. L
    OBVIOUS
  <2> QED BY <2>1, <2>2
<1>11. Cardinality(1 .. w) = w
  <2>1. Cardinality(1 .. w) = IF 1 > w THEN 0 ELSE w - 1 + 1
    BY FS_Interval
  <2> QED BY <2>1
<1>12. B[w] <= n /\ (w < L => n < B[w] + Len(s[w + 1]))
  <2>1. w \in 0 .. w /\ w \in 0 .. L
    OBVIOUS
  <2>2. ASSUME w < L PROVE n < B[w] + Len(s[w + 1])
    <3>1. w \in 0 .. L - 1 /\ w + 1 \in w + 1 .. L
      BY <2>2
    <3> QED BY <1>3, <1>4, <1>8, <3>1
  <2> QED BY <1>8, <2>1, <2>2
<1> QED BY <1>1, <1>3, <1>10, <1>11, <1>12

(* Past the first of two sequences.                                        *)
LEMMA AfterPast ==
    ASSUME NEW a \in Seq(Nat), NEW b \in Seq(Nat), NEW n \in Nat, n >= Len(a)
    PROVE  After(a \o b, n) = After(b, n - Len(a))
BY AfterConcat

(* Within the first of two sequences.                                      *)
LEMMA AfterWithin ==
    ASSUME NEW a \in Seq(Nat), NEW b \in Seq(Nat), NEW n \in Nat, n <= Len(a)
    PROVE  After(a, n) \in Seq(Nat) /\ After(a \o b, n) = After(a, n) \o b
BY AfterConcat

(* Without takes the first n bytes.                                        *)
LEMMA WithoutAfter ==
    ASSUME NEW s \in Chunks, NEW n \in Nat, n <= Len(FlattenSeq(s))
    PROVE  Without(s, n) \in Chunks /\ FlattenSeq(Without(s, n)) = After(FlattenSeq(s), n)
<1>1. PICK L \in Nat : L = Len(s)
  BY DEF Chunks
<1>2. PICK w \in 0 .. Len(s) :
             /\ Cardinality({k \in 1 .. Len(s) : BytesIn(s)[k] <= n}) = w
             /\ Len(First(s, w)) <= n
             /\ w < Len(s) => n < Len(First(s, w)) + Len(s[w + 1])
  BY WholeChunks
<1>3. PICK into : into = n - BytesIn(s)[w]
  OBVIOUS
<1>4. PICK rest : rest = SubSeq(s, w + 1, Len(s))
  OBVIOUS
<1>5. Without(s, n) = IF into = 0 THEN rest
                      ELSE <<SubSeq(Head(rest), into + 1, Len(Head(rest)))>> \o Tail(rest)
  BY <1>2, <1>3, <1>4 DEF Without
<1>6. rest \in Chunks /\ FlattenSeq(s) = First(s, w) \o FlattenSeq(rest)
  BY <1>4, FirstSplit
<1>7. FlattenSeq(rest) \in Seq(Nat) /\ First(s, w) \in Seq(Nat)
  BY <1>2, <1>6, FirstRec
<1>8. PICK a \in Seq(Nat), b \in Seq(Nat) : a = First(s, w) /\ b = FlattenSeq(rest)
  BY <1>7
<1>9. Len(a) <= n /\ into = n - Len(a) /\ Len(a) \in Nat /\ into \in Nat
  BY <1>2, <1>3, <1>8, BytesFirst
<1>10. After(FlattenSeq(s), n) = After(b, into)
  <2>1. After(a \o b, n) = After(b, n - Len(a))
    <3>1. n >= Len(a)
      BY <1>9
    <3> QED BY <3>1, AfterPast
  <2> QED BY <1>6, <1>8, <1>9, <2>1
<1>11. CASE into = 0
  BY <1>5, <1>6, <1>8, <1>10, <1>11, AfterConcat
<1>12. CASE into # 0
  <2>1. Len(a \o b) = Len(a) + Len(b) /\ Len(b) \in Nat
    OBVIOUS
  <2>2. n <= Len(a) + Len(b)
    BY <1>6, <1>8, <2>1
  <2>3. rest # <<>>
    <3> SUFFICES ASSUME rest = <<>> PROVE FALSE
      OBVIOUS
    <3>1. FlattenSeq(rest) = First(rest, Len(rest)) /\ First(rest, 0) = <<>> /\ Len(rest) = 0
      BY <1>6, FirstRec, EmptySeq
    <3>2. b = <<>> /\ Len(b) = 0
      BY <1>8, <3>1, EmptySeq
    <3> QED BY <1>9, <1>12, <2>2, <3>2
  <2>4. w < L
    <3> SUFFICES ASSUME w = L PROVE FALSE
      BY <1>1
    <3>1. rest = <<>>
      BY <1>1, <1>4, SubSeqEmpty
    <3> QED BY <2>3, <3>1
  <2>5. PICK h, t : h = Head(rest) /\ t = Tail(rest)
    OBVIOUS
  <2>6. h \in Seq(Nat) /\ t \in Chunks /\ b = h \o FlattenSeq(t) /\ FlattenSeq(t) \in Seq(Nat)
    BY <1>6, <1>8, <2>3, <2>5, FirstTail, FirstRec
  <2>7. h = s[w + 1]
    <3>1. w + 1 \in 1 .. Len(s) /\ Len(s) \in w + 1 .. Len(s)
      BY <1>1, <2>4
    <3> QED BY <1>4, <2>5, <3>1, HeadTailOfSubSeq DEF Chunks
  <2>8. into < Len(h) /\ Len(h) \in Nat
    BY <1>1, <1>2, <1>8, <1>9, <2>4, <2>6, <2>7
  <2>9. PICK c : c = After(h, into)
    OBVIOUS
  <2>10. c \in Seq(Nat) /\ After(b, into) = c \o FlattenSeq(t)
    <3>1. PICK ft \in Seq(Nat) : ft = FlattenSeq(t)
      BY <2>6
    <3>2. After(h, into) \in Seq(Nat) /\ After(h \o ft, into) = After(h, into) \o ft
      <4>1. into \in Nat /\ into <= Len(h) /\ h \in Seq(Nat)
        BY <1>9, <2>6, <2>8
      <4> QED BY <4>1, AfterWithin
    <3> QED BY <2>6, <2>9, <3>1, <3>2
  <2>11. PICK x : x = <<c>> \o t
    OBVIOUS
  <2>12. Without(s, n) = x
    BY <1>5, <1>12, <2>5, <2>9, <2>11 DEF After
  <2>13. <<c>> \in Chunks /\ Len(<<c>>) = 1 /\ <<c>>[1] = c
    BY <2>10 DEF Chunks
  <2>14. x \in Chunks /\ Len(x) = Len(t) + 1 /\ x[1] = c /\ \A i \in 1 .. Len(t) : x[i + 1] = t[i]
    <3>1. PICK o \in Seq(Seq(Nat)) : o = <<c>>
      BY <2>13 DEF Chunks
    <3>2. /\ x \in Seq(Seq(Nat)) /\ Len(x) = 1 + Len(t)
          /\ \A i \in 1 .. 1 + Len(t) : x[i] = IF i <= 1 THEN o[i] ELSE t[i - 1]
      BY <2>6, <2>11, <2>13, <3>1, ConcatProperties DEF Chunks
    <3>3. Len(t) \in Nat
      BY <2>6 DEF Chunks
    <3>4. x[1] = c
      BY <2>13, <3>1, <3>2, <3>3
    <3>5. ASSUME NEW i \in 1 .. Len(t) PROVE x[i + 1] = t[i]
      <4>1. PICK j \in 1 .. 1 + Len(t) : j = i + 1 /\ ~(j <= 1) /\ j - 1 = i
        BY <3>3
      <4>2. x[j] = t[j - 1]
        BY <3>2, <4>1
      <4> QED BY <4>1, <4>2
    <3> QED BY <3>2, <3>3, <3>4, <3>5 DEF Chunks
  <2>15. x # <<>> /\ Head(x) = c /\ Tail(x) = t
    <3>0. Len(t) \in Nat
      BY <2>6 DEF Chunks
    <3>1. x # <<>>
      <4> SUFFICES ASSUME x = <<>> PROVE FALSE
        OBVIOUS
      <4> QED BY <2>14, <3>0, EmptySeq
    <3>2. Head(x) = c
      BY <2>14, <3>1 DEF Chunks
    <3>3. /\ Tail(x) \in Seq(Seq(Nat)) /\ Len(Tail(x)) = Len(t)
          /\ \A i \in 1 .. Len(Tail(x)) : Tail(x)[i] = t[i]
      BY <2>14, <3>0, <3>1, HeadTailProperties DEF Chunks
    <3>4. Tail(x) = t
      BY <2>6, <3>3, SeqEqual DEF Chunks
    <3> QED BY <3>1, <3>2, <3>4
  <2>16. FlattenSeq(x) = c \o FlattenSeq(t)
    BY <2>14, <2>15, FirstTail
  <2> QED BY <1>10, <2>10, <2>12, <2>14, <2>16
<1> QED BY <1>11, <1>12

-----------------------------------------------------------------------------
(* The operations of a page.                                               *)

Op == [code : Opcode, on : Nat, ud : UserData, at : Places, parts : 0 .. 2,
       finals : 0 .. 2, said : BOOLEAN, late : BOOLEAN]

Obj == [kind : ObjKind, in : BOOLEAN, open : BOOLEAN, notify : Nat,
        rx : Seq(Seq(Nat)), sent : Nat, got : Seq(Nat)]

IoTypes ==
    /\ plan \in IoPlans
    /\ ops \in Seq(Op) /\ pend \subseteq DOMAIN ops
    /\ objs \in Seq(Obj)
    /\ \A i \in DOMAIN ops : ops[i].on <= Len(objs)
    /\ queue \in Seq({"io", "drop"} \X Nat)
    /\ drops \in Seq({"loading", "told", "lost"}) /\ mixed \in BOOLEAN
    /\ stash \subseteq (DOMAIN drops) \X {"text", "file"}

(* Where an operation can be, by the form of its answer, and when it has   *)
(* had a last completion.                                                  *)
OpOK(op) ==
    LET form == Table[op.code].form
    IN  /\ op.at = "timer" => form = "timer"
        /\ op.at = "promise" => (form = "parts" => op.parts > 0) /\ (form = "nfc" => op.said)
        /\ op.at \in {"connect", "linked"} \/ op.late => form = "connect"
        /\ op.at \in {"watch", "linked"} => op.said
        /\ op.at = "done" => op.said \/ form = "log"
        /\ op.finals > 1 => (op.late /\ form = "connect") \/ form \in {"geo", "idle"}
        /\ op.finals > 0 => \/ op.at \in {"done", "linked"} \/ form \in {"geo", "idle"}
                            \/ op.late /\ form = "connect"

(* What cancel can still end.                                              *)
Pending(op) == op.at = "timer" \/ (op.at = "connect" /\ ~op.late)

OpsOK ==
    /\ \A i \in DOMAIN ops : OpOK(ops[i]) /\ (i \in pend <=> Pending(ops[i]))
    /\ \A h \in DOMAIN objs : objs[h].notify # 0 =>
         LET i == objs[h].notify
         IN  i \in DOMAIN ops /\ Table[ops[i].code].form = "listen" /\ ops[i].said

(* The bytes that wait in rx are the last that came; those read came       *)
(* before, in order, and all of them did unless MIDI messages were cut.    *)
StreamOK(x) ==
    \E m \in 0 .. x.sent :
      /\ FlattenSeq(x.rx) = [k \in 1 .. m |-> (x.sent - m) + k]
      /\ \A j \in DOMAIN x.got : x.got[j] <= x.sent - m
      /\ \A j, k \in DOMAIN x.got : j < k => x.got[j] < x.got[k]
      /\ x.kind # "midi_in" => x.got = [k \in 1 .. x.sent - m |-> k]

DropsOK ==
    mixed \/ /\ \A x \in stash : x[1] = Len(drops)
             /\ \A d \in DOMAIN drops : drops[d] = "loading" => d = Len(drops)

IoInv == IoTypes /\ OpsOK /\ (\A h \in DOMAIN objs : StreamOK(objs[h])) /\ DropsOK

(* What the parts of a step must show.                                     *)
ObjsGood ==
    /\ objs' \in Seq(Obj) /\ Len(objs) <= Len(objs')
    /\ \A h \in DOMAIN objs' : StreamOK(objs'[h])

NotifyKept ==
    \A h \in DOMAIN objs' : objs'[h].notify # 0 =>
      \/ h \in DOMAIN objs /\ objs'[h].notify = objs[h].notify
      \/ LET i == objs'[h].notify
         IN  i \in DOMAIN ops /\ Table[ops[i].code].form = "listen" /\ ops'[i].said

OpsGood ==
    /\ ops' \in Seq(Op) /\ Len(ops) <= Len(ops') /\ pend' \subseteq DOMAIN ops'
    /\ \A i \in DOMAIN ops' : OpOK(ops'[i]) /\ (i \in pend' <=> Pending(ops'[i]))
                              /\ ops'[i].on <= Len(objs')
    /\ \A i \in DOMAIN ops : ops'[i].code = ops[i].code /\ (ops[i].said => ops'[i].said)

EventsOf == {"io", "drop"} \X Nat

(* A step whose parts show as much keeps the invariant.                    *)
LEMMA GoodStep ==
    ASSUME IoInv, ObjsGood, NotifyKept, OpsGood, queue' \in Seq(EventsOf),
           UNCHANGED <<plan, dropVars>>
    PROVE  IoInv'
<1>1. stash' = stash /\ drops' = drops /\ mixed' = mixed /\ plan' = plan
  BY DEF dropVars
<1>2. DropsOK'
  BY <1>1 DEF IoInv, DropsOK
<1>3. IoTypes'
  BY <1>1 DEF IoInv, IoTypes, ObjsGood, OpsGood, EventsOf
<1>4. OpsOK'
  <2>1. \A i \in DOMAIN ops' : OpOK(ops'[i]) /\ (i \in pend' <=> Pending(ops'[i]))
    BY DEF OpsGood
  <2>2. ASSUME NEW h \in DOMAIN objs', objs'[h].notify # 0
        PROVE  LET i == objs'[h].notify
               IN  i \in DOMAIN ops' /\ Table[ops'[i].code].form = "listen" /\ ops'[i].said
    <3>1. PICK i : i = objs'[h].notify
      OBVIOUS
    <3>2. \/ h \in DOMAIN objs /\ objs[h].notify = i
          \/ i \in DOMAIN ops /\ Table[ops[i].code].form = "listen" /\ ops'[i].said
      BY <2>2, <3>1 DEF NotifyKept
    <3>3. /\ i \in DOMAIN ops /\ Table[ops[i].code].form = "listen"
          /\ ops[i].said \/ ops'[i].said
      BY <2>2, <3>1, <3>2 DEF IoInv, OpsOK
    <3>4. ops'[i].code = ops[i].code /\ ops'[i].said
      BY <3>3 DEF OpsGood
    <3>5. i \in DOMAIN ops'
      <4>1. DOMAIN ops = 1 .. Len(ops) /\ DOMAIN ops' = 1 .. Len(ops') /\ Len(ops) <= Len(ops')
            /\ Len(ops) \in Nat /\ Len(ops') \in Nat
        BY DEF IoInv, IoTypes, OpsGood
      <4> QED BY <3>3, <4>1
    <3> QED BY <3>1, <3>3, <3>4, <3>5
  <2> QED BY <2>1, <2>2 DEF OpsOK
<1>5. \A h \in DOMAIN objs' : StreamOK(objs'[h])
  BY DEF ObjsGood
<1> QED BY <1>2, <1>3, <1>4, <1>5 DEF IoInv

(* The objects stay.                                                       *)
LEMMA SameObjs ==
    ASSUME IoInv, objs' = objs
    PROVE  ObjsGood /\ NotifyKept /\ Len(objs) \in Nat
BY DEF IoInv, IoTypes, ObjsGood, NotifyKept

(* A new operation.                                                        *)
LEMMA OpAppended ==
    ASSUME IoInv, NEW r \in Op, OpOK(r), ops' = Append(ops, r),
           Len(objs) <= Len(objs'), Len(objs) \in Nat, Len(objs') \in Nat, r.on <= Len(objs'),
           \/ pend' = pend /\ ~Pending(r)
           \/ pend' = pend \cup {Self} /\ Pending(r)
    PROVE  OpsGood
<1>1. PICK n \in Nat : n = Len(ops)
  BY DEF IoInv, IoTypes
<1>2. /\ ops' \in Seq(Op) /\ Len(ops') = n + 1 /\ ops'[n + 1] = r
      /\ \A i \in 1 .. n : ops'[i] = ops[i]
      /\ DOMAIN ops = 1 .. n /\ DOMAIN ops' = 1 .. n + 1
  <2>1. ops \in Seq(Op)
    BY DEF IoInv, IoTypes
  <2> QED BY <1>1, <2>1, AppendProperties
<1>3. pend \subseteq 1 .. n /\ \A i \in 1 .. n : ops[i].on <= Len(objs) /\ ops[i].on \in Nat
  <2>1. \A i \in 1 .. n : ops[i] \in Op
    BY <1>2 DEF IoInv, IoTypes
  <2>2. \A x \in Op : x.on \in Nat
    BY DEF Op
  <2> QED BY <1>2, <2>1, <2>2 DEF IoInv, IoTypes
<1>4. \A i \in 1 .. n : OpOK(ops[i]) /\ (i \in pend <=> Pending(ops[i]))
  BY <1>2 DEF IoInv, OpsOK
<1>5. Self = n + 1
  BY <1>1 DEF Self
<1>6. pend' \subseteq DOMAIN ops'
  <2>1. pend' \subseteq pend \cup {n + 1}
    BY <1>5
  <2>2. 1 .. n \subseteq 1 .. n + 1 /\ n + 1 \in 1 .. n + 1
    OBVIOUS
  <2> QED BY <1>2, <1>3, <2>1, <2>2
<1>7. ASSUME NEW i \in DOMAIN ops'
      PROVE  OpOK(ops'[i]) /\ (i \in pend' <=> Pending(ops'[i])) /\ ops'[i].on <= Len(objs')
  <2>1. CASE i = n + 1
    <3>1. i \notin pend
      BY <1>3, <2>1
    <3> QED BY <1>2, <1>5, <2>1, <3>1
  <2>2. CASE i \in 1 .. n
    <3>1. i \in pend' <=> i \in pend
      BY <1>5, <2>2
    <3>2. ops[i].on <= Len(objs')
      BY <1>3, <2>2
    <3> QED BY <1>2, <1>4, <2>2, <3>1, <3>2
  <2> QED BY <1>2, <2>1, <2>2
<1>8. \A i \in DOMAIN ops : ops'[i].code = ops[i].code /\ (ops[i].said => ops'[i].said)
  BY <1>2
<1> QED BY <1>1, <1>2, <1>6, <1>7, <1>8 DEF OpsGood

(* One operation goes on.                                                  *)
LEMMA OpReplaced ==
    ASSUME IoInv, NEW i \in DOMAIN ops, NEW r \in Op, OpOK(r), ops' = [ops EXCEPT ![i] = r],
           r.code = ops[i].code, r.on = ops[i].on, ops[i].said => r.said,
           Len(objs) <= Len(objs'), Len(objs) \in Nat, Len(objs') \in Nat,
           \/ pend' = pend /\ (Pending(r) <=> Pending(ops[i]))
           \/ pend' = pend \ {i} /\ ~Pending(r)
    PROVE  OpsGood
<1>1. ops \in Seq(Op) /\ pend \subseteq DOMAIN ops
  BY DEF IoInv, IoTypes
<1>2. /\ ops' \in Seq(Op) /\ Len(ops') = Len(ops) /\ Len(ops) \in Nat
      /\ DOMAIN ops = 1 .. Len(ops) /\ DOMAIN ops' = DOMAIN ops
      /\ ops'[i] = r /\ \A j \in DOMAIN ops : j # i => ops'[j] = ops[j]
  BY <1>1
<1>3. \A j \in DOMAIN ops : ops[j].on <= Len(objs) /\ ops[j].on \in Nat
  <2>1. \A j \in DOMAIN ops : ops[j] \in Op
    BY <1>1
  <2>2. \A x \in Op : x.on \in Nat
    BY DEF Op
  <2> QED BY <2>1, <2>2 DEF IoInv, IoTypes
<1>4. \A j \in DOMAIN ops : OpOK(ops[j]) /\ (j \in pend <=> Pending(ops[j]))
  BY DEF IoInv, OpsOK
<1>5. ASSUME NEW j \in DOMAIN ops
      PROVE  /\ OpOK(ops'[j]) /\ (j \in pend' <=> Pending(ops'[j])) /\ ops'[j].on <= Len(objs')
             /\ ops'[j].code = ops[j].code /\ (ops[j].said => ops'[j].said)
  <2>0. ops[j].on <= Len(objs')
    BY <1>3
  <2>1. CASE j = i
    BY <1>2, <1>4, <2>0, <2>1
  <2>2. CASE j # i
    <3>1. j \in pend' <=> j \in pend
      BY <2>2
    <3> QED BY <1>2, <1>4, <2>0, <2>2, <3>1
  <2> QED BY <2>1, <2>2
<1>6. pend' \subseteq DOMAIN ops'
  BY <1>1, <1>2
<1> QED BY <1>2, <1>5, <1>6 DEF OpsGood

(* The record of an operation that completes.                              *)
SaidOf(o, at, more) ==
    [o EXCEPT !.at = at, !.said = TRUE, !.finals = IF more \/ @ = 2 THEN @ ELSE @ + 1]

SaidIs(r, o, at, more) ==
    /\ r \in Op /\ r.code = o.code /\ r.on = o.on /\ r.late = o.late
    /\ r.at = at /\ r.said = TRUE
    /\ r.finals = IF more \/ o.finals = 2 THEN o.finals ELSE o.finals + 1

NewIs(o, code, on, at) ==
    /\ o \in Op /\ o.code = code /\ o.on = on /\ o.at = at
    /\ o.finals = 0 /\ o.said = FALSE /\ o.late = FALSE

(* A record that completes.                                                *)
LEMMA SaidFacts ==
    ASSUME NEW o \in Op, NEW at \in Places, NEW more \in BOOLEAN
    PROVE  SaidIs(SaidOf(o, at, more), o, at, more)
<1>0. PICK r : r = SaidOf(o, at, more)
  OBVIOUS
<1>1. PICK f : f = IF more \/ o.finals = 2 THEN o.finals ELSE o.finals + 1
  OBVIOUS
<1>2. o.finals \in 0 .. 2
  BY DEF Op
<1>3. f \in 0 .. 2
  BY <1>1, <1>2
<1>4. r = [o EXCEPT !.at = at, !.said = TRUE, !.finals = f]
  BY <1>0, <1>1 DEF SaidOf
<1>5. r \in Op /\ r.code = o.code /\ r.on = o.on /\ r.late = o.late
      /\ r.at = at /\ r.said = TRUE /\ r.finals = f
  BY <1>3, <1>4 DEF Op
<1> QED BY <1>0, <1>1, <1>5 DEF SaidIs

(* A record that begins.                                                   *)
LEMMA NewFacts ==
    ASSUME NEW code \in Opcode, NEW on \in Nat, NEW ud \in UserData, NEW at \in Places,
           NEW parts \in 0 .. 2
    PROVE  /\ NewIs(NewOp(code, on, ud, at, parts), code, on, at)
           /\ NewOp(code, on, ud, at, parts).parts = parts
BY DEF NewOp, NewIs, Op

(* An operation was added, or one went on, and it completed.               *)
AddedOp(code, on, at, more) ==
    \E r \in Op : /\ ops' = Append(ops, r) /\ r.code = code /\ r.on = on /\ r.at = at
                  /\ r.said = TRUE /\ r.late = FALSE /\ r.finals = IF more THEN 0 ELSE 1

EndedOp(i, o, at, more) ==
    \E r \in Op : /\ ops' = [ops EXCEPT ![i] = r] /\ r.code = o.code /\ r.on = o.on
                  /\ r.at = at /\ r.said = TRUE /\ r.late = o.late
                  /\ r.finals = IF more \/ o.finals = 2 THEN o.finals ELSE o.finals + 1

(* A new operation completes: the event and the record.                    *)
LEMMA SaysNew ==
    ASSUME IoInv, NEW code \in Opcode, NEW on \in Nat, NEW ud \in UserData, NEW at \in Places,
           NEW more \in BOOLEAN, NEW parts \in 0 .. 2,
           Says(Submitted(code, on, ud, at, parts), Self, at, more)
    PROVE  /\ queue' \in Seq(EventsOf)
           /\ AddedOp(code, on, at, more)
<1>1. PICK n \in Nat : n = Len(ops)
  BY DEF IoInv, IoTypes
<1>2. Self = n + 1 /\ queue' = Append(queue, <<"io", n + 1>>)
  BY <1>1 DEF Says, Self
<1>3. queue' \in Seq(EventsOf)
  <2>1. queue \in Seq(EventsOf) /\ <<"io", n + 1>> \in EventsOf
    BY DEF IoInv, IoTypes, EventsOf
  <2> QED BY <1>2, <2>1
<1>4. PICK o : o = NewOp(code, on, ud, at, parts)
  OBVIOUS
<1>5. /\ o \in Op /\ o.code = code /\ o.on = on /\ o.at = at
      /\ o.finals = 0 /\ o.said = FALSE /\ o.late = FALSE
  <2>2. NewIs(NewOp(code, on, ud, at, parts), code, on, at)
    BY NewFacts
  <2>3. NewIs(o, code, on, at)
    BY <1>4, <2>2, Zenon
  <2> QED BY <2>3 DEF NewIs
<1>6. PICK all : all = Append(ops, o)
  OBVIOUS
<1>7. ops' = [all EXCEPT ![n + 1].at = at, ![n + 1].said = TRUE,
                         ![n + 1].finals = IF more \/ @ = 2 THEN @ ELSE @ + 1]
  BY <1>2, <1>4, <1>6 DEF Says, Submitted
<1>8. /\ all \in Seq(Op) /\ Len(all) = n + 1 /\ all[n + 1] = o
      /\ DOMAIN all = 1 .. n + 1 /\ \A i \in 1 .. n : all[i] = ops[i]
  <2>1. ops \in Seq(Op)
    BY DEF IoInv, IoTypes
  <2> QED BY <1>1, <1>5, <1>6, <2>1, AppendProperties
<1>9. PICK r : r = SaidOf(o, at, more)
  OBVIOUS
<1>10. /\ r \in Op /\ r.code = code /\ r.on = on /\ r.late = FALSE
       /\ r.at = at /\ r.said = TRUE /\ r.finals = IF more THEN 0 ELSE 1
  <2>1. /\ r \in Op /\ r.code = o.code /\ r.on = o.on /\ r.late = o.late
        /\ r.at = at /\ r.said = TRUE
        /\ r.finals = IF more \/ o.finals = 2 THEN o.finals ELSE o.finals + 1
    <3>1. SaidIs(SaidOf(o, at, more), o, at, more)
      BY <1>5, SaidFacts
    <3>2. SaidIs(r, o, at, more)
      BY <1>9, <3>1, Zenon
    <3> QED BY <3>2 DEF SaidIs
  <2> QED BY <1>5, <2>1
<1>11. ops' = [all EXCEPT ![n + 1] = r]
  BY <1>7, <1>8, <1>9 DEF SaidOf
<1>12. PICK t : t = Append(ops, r)
  OBVIOUS
<1>13. ops' = t
  <2>1. ops \in Seq(Op)
    BY DEF IoInv, IoTypes
  <2>2. /\ t \in Seq(Op) /\ Len(t) = n + 1 /\ t[n + 1] = r /\ \A i \in 1 .. n : t[i] = ops[i]
    BY <1>1, <1>10, <1>12, <2>1, AppendProperties
  <2>3. /\ ops' \in Seq(Op) /\ Len(ops') = n + 1
        /\ \A i \in 1 .. n + 1 : ops'[i] = IF i = n + 1 THEN r ELSE all[i]
    BY <1>8, <1>10, <1>11, ExceptSeq
  <2>4. \A i \in 1 .. n + 1 : ops'[i] = t[i]
    <3>1. \A i \in 1 .. n + 1 : i = n + 1 \/ i \in 1 .. n
      OBVIOUS
    <3> QED BY <1>8, <2>2, <2>3, <3>1
  <2> QED BY <2>2, <2>3, <2>4, SeqEqual
<1> QED BY <1>3, <1>10, <1>12, <1>13 DEF AddedOp

(* all are the operations, but o for i.                                    *)
But(all, i, o) == all = [ops EXCEPT ![i] = o]

(* An operation there was completes: the event and the record.             *)
LEMMA SaysOld ==
    ASSUME IoInv, NEW i \in DOMAIN ops, NEW o \in Op, NEW all, But(all, i, o),
           NEW at \in Places, NEW more \in BOOLEAN, Says(all, i, at, more)
    PROVE  /\ queue' \in Seq(EventsOf)
           /\ EndedOp(i, o, at, more)
<1>1. ops \in Seq(Op) /\ i \in Nat /\ queue \in Seq(EventsOf)
  BY DEF IoInv, IoTypes, EventsOf
<1>2. queue' \in Seq(EventsOf)
  <2>1. <<"io", i>> \in EventsOf /\ queue' = Append(queue, <<"io", i>>)
    BY <1>1 DEF EventsOf, Says
  <2> QED BY <1>1, <2>1
<1>3. PICK r : r = SaidOf(o, at, more)
  OBVIOUS
<1>4. /\ r \in Op /\ r.code = o.code /\ r.on = o.on /\ r.late = o.late
      /\ r.at = at /\ r.said = TRUE
      /\ r.finals = IF more \/ o.finals = 2 THEN o.finals ELSE o.finals + 1
  <2>1. SaidIs(SaidOf(o, at, more), o, at, more)
    BY SaidFacts
  <2>2. SaidIs(r, o, at, more)
    BY <1>3, <2>1, Zenon
  <2> QED BY <2>2 DEF SaidIs
<1>5. all = [ops EXCEPT ![i] = o] /\ all[i] = o /\ DOMAIN all = DOMAIN ops
  BY DEF But
<1>6. ops' = [all EXCEPT ![i] = r]
  BY <1>3, <1>5 DEF Says, SaidOf
<1>7. ops' = [ops EXCEPT ![i] = r]
  BY <1>5, <1>6
<1> QED BY <1>2, <1>4, <1>7 DEF EndedOp

(* The numbers after a, m of them.                                         *)
Run(a, m) == [k \in 1 .. m |-> a + k]

(* A run's length and numbers.                                             *)
LEMMA RunFacts ==
    ASSUME NEW a \in Nat, NEW m \in Nat
    PROVE  /\ Run(a, m) \in Seq(Nat) /\ Len(Run(a, m)) = m
           /\ DOMAIN Run(a, m) = 1 .. m /\ \A k \in 1 .. m : Run(a, m)[k] = a + k
BY DEF Run

(* Two runs, one after the other.                                          *)
LEMMA RunConcat ==
    ASSUME NEW a \in Nat, NEW m \in Nat, NEW n \in Nat
    PROVE  Run(a, m) \o Run(a + m, n) = Run(a, m + n)
<1>1. PICK x, y, z : x = Run(a, m) /\ y = Run(a + m, n) /\ z = Run(a, m + n)
  OBVIOUS
<1>2. a + m \in Nat /\ m + n \in Nat
  OBVIOUS
<1>3. x \in Seq(Nat) /\ Len(x) = m /\ \A k \in 1 .. m : x[k] = a + k
  BY <1>1, RunFacts
<1>4. y \in Seq(Nat) /\ Len(y) = n /\ \A k \in 1 .. n : y[k] = (a + m) + k
  BY <1>1, <1>2, RunFacts
<1>5. z \in Seq(Nat) /\ Len(z) = m + n /\ \A k \in 1 .. m + n : z[k] = a + k
  BY <1>1, <1>2, RunFacts
<1>6. PICK c : c = x \o y
  OBVIOUS
<1>7. /\ c \in Seq(Nat) /\ Len(c) = m + n
      /\ \A k \in 1 .. m + n : c[k] = IF k <= m THEN x[k] ELSE y[k - m]
  BY <1>3, <1>4, <1>6, ConcatProperties
<1>8. \A k \in 1 .. m + n : c[k] = z[k]
  <2> TAKE k \in 1 .. m + n
  <2>1. CASE k <= m
    BY <1>3, <1>5, <1>7, <2>1
  <2>2. CASE ~(k <= m)
    <3>1. k - m \in 1 .. n /\ (a + m) + (k - m) = a + k
      BY <2>2
    <3>2. c[k] = y[k - m]
      BY <1>7, <2>2
    <3>3. y[k - m] = (a + m) + (k - m)
      BY <1>4, <3>1
    <3> QED BY <1>5, <3>1, <3>2, <3>3
  <2> QED BY <2>1, <2>2
<1>9. c = z
  BY <1>5, <1>7, <1>8, SeqEqual
<1> QED BY <1>1, <1>6, <1>9

(* The first n of a run, and the others.                                   *)
LEMMA RunParts ==
    ASSUME NEW a \in Nat, NEW m \in Nat, NEW n \in 0 .. m
    PROVE  SubSeq(Run(a, m), 1, n) = Run(a, n) /\ After(Run(a, m), n) = Run(a + n, m - n)
<1>1. PICK x : x = Run(a, m)
  OBVIOUS
<1>2. x \in Seq(Nat) /\ Len(x) = m /\ \A k \in 1 .. m : x[k] = a + k
  BY <1>1, RunFacts
<1>3. (\A k \in 1 .. m : x[k] \in Nat) /\ n \in Nat /\ m - n \in Nat /\ a + n \in Nat
  BY <1>2
<1>4. SubSeq(x, 1, n) = Run(a, n)
  <2>1. PICK y : y = SubSeq(x, 1, n)
    OBVIOUS
  <2>2. PICK z : z = Run(a, n)
    OBVIOUS
  <2>3. y \in Seq(Nat) /\ Len(y) = n /\ \A k \in 1 .. n : y[k] = x[k]
    BY <1>3, <2>1, SubSeqProperties
  <2>4. z \in Seq(Nat) /\ Len(z) = n /\ \A k \in 1 .. n : z[k] = a + k
    BY <1>3, <2>2, RunFacts
  <2>5. \A k \in 1 .. n : y[k] = z[k]
    BY <1>2, <2>3, <2>4
  <2>6. y = z
    BY <2>3, <2>4, <2>5, SeqEqual
  <2> QED BY <2>1, <2>2, <2>6
<1>5. After(x, n) = Run(a + n, m - n)
  <2>1. PICK y : y = After(x, n)
    OBVIOUS
  <2>2. PICK z : z = Run(a + n, m - n)
    OBVIOUS
  <2>3. y \in Seq(Nat) /\ Len(y) = m - n /\ \A k \in 1 .. m - n : y[k] = x[n + k]
    BY <1>2, <1>3, <2>1, SubSeqProperties DEF After
  <2>4. z \in Seq(Nat) /\ Len(z) = m - n /\ \A k \in 1 .. m - n : z[k] = (a + n) + k
    BY <1>3, <2>2, RunFacts
  <2>5. \A k \in 1 .. m - n : y[k] = z[k]
    <3> TAKE k \in 1 .. m - n
    <3>1. n + k \in 1 .. m /\ a + (n + k) = (a + n) + k
      OBVIOUS
    <3>2. x[n + k] = a + (n + k)
      BY <1>2, <3>1
    <3> QED BY <2>3, <2>4, <3>1, <3>2
  <2>6. y = z
    BY <2>3, <2>4, <2>5, SeqEqual
  <2> QED BY <2>1, <2>2, <2>6
<1> QED BY <1>1, <1>4, <1>5

(* StreamOK for the number m of bytes that wait.                           *)
StreamAt(x, m) ==
    /\ m \in 0 .. x.sent /\ FlattenSeq(x.rx) = Run(x.sent - m, m)
    /\ \A j \in DOMAIN x.got : x.got[j] <= x.sent - m
    /\ \A j, k \in DOMAIN x.got : j < k => x.got[j] < x.got[k]
    /\ x.kind # "midi_in" => x.got = Run(0, x.sent - m)

(* StreamOK, in these words.                                               *)
LEMMA StreamRuns ==
    ASSUME NEW x \in Obj
    PROVE  StreamOK(x) <=> \E m \in 0 .. x.sent : StreamAt(x, m)
<1>1. x.sent \in Nat
  BY DEF Obj
<1>2. \A m \in 0 .. x.sent : [k \in 1 .. x.sent - m |-> k] = Run(0, x.sent - m)
  BY <1>1 DEF Run
<1> QED BY <1>1, <1>2 DEF StreamOK, StreamAt, Run

(* A new object.                                                           *)
LEMMA StreamFresh ==
    ASSUME NEW kind \in ObjKind
    PROVE  Object(kind) \in Obj /\ Object(kind).notify = 0 /\ StreamOK(Object(kind))
<1>1. PICK x : x = Object(kind)
  OBVIOUS
<1>2. x.sent = 0 /\ x.rx = <<>> /\ x.got = <<>> /\ x.notify = 0
  BY <1>1 DEF Object
<1>3. x \in Obj
  <2>1. <<>> \in Seq(Nat) /\ <<>> \in Seq(Seq(Nat)) /\ (kind = "websocket") \in BOOLEAN
    BY EmptySeq
  <2> QED BY <1>1, <2>1 DEF Object, Obj
<1>4. FlattenSeq(<<>>) = <<>>
  BY EmptySeq, FlattenJoin
<1>5. Run(0, 0) = <<>>
  <2>1. Run(0, 0) \in Seq(Nat) /\ Len(Run(0, 0)) = 0
    BY RunFacts
  <2> QED BY <2>1, EmptySeq
<1>6. StreamAt(x, 0)
  <2>1. DOMAIN x.got = {}
    BY <1>2
  <2> QED BY <1>2, <1>4, <1>5, <2>1 DEF StreamAt
<1>7. StreamOK(x)
  <2>1. 0 \in 0 .. x.sent
    BY <1>2
  <2> QED BY <1>3, <1>6, <2>1, StreamRuns
<1> QED BY <1>1, <1>2, <1>3, <1>7

(* An object whose bytes stay.                                             *)
LEMMA StreamSame ==
    ASSUME NEW x \in Obj, NEW r \in Obj, StreamOK(x),
           r.kind = x.kind, r.rx = x.rx, r.sent = x.sent, r.got = x.got
    PROVE  StreamOK(r)
BY DEF StreamOK

(* n bytes come.                                                           *)
LEMMA StreamArrives ==
    ASSUME NEW x \in Obj, NEW r \in Obj, NEW n \in Nat, StreamOK(x),
           r.kind = x.kind, r.rx = Append(x.rx, Run(x.sent, n)), r.sent = x.sent + n, r.got = x.got
    PROVE  StreamOK(r)
<1>1. PICK m \in 0 .. x.sent : StreamAt(x, m)
  BY StreamRuns
<1>2. x.sent \in Nat /\ x.rx \in Chunks /\ m \in Nat /\ x.sent - m \in Nat
  BY DEF Obj, Chunks
<1>3. FlattenSeq(r.rx) = FlattenSeq(x.rx) \o Run(x.sent, n)
  <2>1. Run(x.sent, n) \in Seq(Nat)
    BY <1>2, RunFacts
  <2> QED BY <1>2, <2>1, FlattenAppend
<1>4. FlattenSeq(x.rx) = Run(x.sent - m, m)
  BY <1>1 DEF StreamAt
<1>5. PICK a \in Nat : a = x.sent - m /\ a + m = x.sent
  BY <1>2
<1>6. Run(a, m) \o Run(a + m, n) = Run(a, m + n)
  BY <1>2, <1>5, RunConcat
<1>7. FlattenSeq(r.rx) = Run(a, m + n)
  BY <1>3, <1>4, <1>5, <1>6
<1>8. r.sent - (m + n) = a /\ m + n \in 0 .. r.sent
  BY <1>2, <1>5
<1>9. StreamAt(r, m + n)
  BY <1>1, <1>5, <1>7, <1>8 DEF StreamAt
<1> QED BY <1>8, <1>9, StreamRuns

(* n bytes are read, and p taken.                                          *)
LEMMA StreamTaken ==
    ASSUME NEW x \in Obj, NEW r \in Obj, StreamOK(x), NEW p \in 0 .. Len(FlattenSeq(x.rx)),
           NEW n \in 0 .. p, x.kind # "midi_in" => n = p,
           r.kind = x.kind, r.sent = x.sent,
           FlattenSeq(r.rx) = After(FlattenSeq(x.rx), p),
           r.got = x.got \o SubSeq(FlattenSeq(x.rx), 1, n)
    PROVE  StreamOK(r)
<1>1. PICK m \in 0 .. x.sent : StreamAt(x, m)
  BY StreamRuns
<1>2. x.sent \in Nat /\ m \in Nat
  BY DEF Obj
<1>3. PICK a \in Nat : a = x.sent - m /\ a + m = x.sent
  BY <1>2
<1>4. FlattenSeq(x.rx) = Run(a, m)
  BY <1>1, <1>3 DEF StreamAt
<1>5. p \in 0 .. m /\ n \in 0 .. m /\ n <= p /\ n \in Nat /\ p \in Nat
  BY <1>2, <1>4, RunFacts
<1>6. FlattenSeq(r.rx) = Run(a + p, m - p) /\ SubSeq(FlattenSeq(x.rx), 1, n) = Run(a, n)
  <2>1. After(Run(a, m), p) = Run(a + p, m - p)
    BY <1>2, <1>5, RunParts
  <2>2. SubSeq(Run(a, m), 1, n) = Run(a, n)
    BY <1>2, <1>5, RunParts
  <2> QED BY <1>4, <2>1, <2>2
<1>g. x.got \in Seq(Nat)
  BY DEF Obj
<1>7. PICK g, t, c : g \in Seq(Nat) /\ g = x.got /\ t = Run(a, n) /\ c = g \o t
  BY <1>g
<1>8. /\ t \in Seq(Nat) /\ Len(t) = n /\ \A k \in 1 .. n : t[k] = a + k
  BY <1>5, <1>7, RunFacts
<1>9. PICK l \in Nat : l = Len(g) /\ DOMAIN g = 1 .. l
  BY <1>7
<1>10. /\ c \in Seq(Nat) /\ Len(c) = l + n /\ DOMAIN c = 1 .. l + n
       /\ \A k \in 1 .. l + n : c[k] = IF k <= l THEN g[k] ELSE t[k - l]
  <2>1. /\ c \in Seq(Nat) /\ Len(c) = Len(g) + Len(t)
        /\ \A k \in 1 .. Len(g) + Len(t) : c[k] = IF k <= Len(g) THEN g[k] ELSE t[k - Len(g)]
    <3>1. PICK u \in Seq(Nat), v \in Seq(Nat) : u = g /\ v = t
      BY <1>7, <1>8
    <3>2. /\ u \o v \in Seq(Nat) /\ Len(u \o v) = Len(u) + Len(v)
          /\ \A k \in 1 .. Len(u) + Len(v) : (u \o v)[k] = IF k <= Len(u) THEN u[k] ELSE v[k - Len(u)]
      BY ConcatProperties
    <3> QED BY <1>7, <3>1, <3>2
  <2> QED BY <1>8, <1>9, <2>1
<1>11. r.got = c
  BY <1>6, <1>7
<1>12. /\ \A j \in 1 .. l : g[j] <= a /\ g[j] \in Nat
       /\ \A j, k \in 1 .. l : j < k => g[j] < g[k]
  <2>1. \A j \in 1 .. l : g[j] \in Nat
    BY <1>7, <1>9
  <2>2. /\ \A j \in DOMAIN g : g[j] <= a
        /\ \A j, k \in DOMAIN g : j < k => g[j] < g[k]
    BY <1>1, <1>3, <1>7 DEF StreamAt
  <2> QED BY <1>9, <2>1, <2>2
<1>13. \A k \in 1 .. l + n : k > l => c[k] = a + (k - l)
  <2> TAKE k \in 1 .. l + n
  <2> HAVE k > l
  <2>1. k - l \in 1 .. n /\ ~(k <= l)
    OBVIOUS
  <2> QED BY <1>8, <1>10, <2>1
<1>14. \A k \in 1 .. l : c[k] = g[k]
  BY <1>10
<1>15. \A k \in 1 .. l + n : c[k] <= a + p
  <2> TAKE k \in 1 .. l + n
  <2>1. CASE k > l
    BY <1>5, <1>13, <2>1
  <2>2. CASE ~(k > l)
    <3>1. k \in 1 .. l
      BY <2>2
    <3> QED BY <1>12, <1>14, <3>1
  <2> QED BY <2>1, <2>2
<1>16. \A j, k \in 1 .. l + n : j < k => c[j] < c[k]
  <2> TAKE j, k \in 1 .. l + n
  <2> HAVE j < k
  <2>1. CASE k > l /\ j > l
    <3>1. c[k] = a + (k - l) /\ c[j] = a + (j - l)
      BY <1>13, <2>1
    <3> QED BY <3>1
  <2>2. CASE k > l /\ ~(j > l)
    <3>1. j \in 1 .. l
      BY <2>2
    <3>2. c[k] = a + (k - l) /\ c[j] = g[j] /\ g[j] <= a /\ g[j] \in Nat
      BY <1>12, <1>13, <1>14, <2>2, <3>1
    <3> QED BY <2>2, <3>2
  <2>3. CASE ~(k > l)
    <3>1. j \in 1 .. l /\ k \in 1 .. l
      BY <2>3
    <3> QED BY <1>12, <1>14, <3>1
  <2> QED BY <2>1, <2>2, <2>3
<1>17. x.kind # "midi_in" => c = Run(0, a + p)
  <2> SUFFICES ASSUME x.kind # "midi_in" PROVE c = Run(0, a + p)
    OBVIOUS
  <2>1. g = Run(0, a) /\ n = p
    BY <1>1, <1>3, <1>7 DEF StreamAt
  <2>2. Run(0, a) \o Run(0 + a, n) = Run(0, a + n)
    <3>1. 0 \in Nat /\ n \in Nat /\ a \in Nat
      BY <1>5
    <3> QED BY <3>1, RunConcat, Zenon
  <2>3. 0 + a = a
    OBVIOUS
  <2> QED BY <1>7, <2>1, <2>2, <2>3
<1>18. r.sent - (m - p) = a + p /\ m - p \in 0 .. r.sent
  BY <1>2, <1>3, <1>5
<1>19. StreamAt(r, m - p)
  <2>1. FlattenSeq(r.rx) = Run(r.sent - (m - p), m - p)
    BY <1>6, <1>18
  <2>2. r.kind # "midi_in" => r.got = Run(0, r.sent - (m - p))
    BY <1>11, <1>17, <1>18
  <2>3. /\ \A j \in DOMAIN r.got : r.got[j] <= r.sent - (m - p)
        /\ \A j, k \in DOMAIN r.got : j < k => r.got[j] < r.got[k]
    BY <1>10, <1>11, <1>15, <1>16, <1>18
  <2> QED BY <1>18, <2>1, <2>2, <2>3 DEF StreamAt
<1> QED BY <1>18, <1>19, StreamRuns

(* The lesser of two numbers.                                              *)
LEMMA MinOfTwo ==
    ASSUME NEW a \in Nat, NEW b \in Nat
    PROVE  Min({a, b}) \in Nat /\ Min({a, b}) <= a /\ Min({a, b}) <= b
<1>1. \E x \in {a, b} : \A y \in {a, b} : x <= y
  OBVIOUS
<1>2. Min({a, b}) \in {a, b} /\ \A y \in {a, b} : Min({a, b}) <= y
  BY <1>1 DEF Min
<1> QED BY <1>2

(* How many bytes a read is given, of the chunks rx, all of them together. *)
Given(kind, rx, cap, all) ==
    IF rx = <<>> THEN 0
    ELSE Min({cap, IF kind = "serial" THEN Len(all) ELSE Len(Head(rx))})

(* TakenOf, in these words.                                                *)
LEMMA TakenGiven ==
    ASSUME NEW kind, NEW rx, NEW cap
    PROVE  TakenOf(kind, rx, cap) =
             [got |-> SubSeq(FlattenSeq(rx), 1, Given(kind, rx, cap, FlattenSeq(rx))),
              rx |-> IF kind = "midi_in" /\ rx # <<>> THEN Tail(rx)
                     ELSE Without(rx, Given(kind, rx, cap, FlattenSeq(rx)))]
BY Zenon DEF TakenOf, Given

(* What a read takes is the first bytes, or a whole MIDI message.          *)
LEMMA TakenFacts ==
    ASSUME NEW kind \in ObjKind, NEW rx \in Chunks, NEW cap \in Nat
    PROVE  LET all == FlattenSeq(rx)
           IN  \E p \in 0 .. Len(all) : \E n \in 0 .. p :
                 /\ kind # "midi_in" => n = p
                 /\ TakenOf(kind, rx, cap).got = SubSeq(all, 1, n)
                 /\ TakenOf(kind, rx, cap).rx \in Chunks
                 /\ FlattenSeq(TakenOf(kind, rx, cap).rx) = After(all, p)
<1>1. PICK all \in Seq(Nat) : all = FlattenSeq(rx)
  BY FirstRec
<1>2. PICK n : n = Given(kind, rx, cap, all)
  OBVIOUS
<1>3. PICK t : t = TakenOf(kind, rx, cap)
  OBVIOUS
<1>4. /\ t.got = SubSeq(all, 1, n)
      /\ t.rx = IF kind = "midi_in" /\ rx # <<>> THEN Tail(rx) ELSE Without(rx, n)
  <2>1. t = [got |-> SubSeq(all, 1, n),
             rx |-> IF kind = "midi_in" /\ rx # <<>> THEN Tail(rx) ELSE Without(rx, n)]
    BY <1>1, <1>2, <1>3, TakenGiven, Zenon
  <2> QED BY <2>1
<1>5. ASSUME rx # <<>>
      PROVE  /\ Tail(rx) \in Chunks /\ Head(rx) \in Seq(Nat) /\ Len(Head(rx)) \in Nat
             /\ Len(Head(rx)) <= Len(all)
             /\ FlattenSeq(Tail(rx)) = After(all, Len(Head(rx)))
  <2>1. /\ Tail(rx) \in Chunks /\ Head(rx) \in Seq(Nat)
        /\ FlattenSeq(rx) = Head(rx) \o FlattenSeq(Tail(rx))
    BY <1>5, FirstTail
  <2>2. PICK h \in Seq(Nat), f \in Seq(Nat) : h = Head(rx) /\ f = FlattenSeq(Tail(rx))
    BY <2>1, FirstRec
  <2>3. all = h \o f /\ Len(h) \in Nat /\ Len(f) \in Nat /\ Len(h \o f) = Len(h) + Len(f)
    BY <1>1, <2>1, <2>2
  <2>4. After(h \o f, Len(h)) = After(f, Len(h) - Len(h))
    BY <2>3, AfterPast
  <2>5. Len(h) - Len(h) = 0 /\ After(f, 0) = f
    BY <2>3, AfterConcat
  <2>6. Len(h) <= Len(all)
    BY <2>3
  <2> QED BY <2>1, <2>2, <2>3, <2>4, <2>5, <2>6
<1>6. Len(all) \in Nat
  OBVIOUS
<1>7. n \in 0 .. Len(all) /\ (rx # <<>> /\ kind # "serial" => n <= Len(Head(rx)))
  <2>1. CASE rx = <<>>
    <3>1. n = 0
      BY <1>2, <2>1, Zenon DEF Given
    <3> QED BY <1>6, <2>1, <3>1
  <2>2. CASE rx # <<>>
    <3>1. PICK l : l = IF kind = "serial" THEN Len(all) ELSE Len(Head(rx))
      OBVIOUS
    <3>2. n = Min({cap, l})
      BY <1>2, <2>2, <3>1, Zenon DEF Given
    <3>3. l \in Nat /\ l <= Len(all) /\ (kind # "serial" => l = Len(Head(rx)))
      BY <1>5, <1>6, <2>2, <3>1
    <3>4. n \in Nat /\ n <= l
      BY <3>2, <3>3, MinOfTwo
    <3> QED BY <1>6, <3>3, <3>4
  <2> QED BY <2>1, <2>2
<1>8. CASE kind = "midi_in" /\ rx # <<>>
  <2>1. PICK p : p = Len(Head(rx))
    OBVIOUS
  <2>2. p \in 0 .. Len(all) /\ n \in 0 .. p
    BY <1>5, <1>6, <1>7, <1>8, <2>1
  <2>3. t.rx \in Chunks /\ FlattenSeq(t.rx) = After(all, p)
    BY <1>4, <1>5, <1>8, <2>1
  <2> QED BY <1>1, <1>3, <1>4, <1>8, <2>2, <2>3
<1>9. CASE ~(kind = "midi_in" /\ rx # <<>>)
  <2>1. t.rx = Without(rx, n)
    BY <1>4, <1>9
  <2>2. n \in Nat /\ n <= Len(FlattenSeq(rx)) /\ n \in 0 .. n
    BY <1>1, <1>6, <1>7
  <2>3. t.rx \in Chunks /\ FlattenSeq(t.rx) = After(all, n)
    BY <1>1, <2>1, <2>2, WithoutAfter
  <2> QED BY <1>1, <1>3, <1>4, <1>7, <2>2, <2>3
<1> QED BY <1>8, <1>9

-----------------------------------------------------------------------------
(* Objects.                                                                *)

(* A new object.                                                           *)
LEMMA ObjAppended ==
    ASSUME IoInv, NEW kind \in ObjKind, objs' = Append(objs, Object(kind))
    PROVE  /\ ObjsGood /\ NotifyKept
           /\ Len(objs) \in Nat /\ Len(objs') \in Nat /\ Len(objs) <= Len(objs') /\ Len(objs') = Len(objs) + 1
<1>1. PICK x : x = Object(kind)
  OBVIOUS
<1>2. x \in Obj /\ x.notify = 0 /\ StreamOK(x)
  BY <1>1, StreamFresh
<1>3. objs \in Seq(Obj) /\ \A h \in DOMAIN objs : StreamOK(objs[h])
  BY DEF IoInv, IoTypes
<1>4. PICK n \in Nat : n = Len(objs)
  BY <1>3
<1>5. /\ objs' \in Seq(Obj) /\ Len(objs') = n + 1 /\ objs'[n + 1] = x
      /\ \A h \in 1 .. n : objs'[h] = objs[h]
      /\ DOMAIN objs = 1 .. n /\ DOMAIN objs' = 1 .. n + 1
  BY <1>1, <1>2, <1>3, <1>4, AppendProperties
<1>6. \A h \in 1 .. n + 1 : h \in 1 .. n \/ h = n + 1
  OBVIOUS
<1>7. \A h \in DOMAIN objs' : StreamOK(objs'[h])
  BY <1>2, <1>3, <1>5, <1>6
<1>8. NotifyKept
  BY <1>2, <1>5, <1>6 DEF NotifyKept
<1> QED BY <1>4, <1>5, <1>7, <1>8 DEF ObjsGood

(* An object that changes.                                                 *)
LEMMA ObjReplaced ==
    ASSUME IoInv, NEW h \in DOMAIN objs, NEW r \in Obj, StreamOK(r), objs' = [objs EXCEPT ![h] = r]
    PROVE  /\ ObjsGood
           /\ r.notify = 0 \/ r.notify = objs[h].notify => NotifyKept
           /\ \A g \in DOMAIN objs' : g \in DOMAIN objs /\ (g # h => objs'[g] = objs[g])
           /\ Len(objs) \in Nat /\ Len(objs') \in Nat /\ Len(objs') = Len(objs) /\ objs'[h] = r
<1>1. objs \in Seq(Obj) /\ \A g \in DOMAIN objs : StreamOK(objs[g])
  BY DEF IoInv, IoTypes
<1>2. /\ objs' \in Seq(Obj) /\ Len(objs') = Len(objs) /\ Len(objs) \in Nat
      /\ DOMAIN objs' = DOMAIN objs
      /\ objs'[h] = r /\ \A g \in DOMAIN objs : g # h => objs'[g] = objs[g]
  BY <1>1
<1>3. \A g \in DOMAIN objs' : StreamOK(objs'[g])
  BY <1>1, <1>2
<1>4. r.notify = 0 \/ r.notify = objs[h].notify => NotifyKept
  BY <1>2 DEF NotifyKept
<1> QED BY <1>2, <1>3, <1>4 DEF ObjsGood

(* A flag of an object, if it is there.                                    *)
LEMMA ObjFlag ==
    ASSUME IoInv, NEW h, NEW v \in BOOLEAN,
           \/ objs' = [objs EXCEPT ![h].in = v]
           \/ objs' = [objs EXCEPT ![h].open = v]
           \/ objs' = [objs EXCEPT ![h].notify = 0]
    PROVE  ObjsGood /\ NotifyKept /\ Len(objs) \in Nat /\ Len(objs') \in Nat /\ Len(objs') = Len(objs)
<1>1. objs \in Seq(Obj) /\ \A g \in DOMAIN objs : StreamOK(objs[g])
  BY DEF IoInv, IoTypes
<1>2. CASE h \in DOMAIN objs
  <2>1. PICK x \in Obj : x = objs[h]
    BY <1>1, <1>2
  <2>2. PICK a, b, c : /\ a = [objs[h] EXCEPT !.in = v]
                       /\ b = [objs[h] EXCEPT !.open = v]
                       /\ c = [objs[h] EXCEPT !.notify = 0]
    OBVIOUS
  <2>3. objs' = [objs EXCEPT ![h] = a] \/ objs' = [objs EXCEPT ![h] = b] \/ objs' = [objs EXCEPT ![h] = c]
    BY <2>2, Zenon
  <2>4. PICK r : (r = a \/ r = b \/ r = c) /\ objs' = [objs EXCEPT ![h] = r]
    BY <2>3
  <2>5. a \in Obj /\ a.kind = x.kind /\ a.rx = x.rx /\ a.sent = x.sent /\ a.got = x.got /\ a.notify = x.notify
    BY <2>1, <2>2 DEF Obj
  <2>6. b \in Obj /\ b.kind = x.kind /\ b.rx = x.rx /\ b.sent = x.sent /\ b.got = x.got /\ b.notify = x.notify
    BY <2>1, <2>2 DEF Obj
  <2>7. c \in Obj /\ c.kind = x.kind /\ c.rx = x.rx /\ c.sent = x.sent /\ c.got = x.got /\ c.notify = 0
    BY <2>1, <2>2 DEF Obj
  <2>8. /\ r \in Obj /\ r.kind = x.kind /\ r.rx = x.rx /\ r.sent = x.sent /\ r.got = x.got
        /\ r.notify = 0 \/ r.notify = x.notify
    BY <2>4, <2>5, <2>6, <2>7
  <2>9. StreamOK(r)
    BY <1>1, <1>2, <2>1, <2>8, StreamSame
  <2> QED BY <1>2, <2>1, <2>4, <2>8, <2>9, ObjReplaced
<1>3. CASE h \notin DOMAIN objs
  <2>1. objs' = objs
    BY <1>1, <1>3
  <2> QED BY <1>1, <2>1, SameObjs
<1> QED BY <1>2, <1>3

-----------------------------------------------------------------------------
(* Operations that begin and complete.                                     *)

LenSame == /\ Len(objs) \in Nat /\ Len(objs') \in Nat /\ Len(objs) <= Len(objs')

(* Objects are never fewer.                                                *)
LEMMA LenKept ==
    ASSUME IoInv, ObjsGood
    PROVE  LenSame
BY DEF IoInv, IoTypes, ObjsGood, LenSame

(* What the other variables of a step may be.                              *)
Rest == ObjsGood /\ NotifyKept /\ UNCHANGED <<plan, dropVars>>

(* A new operation completes, at once or for the first time.               *)
LEMMA NewSaid ==
    ASSUME IoInv, Rest, pend' = pend,
           NEW code \in Opcode, NEW on \in Nat, NEW ud \in UserData, NEW more \in BOOLEAN,
           NEW at \in {"done", "watch", "promise"}, NEW parts \in 0 .. 2,
           at = "done" \/ more, at = "promise" => Table[code].form # "parts",
           Says(Submitted(code, on, ud, at, parts), Self, at, more), on <= Len(objs')
    PROVE  IoInv'
<1>1. at \in Places
  BY DEF Places
<1>2. queue' \in Seq(EventsOf)
  BY <1>1, SaysNew
<1>3. AddedOp(code, on, at, more)
  BY <1>1, SaysNew
<1>4. PICK r \in Op : /\ ops' = Append(ops, r) /\ r.code = code /\ r.on = on /\ r.at = at
                      /\ r.said = TRUE /\ r.late = FALSE /\ r.finals = IF more THEN 0 ELSE 1
  BY <1>3 DEF AddedOp
<1>5. OpOK(r) /\ ~Pending(r)
  BY <1>4 DEF OpOK, Pending
<1>6. LenSame
  BY LenKept DEF Rest
<1>7. OpsGood
  BY <1>4, <1>5, <1>6, OpAppended DEF LenSame
<1> QED BY <1>2, <1>7, GoodStep DEF Rest

(* An operation that waits completes.                                      *)
LEMMA OldSaid ==
    ASSUME IoInv, Rest, NEW i \in DOMAIN ops, NEW more \in BOOLEAN,
           NEW at \in {"done", "watch", "linked"}, Says(ops, i, at, more),
           ops[i].at \notin {"done", "linked"},
           at = "linked" => Table[ops[i].code].form = "connect",
           at = "watch" /\ ~more => Table[ops[i].code].form \in {"geo", "idle"},
           \/ pend' = pend \ {i}
           \/ pend' = pend /\ ops[i].at \notin {"timer", "connect"}
    PROVE  IoInv'
<1>1. at \in Places
  BY DEF Places
<1>2. PICK o : o = ops[i]
  OBVIOUS
<1>3. ops \in Seq(Op) /\ o \in Op /\ But(ops, i, o)
  BY <1>2 DEF IoInv, IoTypes, But
<1>4. queue' \in Seq(EventsOf)
  BY <1>1, <1>3, SaysOld
<1>5. EndedOp(i, o, at, more)
  BY <1>1, <1>3, SaysOld
<1>6. PICK r \in Op : /\ ops' = [ops EXCEPT ![i] = r] /\ r.code = o.code /\ r.on = o.on
                      /\ r.at = at /\ r.said = TRUE /\ r.late = o.late
                      /\ r.finals = IF more \/ o.finals = 2 THEN o.finals ELSE o.finals + 1
  BY <1>5 DEF EndedOp
<1>7. OpOK(o) /\ o.finals \in 0 .. 2
  BY <1>2, <1>3 DEF IoInv, OpsOK, Op
<1>8. OpOK(r) /\ ~Pending(r)
  BY <1>2, <1>6, <1>7 DEF OpOK, Pending
<1>9. LenSame
  BY LenKept DEF Rest
<1>10. ops[i].at \notin {"timer", "connect"} => ~Pending(ops[i])
  BY DEF Pending
<1>11. OpsGood
  BY <1>2, <1>6, <1>8, <1>9, <1>10, OpReplaced DEF LenSame
<1> QED BY <1>4, <1>11, GoodStep DEF Rest

(* An operation goes on without an event.                                  *)
LEMMA OldGoes ==
    ASSUME IoInv, Rest, NEW i \in DOMAIN ops,
           NEW at \in {"watch", "blob", "start", "lost"}, Goes(i, at), pend' = pend,
           ops[i].at \in {"promise", "blob"}, at = "watch" => ops[i].said
    PROVE  IoInv'
<1>1. PICK o : o = ops[i]
  OBVIOUS
<1>2. ops \in Seq(Op) /\ o \in Op /\ queue' \in Seq(EventsOf)
  BY <1>1 DEF IoInv, IoTypes, Goes, EventsOf
<1>3. PICK r : r = [o EXCEPT !.at = at]
  OBVIOUS
<1>4. ops' = [ops EXCEPT ![i] = r]
  BY <1>1, <1>3 DEF Goes
<1>5. /\ r \in Op /\ r.code = o.code /\ r.on = o.on /\ r.at = at /\ r.said = o.said
      /\ r.late = o.late /\ r.finals = o.finals /\ r.parts = o.parts
  <2>1. at \in Places
    BY DEF Places
  <2> QED BY <1>2, <1>3, <2>1 DEF Op
<1>6. OpOK(o)
  BY <1>1 DEF IoInv, OpsOK
<1>7. OpOK(r) /\ ~Pending(r) /\ ~Pending(ops[i])
  BY <1>1, <1>5, <1>6 DEF OpOK, Pending
<1>8. LenSame
  BY LenKept DEF Rest
<1>9. OpsGood
  BY <1>1, <1>4, <1>5, <1>7, <1>8, OpReplaced DEF LenSame
<1> QED BY <1>2, <1>9, GoodStep DEF Rest

(* The objects and the drops stay.                                         *)
LEMMA NoObjs ==
    ASSUME IoInv, UNCHANGED objs, UNCHANGED <<plan, dropVars>>
    PROVE  Rest /\ LenSame
BY SameObjs, LenKept DEF Rest

(* The opcodes of a plan are in the table.                                 *)
LEMMA CodeFacts ==
    ASSUME IoInv, NEW code, code \in plan.codes
    PROVE  code \in Opcode /\ Table[code].gives \in ObjKind
BY IoAssumption DEF IoInv, IoTypes, ObjKind

-----------------------------------------------------------------------------
(* Submitting.                                                             *)

(* An operation that waits.                                                *)
LEMMA NewWaits ==
    ASSUME IoInv, UNCHANGED <<plan, objs, dropVars>>, queue' = queue,
           NEW code \in Opcode, NEW on \in Nat, NEW ud \in UserData, NEW at \in Places,
           NEW parts \in 0 .. 2, on <= Len(objs),
           ops' = Submitted(code, on, ud, at, parts),
           OpOK(NewOp(code, on, ud, at, parts)),
           \/ at \notin {"timer", "connect"} /\ pend' = pend
           \/ at \in {"timer", "connect"} /\ pend' = pend \cup {Self}
    PROVE  IoInv'
<1>1. PICK o : o = NewOp(code, on, ud, at, parts)
  OBVIOUS
<1>2. NewIs(NewOp(code, on, ud, at, parts), code, on, at)
  BY NewFacts
<1>3. NewIs(o, code, on, at)
  BY <1>1, <1>2, Zenon
<1>4. o \in Op /\ o.code = code /\ o.on = on /\ o.at = at /\ o.late = FALSE
  BY <1>3 DEF NewIs
<1>5. ops' = Append(ops, o)
  BY <1>1, Zenon DEF Submitted
<1>6. OpOK(o)
  BY <1>1, Zenon
<1>7. \/ ~Pending(o) /\ pend' = pend
      \/ Pending(o) /\ pend' = pend \cup {Self}
  BY <1>4 DEF Pending
<1>8. Rest /\ LenSame /\ objs' = objs
  BY NoObjs
<1>9. OpsGood
  BY <1>4, <1>5, <1>6, <1>7, <1>8, OpAppended DEF LenSame
<1>10. queue' \in Seq(EventsOf)
  BY DEF IoInv, IoTypes, EventsOf
<1> QED BY <1>8, <1>9, <1>10, GoodStep DEF Rest

(* Operations answered by their handler.                                   *)
LEMMA AtOnceKeeps ==
    ASSUME IoInv, NEW code \in plan.codes, NEW ud \in UserData, NEW h \in Handle \cup {0},
           AtOnce(code, h, ud)
    PROVE  IoInv'
<1>1. code \in Opcode
  BY CodeFacts
<1>2. Rest /\ LenSame /\ objs' = objs /\ pend' = pend
  BY NoObjs DEF AtOnce
<1>3. h \in Nat /\ h <= Len(objs') /\ 0 \in 0 .. 2
  BY <1>2 DEF Handle, LenSame
<1>4. Says(Submitted(code, h, ud, "done", 0), Self, "done", FALSE)
  BY DEF AtOnce
<1> QED BY <1>1, <1>2, <1>3, <1>4, NewSaid

(* LOG.                                                                    *)
LEMMA LogsKeeps ==
    ASSUME IoInv, NEW code \in plan.codes, NEW ud \in UserData, Logs(code, ud)
    PROVE  IoInv'
<1>1. code \in Opcode /\ "done" \in Places /\ Len(objs) \in Nat
  BY CodeFacts DEF Places, IoInv, IoTypes
<1>2. Table[code].form = "log" /\ ops' = Submitted(code, 0, ud, "done", 0)
      /\ UNCHANGED <<plan, objs, dropVars>> /\ queue' = queue /\ pend' = pend
  BY DEF Logs
<1>3. OpOK(NewOp(code, 0, ud, "done", 0))
  BY <1>2 DEF OpOK, NewOp
<1>4. 0 \in Nat /\ 0 <= Len(objs) /\ 0 \in 0 .. 2
  BY <1>1
<1> QED BY <1>1, <1>2, <1>3, <1>4, NewWaits

(* TIMEOUT and CONNECT.                                                    *)
LEMMA WaitsKeeps ==
    ASSUME IoInv, NEW code \in plan.codes, NEW ud \in UserData, Waits(code, ud)
    PROVE  IoInv'
<1>1. code \in Opcode /\ Len(objs) \in Nat
  BY CodeFacts DEF IoInv, IoTypes
<1>2. PICK at : at = Table[code].form
  OBVIOUS
<1>3. at \in {"timer", "connect"} /\ at \in Places /\ ops' = Submitted(code, 0, ud, at, 0)
      /\ UNCHANGED <<plan, objs, dropVars>> /\ queue' = queue /\ pend' = pend \cup {Self}
  BY <1>2 DEF Waits, Places
<1>4. OpOK(NewOp(code, 0, ud, at, 0))
  BY <1>2, <1>3 DEF OpOK, NewOp
<1>5. 0 \in Nat /\ 0 <= Len(objs) /\ 0 \in 0 .. 2
  BY <1>1
<1> QED BY <1>1, <1>3, <1>4, <1>5, NewWaits

(* NFC_SCAN_START.                                                         *)
LEMMA ScansKeeps ==
    ASSUME IoInv, NEW code \in plan.codes, NEW ud \in UserData, Scans(code, ud)
    PROVE  IoInv'
<1>1. code \in Opcode
  BY CodeFacts
<1>2. Rest /\ LenSame /\ objs' = objs /\ pend' = pend
  BY NoObjs DEF Scans
<1>3. 0 \in Nat /\ 0 <= Len(objs') /\ 1 \in 0 .. 2
  BY <1>2 DEF LenSame
<1>4. Says(Submitted(code, 0, ud, "promise", 1), Self, "promise", TRUE) /\ Table[code].form # "parts"
  BY DEF Scans
<1> QED BY <1>1, <1>2, <1>3, <1>4, NewSaid

(* Operations that make promises.                                          *)
LEMMA AsksKeeps ==
    ASSUME IoInv, NEW code \in plan.codes, NEW ud \in UserData, NEW h \in Handle \cup {0},
           Asks(code, h, ud)
    PROVE  IoInv'
<1>1. code \in Opcode /\ Len(objs) \in Nat /\ "promise" \in Places
  BY CodeFacts DEF IoInv, IoTypes, Places
<1>2. /\ UNCHANGED <<plan, objs, dropVars>> /\ queue' = queue /\ pend' = pend
      /\ Table[code].form \in {"ask", "open", "finish", "listen", "clip", "idle", "parts"}
  BY DEF Asks
<1>3. PICK n \in 1 .. 2 : ops' = Submitted(code, h, ud, "promise", n)
  BY DEF Asks
<1>4. OpOK(NewOp(code, h, ud, "promise", n))
  BY <1>2 DEF OpOK, NewOp
<1>5. h \in Nat /\ h <= Len(objs) /\ n \in 0 .. 2
  BY <1>1 DEF Handle
<1>6. "promise" \notin {"timer", "connect"} /\ pend' = pend
  BY <1>2
<1> QED BY <1>1, <1>2, <1>3, <1>4, <1>5, <1>6, NewWaits

(* FWATCH_REMOVE.                                                          *)
LEMMA UnwatchesKeeps ==
    ASSUME IoInv, NEW code \in plan.codes, NEW ud \in UserData, NEW h \in Handle,
           Unwatches(code, h, ud)
    PROVE  IoInv'
<1>1. code \in Opcode
  BY CodeFacts
<1>2. UNCHANGED <<plan, dropVars>> /\ pend' = pend
  BY DEF Unwatches
<1>3. ObjsGood /\ NotifyKept
  BY ObjFlag DEF Unwatches
<1>4. Rest /\ LenSame
  BY <1>2, <1>3, LenKept DEF Rest
<1>5. h \in Nat /\ h <= Len(objs') /\ 0 \in 0 .. 2
  BY <1>4 DEF Handle, LenSame
<1>6. Says(Submitted(code, h, ud, "done", 0), Self, "done", FALSE)
  BY DEF Unwatches
<1> QED BY <1>1, <1>2, <1>4, <1>5, <1>6, NewSaid

(* A new object, that the operation may be about.                          *)
LEMMA MakesOne ==
    ASSUME IoInv, NEW kind \in ObjKind, objs' = Append(objs, Object(kind)),
           UNCHANGED <<plan, dropVars>>
    PROVE  Rest /\ LenSame /\ Len(objs') = Len(objs) + 1
<1>1. ObjsGood /\ NotifyKept /\ Len(objs') = Len(objs) + 1
  BY ObjAppended
<1> QED BY <1>1, LenKept DEF Rest

(* Operations that make an object at once.                                 *)
LEMMA MakesKeeps ==
    ASSUME IoInv, NEW code \in plan.codes, NEW ud \in UserData, Makes(code, ud)
    PROVE  IoInv'
<1>1. code \in Opcode /\ Table[code].gives \in ObjKind
  BY CodeFacts
<1>2. UNCHANGED <<plan, dropVars>> /\ pend' = pend /\ Len(objs) \in Nat
  BY DEF Makes, IoInv, IoTypes
<1>3. {"fwatch", "geo_watch", "tts"} \subseteq ObjKind
  BY DEF ObjKind
<1>4. CASE /\ objs' = Append(objs, Object(Table[code].gives))
           /\ Says(Submitted(code, 0, ud, "done", 0), Self, "done", FALSE)
  <2>1. Rest /\ LenSame
    BY <1>1, <1>2, <1>4, MakesOne
  <2>2. 0 \in Nat /\ 0 <= Len(objs') /\ 0 \in 0 .. 2
    BY <2>1 DEF LenSame
  <2> QED BY <1>1, <1>2, <1>4, <2>1, <2>2, NewSaid
<1>5. CASE /\ objs' = Append(objs, Object("fwatch"))
           /\ Says(Submitted(code, 0, ud, "done", 0), Self, "done", TRUE)
  <2>1. Rest /\ LenSame
    BY <1>2, <1>3, <1>5, MakesOne
  <2>2. 0 \in Nat /\ 0 <= Len(objs') /\ 0 \in 0 .. 2
    BY <2>1 DEF LenSame
  <2> QED BY <1>1, <1>2, <1>5, <2>1, <2>2, NewSaid
<1>6. CASE /\ objs' = Append(objs, Object("geo_watch"))
           /\ Says(Submitted(code, Len(objs) + 1, ud, "watch", 0), Self, "watch", TRUE)
  <2>1. Rest /\ LenSame /\ Len(objs') = Len(objs) + 1
    BY <1>2, <1>3, <1>6, MakesOne
  <2>2. PICK l : l = Len(objs) + 1
    OBVIOUS
  <2>3. l \in Nat /\ l <= Len(objs') /\ 0 \in 0 .. 2
    BY <2>1, <2>2, <1>2
  <2>4. Says(Submitted(code, l, ud, "watch", 0), Self, "watch", TRUE)
    BY <1>6, <2>2
  <2> QED BY <1>1, <1>2, <2>1, <2>3, <2>4, NewSaid
<1>7. CASE /\ Table[code].form = "speak" /\ objs' = Append(objs, Object("tts"))
           /\ ops' = Submitted(code, 0, ud, "voice", 0) /\ UNCHANGED queue
  <2>1. Rest /\ LenSame
    BY <1>2, <1>3, <1>7, MakesOne
  <2>2. PICK o : o = NewOp(code, 0, ud, "voice", 0)
    OBVIOUS
  <2>3. 0 \in Nat /\ 0 <= Len(objs') /\ 0 \in 0 .. 2 /\ "voice" \in Places
    BY <2>1 DEF LenSame, Places
  <2>4. NewIs(NewOp(code, 0, ud, "voice", 0), code, 0, "voice")
    BY <1>1, <2>3, NewFacts
  <2>5. NewIs(o, code, 0, "voice")
    BY <2>2, <2>4, Zenon
  <2>6. o \in Op /\ o.on = 0 /\ ~Pending(o)
    BY <2>5 DEF NewIs, Pending
  <2>7. OpOK(o)
    BY <2>2 DEF OpOK, NewOp
  <2>8. ops' = Append(ops, o)
    BY <1>7, <2>2, Zenon DEF Submitted
  <2>9. OpsGood
    BY <1>2, <2>1, <2>3, <2>6, <2>7, <2>8, OpAppended DEF LenSame
  <2>10. queue' \in Seq(EventsOf)
    BY <1>7 DEF IoInv, IoTypes, EventsOf
  <2> QED BY <2>1, <2>9, <2>10, GoodStep DEF Rest
<1> QED BY <1>4, <1>5, <1>6, <1>7 DEF Makes

-----------------------------------------------------------------------------
(* What the browser calls back.                                            *)

(* An operation that waits for no timer and no socket ends.                *)
LEMMA EndsKeeps ==
    ASSUME IoInv, Rest, NEW i \in DOMAIN ops, Ends(i),
           ops[i].at \in {"promise", "start", "blob", "voice"}, pend' = pend
    PROVE  IoInv'
<1>1. Says(ops, i, "done", FALSE)
  BY DEF Ends
<1> QED BY <1>1, OldSaid

(* A flag of an object, in a step that does no more to them.               *)
LEMMA FlagRest ==
    ASSUME IoInv, NEW h, NEW v \in BOOLEAN, UNCHANGED <<plan, dropVars>>,
           \/ objs' = [objs EXCEPT ![h].in = v]
           \/ objs' = [objs EXCEPT ![h].open = v]
           \/ objs' = [objs EXCEPT ![h].notify = 0]
    PROVE  Rest
BY ObjFlag DEF Rest

(* The listener of a characteristic is set.                                *)
LEMMA ListenRest ==
    ASSUME IoInv, NEW h, NEW i \in DOMAIN ops, objs' = [objs EXCEPT ![h].notify = i],
           Table[ops[i].code].form = "listen", ops'[i].said, UNCHANGED <<plan, dropVars>>
    PROVE  Rest
<1>1. objs \in Seq(Obj) /\ \A g \in DOMAIN objs : StreamOK(objs[g])
  BY DEF IoInv, IoTypes
<1>2. CASE h \in DOMAIN objs
  <2>1. PICK x \in Obj : x = objs[h]
    BY <1>1, <1>2
  <2>2. PICK r : r = [objs[h] EXCEPT !.notify = i]
    OBVIOUS
  <2>3. objs' = [objs EXCEPT ![h] = r]
    BY <2>2, Zenon
  <2>4. i \in Nat
    BY DEF IoInv, IoTypes
  <2>5. r \in Obj /\ r.kind = x.kind /\ r.rx = x.rx /\ r.sent = x.sent /\ r.got = x.got /\ r.notify = i
    BY <2>1, <2>2, <2>4 DEF Obj
  <2>6. StreamOK(r)
    BY <1>1, <1>2, <2>1, <2>5, StreamSame
  <2>7. /\ ObjsGood /\ objs'[h] = r
        /\ \A g \in DOMAIN objs' : g \in DOMAIN objs /\ (g # h => objs'[g] = objs[g])
    BY <1>2, <2>3, <2>5, <2>6, ObjReplaced
  <2>8. NotifyKept
    BY <2>5, <2>7 DEF NotifyKept
  <2> QED BY <2>7, <2>8 DEF Rest
<1>3. CASE h \notin DOMAIN objs
  <2>1. objs' = objs
    BY <1>1, <1>3
  <2> QED BY <2>1, SameObjs DEF Rest
<1> QED BY <1>2, <1>3

(* A promise is fulfilled.                                                 *)
LEMMA FulfilledKeeps ==
    ASSUME IoInv, NEW i \in DOMAIN ops, Fulfilled(i)
    PROVE  IoInv'
<1>1. /\ ops[i].at = "promise" /\ UNCHANGED <<plan, dropVars>> /\ pend' = pend
      /\ ops[i].code \in Opcode
  <2>1. Here(i, "promise") /\ UNCHANGED <<plan, pend, dropVars>>
    BY DEF Fulfilled
  <2>2. ops[i] \in Op
    BY DEF IoInv, IoTypes
  <2>3. ops[i].code \in Opcode
    BY <2>2 DEF Op
  <2> QED BY <2>1, <2>3 DEF Here
<1>2. PICK form, h : form = Table[ops[i].code].form /\ h = ops[i].on
  OBVIOUS
<1>3. \/ form = "ask" /\ Ends(i)
         /\ objs' = IF Gives(i) = "none" THEN objs ELSE Append(objs, Object(Gives(i)))
      \/ form = "open" /\ Ends(i) /\ objs' = [objs EXCEPT ![h].open = TRUE]
      \/ form = "finish" /\ Ends(i) /\ objs' = [objs EXCEPT ![h].in = FALSE]
      \/ form = "listen" /\ Says(ops, i, "watch", TRUE) /\ objs' = [objs EXCEPT ![h].notify = i]
      \/ form = "nfc" /\ Goes(i, "watch") /\ UNCHANGED objs
      \/ form = "clip" /\ (Ends(i) \/ Goes(i, "blob")) /\ UNCHANGED objs
      \/ form = "idle" /\ (Ends(i) \/ Goes(i, "start")) /\ UNCHANGED objs
  BY <1>2, Zenon DEF Fulfilled, FormOf
<1>4. CASE Ends(i) /\ objs' = IF Gives(i) = "none" THEN objs ELSE Append(objs, Object(Gives(i)))
  <2>1. Gives(i) \in ObjKind
    BY <1>1 DEF Gives, ObjKind
  <2>2. Rest
    <3>1. CASE objs' = objs
      BY <1>1, <3>1, NoObjs
    <3>2. CASE objs' = Append(objs, Object(Gives(i)))
      BY <1>1, <2>1, <3>2, MakesOne
    <3> QED BY <1>4, <3>1, <3>2
  <2> QED BY <1>1, <1>4, <2>2, EndsKeeps
<1>5. CASE Ends(i) /\ objs' = [objs EXCEPT ![h].open = TRUE]
  <2>1. Rest
    BY <1>1, <1>5, FlagRest
  <2> QED BY <1>1, <1>5, <2>1, EndsKeeps
<1>6. CASE Ends(i) /\ objs' = [objs EXCEPT ![h].in = FALSE]
  <2>1. Rest
    BY <1>1, <1>6, FlagRest
  <2> QED BY <1>1, <1>6, <2>1, EndsKeeps
<1>7. CASE form = "listen" /\ Says(ops, i, "watch", TRUE) /\ objs' = [objs EXCEPT ![h].notify = i]
  <2>1. ops'[i].said
    <3>1. PICK o : o = ops[i]
      OBVIOUS
    <3>2. ops \in Seq(Op) /\ o \in Op /\ But(ops, i, o) /\ "watch" \in Places
      BY <3>1 DEF IoInv, IoTypes, But, Places
    <3>3. EndedOp(i, o, "watch", TRUE)
      BY <1>7, <3>2, SaysOld
    <3>4. PICK r \in Op : ops' = [ops EXCEPT ![i] = r] /\ r.said = TRUE
      BY <3>3 DEF EndedOp
    <3> QED BY <3>4
  <2>2. Rest
    BY <1>1, <1>2, <1>7, <2>1, ListenRest
  <2> QED BY <1>1, <1>7, <2>2, OldSaid
<1>8. CASE form = "nfc" /\ Goes(i, "watch") /\ UNCHANGED objs
  <2>1. ops[i].said
    BY <1>1, <1>2, <1>8 DEF IoInv, OpsOK, OpOK
  <2>2. Rest
    BY <1>1, <1>8, NoObjs
  <2> QED BY <1>1, <1>8, <2>1, <2>2, OldGoes
<1>9. CASE (Ends(i) \/ Goes(i, "blob") \/ Goes(i, "start")) /\ UNCHANGED objs
  <2>1. Rest
    BY <1>1, <1>9, NoObjs
  <2> QED BY <1>1, <1>9, <2>1, EndsKeeps, OldGoes
<1> QED BY <1>3, <1>4, <1>5, <1>6, <1>7, <1>8, <1>9

(* A promise is rejected.                                                  *)
LEMMA RejectedKeeps ==
    ASSUME IoInv, NEW i \in DOMAIN ops, Rejected(i)
    PROVE  IoInv'
<1>1. ops[i].at = "promise" /\ UNCHANGED <<plan, objs, dropVars>> /\ pend' = pend
  BY DEF Rejected, Here
<1>2. Ends(i) \/ Goes(i, "lost")
  BY DEF Rejected
<1>3. Rest
  BY <1>1, NoObjs
<1> QED BY <1>1, <1>2, <1>3, EndsKeeps, OldGoes

(* One of several promises settles.                                        *)
LEMMA PartSettledKeeps ==
    ASSUME IoInv, NEW i \in DOMAIN ops, PartSettled(i)
    PROVE  IoInv'
<1>1. /\ ops[i].at = "promise" /\ UNCHANGED <<plan, dropVars>> /\ pend' = pend
      /\ Table[ops[i].code].form = "parts"
  BY DEF PartSettled, Here, FormOf
<1>2. RoleKind \subseteq ObjKind
  BY DEF ObjKind
<1>3. Rest
  <2>1. CASE UNCHANGED objs
    BY <1>1, <2>1, NoObjs
  <2>2. CASE \E kind \in RoleKind : objs' = Append(objs, Object(kind))
    BY <1>1, <1>2, <2>2, MakesOne
  <2> QED BY <2>1, <2>2 DEF PartSettled
<1>4. CASE Ends(i)
  BY <1>1, <1>3, <1>4, EndsKeeps
<1>5. CASE ops[i].parts # 1 /\ ops' = [ops EXCEPT ![i].parts = @ - 1] /\ UNCHANGED queue
  <2>1. PICK o : o = ops[i]
    OBVIOUS
  <2>2. ops \in Seq(Op) /\ o \in Op /\ queue' \in Seq(EventsOf)
    BY <1>5, <2>1 DEF IoInv, IoTypes, EventsOf
  <2>3. OpOK(o) /\ o.parts \in 0 .. 2
    BY <2>1, <2>2 DEF IoInv, OpsOK, Op
  <2>4. o.parts > 0
    BY <1>1, <2>1, <2>3 DEF OpOK
  <2>5. o.parts - 1 = 1
    BY <1>5, <2>1, <2>3, <2>4
  <2>6. PICK r : r = [o EXCEPT !.parts = 1]
    OBVIOUS
  <2>7. ops' = [ops EXCEPT ![i] = r]
    BY <1>5, <2>1, <2>5, <2>6
  <2>8. /\ r \in Op /\ r.code = o.code /\ r.on = o.on /\ r.at = o.at /\ r.said = o.said
        /\ r.late = o.late /\ r.finals = o.finals /\ r.parts = 1
    BY <2>2, <2>6 DEF Op
  <2>9. OpOK(r) /\ ~Pending(r) /\ ~Pending(ops[i])
    BY <1>1, <2>1, <2>3, <2>8 DEF OpOK, Pending
  <2>10. LenSame
    BY <1>3, LenKept DEF Rest
  <2>11. OpsGood
    BY <1>1, <2>1, <2>7, <2>8, <2>9, <2>10, OpReplaced DEF LenSame
  <2> QED BY <1>3, <2>2, <2>11, GoodStep DEF Rest
<1> QED BY <1>4, <1>5 DEF PartSettled

(* The second promise of an operation, or its utterance.                   *)
LEMMA ContinuesKeeps ==
    ASSUME IoInv, NEW i \in DOMAIN ops, Continues(i)
    PROVE  IoInv'
<1>1. UNCHANGED <<plan, objs, dropVars>> /\ pend' = pend
  BY DEF Continues
<1>2. Rest
  BY <1>1, NoObjs
<1>3. CASE ops[i].at = "start" /\ Says(ops, i, "watch", TRUE)
  BY <1>1, <1>2, <1>3, OldSaid
<1>4. CASE ops[i].at \in {"start", "blob", "voice"} /\ Ends(i)
  BY <1>1, <1>2, <1>4, EndsKeeps
<1>5. CASE ops[i].at = "blob" /\ Goes(i, "lost")
  BY <1>1, <1>2, <1>5, OldGoes
<1> QED BY <1>3, <1>4, <1>5 DEF Continues, Here

(* A timer fires.                                                          *)
LEMMA ExpiresKeeps ==
    ASSUME IoInv, NEW i \in DOMAIN ops, Expires(i)
    PROVE  IoInv'
<1>1. /\ UNCHANGED <<plan, objs, dropVars>> /\ pend' = pend \ {i} /\ ops[i].at = "timer"
      /\ Says(ops, i, "done", FALSE)
  BY DEF Expires, Here, Ends
<1>2. Rest
  BY <1>1, NoObjs
<1> QED BY <1>1, <1>2, OldSaid

(* A socket opens.                                                         *)
LEMMA SocketOpensKeeps ==
    ASSUME IoInv, NEW i \in DOMAIN ops, SocketOpens(i)
    PROVE  IoInv'
<1>1. /\ UNCHANGED <<plan, dropVars>> /\ pend' = pend \ {i} /\ ops[i].at = "connect"
      /\ Says(ops, i, "linked", FALSE) /\ objs' = Append(objs, Object("websocket"))
  BY DEF SocketOpens, Here
<1>2. "websocket" \in ObjKind
  BY DEF ObjKind
<1>3. Rest
  BY <1>1, <1>2, MakesOne
<1>4. Table[ops[i].code].form = "connect"
  BY <1>1 DEF IoInv, OpsOK, OpOK
<1> QED BY <1>1, <1>3, <1>4, OldSaid

(* A socket fails.                                                         *)
LEMMA SocketFailsKeeps ==
    ASSUME IoInv, NEW i \in DOMAIN ops, SocketFails(i)
    PROVE  IoInv'
<1>1. PICK all : all = IF ops[i].at = "linked" THEN [ops EXCEPT ![i].late = TRUE] ELSE ops
  OBVIOUS
<1>2. /\ Says(all, i, "done", FALSE) /\ pend' = pend \ {i}
      /\ UNCHANGED <<plan, objs, dropVars>> /\ ops[i].at \in {"connect", "linked"}
  BY <1>1, Zenon DEF SocketFails
<1>3. PICK x : x = ops[i]
  OBVIOUS
<1>4. ops \in Seq(Op) /\ x \in Op
  BY <1>3 DEF IoInv, IoTypes
<1>5. OpOK(x) /\ x.finals \in 0 .. 2
  BY <1>3, <1>4 DEF IoInv, OpsOK, Op
<1>6. PICK o : o = IF x.at = "linked" THEN [x EXCEPT !.late = TRUE] ELSE x
  OBVIOUS
<1>7. But(all, i, o)
  <2>1. CASE x.at = "linked"
    BY <1>1, <1>3, <1>6, <2>1, Zenon DEF But
  <2>2. CASE x.at # "linked"
    BY <1>1, <1>3, <1>4, <1>6, <2>2 DEF But
  <2> QED BY <2>1, <2>2
<1>8. /\ o \in Op /\ o.code = x.code /\ o.on = x.on /\ o.finals = x.finals
      /\ o.late = IF x.at = "linked" THEN TRUE ELSE x.late
  <2>1. CASE x.at = "linked"
    BY <1>4, <1>6, <2>1 DEF Op
  <2>2. CASE x.at # "linked"
    BY <1>4, <1>6, <2>2
  <2> QED BY <2>1, <2>2
<1>9. queue' \in Seq(EventsOf) /\ "done" \in Places
  <2>1. "done" \in Places
    BY DEF Places
  <2> QED BY <1>2, <1>7, <1>8, <2>1, SaysOld
<1>10. EndedOp(i, o, "done", FALSE)
  BY <1>2, <1>7, <1>8, <1>9, SaysOld
<1>11. PICK r \in Op : /\ ops' = [ops EXCEPT ![i] = r] /\ r.code = o.code /\ r.on = o.on
                       /\ r.at = "done" /\ r.said = TRUE /\ r.late = o.late
  BY <1>10 DEF EndedOp
<1>12. Table[x.code].form = "connect" /\ (x.at = "connect" /\ x.finals > 0 => x.late)
  BY <1>2, <1>3, <1>5 DEF OpOK
<1>13. r.finals > 1 => r.late
  <2>1. r.finals = IF o.finals = 2 THEN 2 ELSE o.finals + 1
    BY <1>5, <1>8, <1>10, <1>11 DEF EndedOp
  <2> QED BY <1>2, <1>3, <1>5, <1>8, <1>11, <1>12, <2>1
<1>14. OpOK(r) /\ ~Pending(r)
  BY <1>8, <1>11, <1>12, <1>13 DEF OpOK, Pending
<1>15. Rest /\ LenSame
  BY <1>2, NoObjs
<1>16. OpsGood
  BY <1>2, <1>3, <1>8, <1>11, <1>14, <1>15, OpReplaced DEF LenSame
<1> QED BY <1>9, <1>15, <1>16, GoodStep DEF Rest

(* A watch tells something.                                                *)
LEMMA WatchedKeeps ==
    ASSUME IoInv, NEW i \in DOMAIN ops, Watched(i)
    PROVE  IoInv'
<1>1. UNCHANGED <<plan, objs, dropVars>> /\ pend' = pend /\ ops[i].at = "watch"
  BY DEF Watched, Here
<1>2. PICK more \in BOOLEAN : /\ Says(ops, i, "watch", more)
                              /\ more \/ Table[ops[i].code].form \in {"geo", "idle"}
  BY DEF Watched, FormOf
<1>3. Rest
  BY <1>1, NoObjs
<1> QED BY <1>1, <1>2, <1>3, OldSaid

-----------------------------------------------------------------------------
(* The guest's other imports.                                              *)

(* Some numbers have a least.                                              *)
LEMMA LeastOf ==
    ASSUME NEW S \in SUBSET Nat, S # {}
    PROVE  \E i \in S : \A j \in S : i <= j
<1>1. SUFFICES ASSUME \A i \in S : \E j \in S : j < i PROVE FALSE
  OBVIOUS
<1> DEFINE T == {n \in Nat : \A k \in S : k >= n}
<1>2. 0 \in T
  OBVIOUS
<1>3. ASSUME NEW n \in Nat, n \in T PROVE n + 1 \in T
  <2>1. \A k \in S : k >= n /\ k \in Nat
    BY <1>3
  <2>2. n \notin S
    BY <1>1, <2>1
  <2> QED BY <2>1, <2>2
<1> HIDE DEF T
<1>4. Nat \subseteq T
  BY <1>2, <1>3, NatSetInduction
<1>5. PICK s \in S : s \in Nat
  OBVIOUS
<1>6. s + 1 \in T
  BY <1>4, <1>5
<1>7. s >= s + 1
  BY <1>5, <1>6 DEF T
<1> QED BY <1>5, <1>7

(* cancel: of a timer, and of a socket that goes on.                       *)
LEMMA CancelKeeps ==
    ASSUME IoInv, NEW ud, Cancel(ud)
    PROVE  IoInv'
<1>1. PICK found : found = {i \in pend : ops[i].ud = ud}
  OBVIOUS
<1>2. ops \in Seq(Op) /\ pend \subseteq DOMAIN ops /\ DOMAIN ops \subseteq Nat
  BY DEF IoInv, IoTypes
<1>3. PICK i : i = CHOOSE k \in found : \A j \in found : k <= j
  OBVIOUS
<1>4. /\ found # {} /\ UNCHANGED <<plan, objs, dropVars>> /\ pend' = pend \ {i}
      /\ Says([ops EXCEPT ![i] = Cancelled(ops[i])], i, Cancelled(ops[i]).at, FALSE)
  BY <1>1, <1>3, Zenon DEF Cancel
<1>5. i \in DOMAIN ops /\ i \in pend
  <2>1. \E k \in found : \A j \in found : k <= j
    BY <1>1, <1>2, <1>4, LeastOf
  <2> QED BY <1>1, <1>2, <1>3, <2>1
<1>6. PICK x, o : x = ops[i] /\ o = Cancelled(x)
  OBVIOUS
<1>7. x \in Op /\ OpOK(x) /\ Pending(x) /\ x.finals \in 0 .. 2
  <2>1. x \in Op
    BY <1>2, <1>5, <1>6
  <2> QED BY <1>5, <1>6, <2>1 DEF IoInv, OpsOK, Op
<1>8. x.finals = 0
  BY <1>7 DEF OpOK, Pending
<1>9. /\ o \in Op /\ o.code = x.code /\ o.on = x.on /\ o.finals = 0
      /\ \/ x.at = "timer" /\ o.at = "done" /\ o.late = x.late
         \/ x.at = "connect" /\ o.at = "connect" /\ o.late = TRUE
  <2>1. CASE x.at = "timer"
    <3>1. o = [x EXCEPT !.at = "done"]
      BY <1>6, <2>1 DEF Cancelled
    <3> QED BY <1>7, <1>8, <2>1, <3>1 DEF Op, Places
  <2>2. CASE x.at = "connect"
    <3>1. o = [x EXCEPT !.late = TRUE]
      BY <1>6, <2>2 DEF Cancelled
    <3> QED BY <1>7, <1>8, <2>2, <3>1 DEF Op
  <2> QED BY <1>7, <2>1, <2>2 DEF Pending
<1>10. PICK at, all : at = o.at /\ all = [ops EXCEPT ![i] = o]
  OBVIOUS
<1>11. Says(all, i, at, FALSE) /\ But(all, i, o) /\ at \in Places
  BY <1>4, <1>6, <1>9, <1>10 DEF But, Places
<1>12. queue' \in Seq(EventsOf)
  BY <1>5, <1>9, <1>11, SaysOld
<1>13. EndedOp(i, o, at, FALSE)
  BY <1>5, <1>9, <1>11, SaysOld
<1>14. PICK r \in Op : /\ ops' = [ops EXCEPT ![i] = r] /\ r.code = o.code /\ r.on = o.on
                       /\ r.at = at /\ r.said = TRUE /\ r.late = o.late /\ r.finals = 1
  <2>1. (IF FALSE \/ o.finals = 2 THEN o.finals ELSE o.finals + 1) = 1
    BY <1>9
  <2> QED BY <1>13, <2>1 DEF EndedOp
<1>15. OpOK(r) /\ ~Pending(r)
  <2>1. x.at = "connect" => Table[x.code].form = "connect"
    BY <1>7 DEF OpOK
  <2>2. x.late => Table[x.code].form = "connect"
    BY <1>7 DEF OpOK
  <2> QED BY <1>9, <1>10, <1>14, <2>1, <2>2 DEF OpOK, Pending
<1>16. Rest /\ LenSame
  BY <1>4, NoObjs
<1>17. OpsGood
  BY <1>4, <1>5, <1>6, <1>9, <1>14, <1>15, <1>16, OpReplaced DEF LenSame
<1> QED BY <1>12, <1>16, <1>17, GoodStep DEF Rest

(* The operations stay.                                                    *)
LEMMA SameOps ==
    ASSUME IoInv, ops' = ops, pend' = pend, LenSame
    PROVE  OpsGood
<1>1. ops \in Seq(Op) /\ pend \subseteq DOMAIN ops /\ Len(ops) \in Nat
  BY DEF IoInv, IoTypes
<1>2. \A i \in DOMAIN ops : OpOK(ops[i]) /\ (i \in pend <=> Pending(ops[i]))
  BY DEF IoInv, OpsOK
<1>3. \A i \in DOMAIN ops : ops[i].on <= Len(objs')
  <2>1. \A x \in Op : x.on \in Nat
    BY DEF Op
  <2>2. \A i \in DOMAIN ops : ops[i] \in Op /\ ops[i].on <= Len(objs)
    BY <1>1 DEF IoInv, IoTypes
  <2> QED BY <2>1, <2>2 DEF LenSame
<1> QED BY <1>1, <1>2, <1>3 DEF OpsGood

(* poll.                                                                   *)
LEMMA PollKeeps ==
    ASSUME IoInv, Poll
    PROVE  IoInv'
<1>1. UNCHANGED <<plan, objs, dropVars>> /\ ops' = ops /\ pend' = pend
  BY DEF Poll
<1>2. Rest /\ LenSame
  BY <1>1, NoObjs
<1>3. queue' \in Seq(EventsOf)
  <2>1. queue \in Seq(EventsOf) /\ queue # <<>> /\ queue' = Tail(queue)
    BY DEF Poll, IoInv, IoTypes, EventsOf
  <2> QED BY <2>1
<1> QED BY <1>1, <1>2, <1>3, SameOps, GoodStep DEF Rest

(* Kept, one event more.                                                   *)
KeptStep(q, types, k, rest) ==
    IF k = 0 THEN <<>> ELSE IF q[k][1] \in types THEN rest ELSE Append(rest, q[k])

IsKept(q, types, n, f) == f = [k \in 0 .. n |-> KeptStep(q, types, k, f[k - 1])]

(* Kept is defined for every sequence.                                     *)
LEMMA KeptExists ==
    ASSUME NEW q, NEW types, NEW L \in Nat
    PROVE  \E f : IsKept(q, types, L, f)
<1> DEFINE S == {n \in Nat : \E f : IsKept(q, types, n, f)}
<1>1. 0 \in S
  <2>1. PICK e : e = [k \in 0 .. 0 |-> <<>>]
    OBVIOUS
  <2>2. \A x : KeptStep(q, types, 0, x) = <<>>
    BY DEF KeptStep
  <2>3. IsKept(q, types, 0, e)
    BY <2>1, <2>2 DEF IsKept
  <2> QED BY <2>3
<1>2. ASSUME NEW n \in Nat, n \in S PROVE n + 1 \in S
  <2>1. PICK f : IsKept(q, types, n, f)
    BY <1>2
  <2>2. PICK g : g = [k \in 0 .. n + 1 |-> KeptStep(q, types, k, f[k - 1])]
    OBVIOUS
  <2>3. \A k \in 0 .. n : g[k] = f[k]
    BY <2>1, <2>2 DEF IsKept
  <2>4. \A k \in 0 .. n + 1 : KeptStep(q, types, k, f[k - 1]) = KeptStep(q, types, k, g[k - 1])
    <3>1. \A k \in 0 .. n + 1 : k # 0 => k - 1 \in 0 .. n
      OBVIOUS
    <3>2. \A k \in 0 .. n + 1 : k # 0 => f[k - 1] = g[k - 1]
      BY <3>1, <2>3
    <3>3. \A x, y : KeptStep(q, types, 0, x) = KeptStep(q, types, 0, y)
      BY DEF KeptStep
    <3> QED BY <3>2, <3>3
  <2>5. IsKept(q, types, n + 1, g)
    BY <2>2, <2>4 DEF IsKept
  <2> QED BY <2>5
<1> HIDE DEF S
<1>3. L \in S
  BY <1>1, <1>2, NatSetInduction
<1> QED BY <1>3 DEF S

(* What is kept of events is events.                                       *)
LEMMA KeptTyped ==
    ASSUME NEW q \in Seq(EventsOf), NEW types
    PROVE  Kept(q, types) \in Seq(EventsOf)
<1>1. PICK L \in Nat : L = Len(q)
  OBVIOUS
<1>2. PICK f : f = CHOOSE g : IsKept(q, types, L, g)
  OBVIOUS
<1>3. Kept(q, types) = f[L]
  BY <1>1, <1>2, Zenon DEF Kept, IsKept, KeptStep
<1>4. IsKept(q, types, L, f)
  BY <1>2, KeptExists
<1>5. \A k \in 0 .. L : f[k] = KeptStep(q, types, k, f[k - 1])
  BY <1>4 DEF IsKept
<1> DEFINE S == {k \in Nat : k <= L => f[k] \in Seq(EventsOf)}
<1>6. 0 \in S
  <2>1. f[0] = KeptStep(q, types, 0, f[0 - 1])
    BY <1>5
  <2>2. \A x : KeptStep(q, types, 0, x) = <<>>
    BY DEF KeptStep
  <2>3. f[0] = <<>>
    BY <2>1, <2>2, Zenon
  <2> QED BY <2>3, EmptySeq
<1>7. ASSUME NEW k \in Nat, k \in S PROVE k + 1 \in S
  <2> SUFFICES ASSUME k + 1 <= L PROVE f[k + 1] \in Seq(EventsOf)
    OBVIOUS
  <2>1. PICK j \in 1 .. L : j = k + 1 /\ j # 0 /\ j - 1 = k /\ j \in 0 .. L
    OBVIOUS
  <2>2. f[j] = KeptStep(q, types, j, f[k])
    BY <1>5, <2>1
  <2>3. f[k] \in Seq(EventsOf) /\ q[j] \in EventsOf
    BY <1>1, <1>7, <2>1
  <2>4. f[j] = f[k] \/ f[j] = Append(f[k], q[j])
    BY <2>1, <2>2 DEF KeptStep
  <2>5. PICK a \in Seq(EventsOf), e \in EventsOf : a = f[k] /\ e = q[j]
    BY <2>3
  <2>6. Append(a, e) \in Seq(EventsOf)
    BY <2>5, AppendProperties
  <2>7. f[j] \in Seq(EventsOf)
    BY <2>4, <2>5, <2>6
  <2> QED BY <2>1, <2>7
<1> HIDE DEF S
<1>8. L \in S
  BY <1>6, <1>7, NatSetInduction
<1> QED BY <1>3, <1>8 DEF S

(* flush.                                                                  *)
LEMMA FlushKeeps ==
    ASSUME IoInv, NEW types, Flush(types)
    PROVE  IoInv'
<1>1. UNCHANGED <<plan, objs, dropVars>> /\ ops' = ops /\ pend' = pend
  BY DEF Flush
<1>2. Rest /\ LenSame
  BY <1>1, NoObjs
<1>3. queue' \in Seq(EventsOf)
  <2>1. queue \in Seq(EventsOf) /\ queue' = Kept(queue, types)
    BY DEF Flush, IoInv, IoTypes, EventsOf
  <2> QED BY <2>1, KeptTyped
<1> QED BY <1>1, <1>2, <1>3, SameOps, GoodStep DEF Rest

(* close of any handle.                                                    *)
LEMMA RemovesKeeps ==
    ASSUME IoInv, NEW h \in Handle, Removes(h)
    PROVE  IoInv'
<1>1. /\ UNCHANGED <<plan, dropVars>> /\ ops' = ops /\ pend' = pend /\ queue' = queue
      /\ objs' = [objs EXCEPT ![h].in = FALSE]
  BY DEF Removes
<1>2. Rest
  BY <1>1, FlagRest
<1>3. LenSame
  BY <1>2, LenKept DEF Rest
<1>4. queue' \in Seq(EventsOf)
  BY <1>1 DEF IoInv, IoTypes, EventsOf
<1> QED BY <1>1, <1>2, <1>3, <1>4, SameOps, GoodStep DEF Rest

(* An operation whose watch is stopped is done.                            *)
LEMMA DoneIs ==
    ASSUME IoInv, NEW i \in DOMAIN ops, NEW r, r = [ops[i] EXCEPT !.at = "done"],
           ops[i].said, Table[ops[i].code].form = "listen" \/ ops[i].at = "watch"
    PROVE  /\ r \in Op /\ r.code = ops[i].code /\ r.on = ops[i].on /\ r.said
           /\ OpOK(r) /\ ~Pending(r) /\ ~Pending(ops[i])
<1>1. PICK x : x = ops[i]
  OBVIOUS
<1>2. ops \in Seq(Op) /\ x \in Op
  BY <1>1 DEF IoInv, IoTypes
<1>3. OpOK(x)
  BY <1>1 DEF IoInv, OpsOK
<1>4. "done" \in Places
  BY DEF Places
<1>5. /\ r \in Op /\ r.code = x.code /\ r.on = x.on /\ r.said = x.said /\ r.at = "done"
      /\ r.finals = x.finals /\ r.late = x.late
  BY <1>1, <1>2, <1>4 DEF Op
<1>6. ~Pending(x)
  BY <1>1, <1>3 DEF OpOK, Pending
<1>7. OpOK(r) /\ ~Pending(r)
  BY <1>1, <1>3, <1>5 DEF OpOK, Pending
<1> QED BY <1>1, <1>5, <1>6, <1>7

(* The ends of devices, listeners and watches.                             *)
LEMMA StopsKeeps ==
    ASSUME IoInv, NEW h \in Handle, Stops(h)
    PROVE  IoInv'
<1>1. UNCHANGED <<plan, dropVars>> /\ pend' = pend /\ queue' \in Seq(EventsOf)
  BY DEF Stops, IoInv, IoTypes, EventsOf
<1>2. ops \in Seq(Op) /\ pend \subseteq DOMAIN ops /\ Len(ops) \in Nat /\ DOMAIN ops = 1 .. Len(ops)
  BY DEF IoInv, IoTypes
<1>3. h \in DOMAIN objs
  BY DEF Handle, IoInv, IoTypes
<1>4. CASE objs' = [objs EXCEPT ![h].open = FALSE] /\ UNCHANGED ops
  <2>1. Rest
    BY <1>1, <1>4, FlagRest
  <2>2. LenSame
    BY <2>1, LenKept DEF Rest
  <2> QED BY <1>1, <1>4, <2>1, <2>2, SameOps, GoodStep DEF Rest
<1>5. CASE /\ objs[h].notify # 0 /\ objs' = [objs EXCEPT ![h].notify = 0]
           /\ ops' = [ops EXCEPT ![objs[h].notify].at = "done"]
  <2>1. Rest
    BY <1>1, <1>5, FlagRest
  <2>2. LenSame
    BY <2>1, LenKept DEF Rest
  <2>3. PICK i : i = objs[h].notify
    OBVIOUS
  <2>4. i \in DOMAIN ops /\ Table[ops[i].code].form = "listen" /\ ops[i].said
    BY <1>3, <1>5, <2>3 DEF IoInv, OpsOK
  <2>5. PICK r : r = [ops[i] EXCEPT !.at = "done"]
    OBVIOUS
  <2>6. ops' = [ops EXCEPT ![i] = r]
    BY <1>5, <2>3, <2>5, Zenon
  <2>7. /\ r \in Op /\ r.code = ops[i].code /\ r.on = ops[i].on /\ r.said
        /\ OpOK(r) /\ ~Pending(r) /\ ~Pending(ops[i])
    BY <2>4, <2>5, DoneIs
  <2>8. OpsGood
    BY <1>1, <2>2, <2>4, <2>6, <2>7, OpReplaced DEF LenSame
  <2> QED BY <1>1, <2>1, <2>8, GoodStep DEF Rest
<1>6. CASE /\ objs' = [objs EXCEPT ![h].in = FALSE]
           /\ ops' = [i \in DOMAIN ops |->
                 IF ops[i].at = "watch" /\ ops[i].on = h THEN [ops[i] EXCEPT !.at = "done"] ELSE ops[i]]
  <2>1. Rest
    BY <1>1, <1>6, FlagRest
  <2>2. LenSame
    BY <2>1, LenKept DEF Rest
  <2>3. DOMAIN ops' = DOMAIN ops
    BY <1>6
  <2>4. ASSUME NEW i \in DOMAIN ops
        PROVE  /\ ops'[i] \in Op /\ OpOK(ops'[i]) /\ (i \in pend <=> Pending(ops'[i]))
               /\ ops'[i].on = ops[i].on /\ ops'[i].code = ops[i].code /\ (ops[i].said => ops'[i].said)
    <3>1. ops[i] \in Op /\ OpOK(ops[i]) /\ (i \in pend <=> Pending(ops[i]))
      BY <1>2 DEF IoInv, OpsOK
    <3>2. CASE ops[i].at = "watch" /\ ops[i].on = h
      <4>1. ops'[i] = [ops[i] EXCEPT !.at = "done"]
        BY <1>6, <3>2
      <4>2. ops[i].said
        BY <3>1, <3>2 DEF OpOK
      <4>3. PICK r : r = [ops[i] EXCEPT !.at = "done"] /\ r = ops'[i]
        BY <4>1
      <4>4. /\ r \in Op /\ r.code = ops[i].code /\ r.on = ops[i].on /\ r.said
            /\ OpOK(r) /\ ~Pending(r) /\ ~Pending(ops[i])
        BY <3>2, <4>2, <4>3, DoneIs
      <4> QED BY <3>1, <4>3, <4>4
    <3>3. CASE ~(ops[i].at = "watch" /\ ops[i].on = h)
      <4>1. ops'[i] = ops[i]
        BY <1>6, <3>3
      <4> QED BY <3>1, <4>1
    <3> QED BY <3>2, <3>3
  <2>5. ops' \in Seq(Op) /\ Len(ops') = Len(ops)
    <3>1. ops' = [i \in 1 .. Len(ops) |-> ops'[i]]
      BY <1>2, <1>6, <2>3
    <3>2. \A i \in 1 .. Len(ops) : ops'[i] \in Op
      BY <1>2, <2>4
    <3> QED BY <1>2, <3>1, <3>2
  <2>6. \A i \in DOMAIN ops : ops'[i].on <= Len(objs')
    <3>1. \A x \in Op : x.on \in Nat
      BY DEF Op
    <3>2. \A i \in DOMAIN ops : ops[i] \in Op /\ ops[i].on <= Len(objs)
      BY <1>2 DEF IoInv, IoTypes
    <3> QED BY <2>2, <2>4, <3>1, <3>2 DEF LenSame
  <2>7. OpsGood
    BY <1>1, <1>2, <2>3, <2>4, <2>5, <2>6 DEF OpsGood
  <2> QED BY <1>1, <2>1, <2>7, GoodStep DEF Rest
<1> QED BY <1>4, <1>5, <1>6 DEF Stops

-----------------------------------------------------------------------------
(* Bytes.                                                                  *)

(* An object that changes alone.                                           *)
LEMMA ReplacedRest ==
    ASSUME IoInv, NEW h \in DOMAIN objs, NEW r \in Obj, StreamOK(r), r.notify = objs[h].notify,
           objs' = [objs EXCEPT ![h] = r], UNCHANGED <<plan, dropVars>>
    PROVE  Rest
BY ObjReplaced DEF Rest

(* Bytes arrive.                                                           *)
LEMMA ArrivesKeeps ==
    ASSUME IoInv, NEW h \in Handle, NEW n \in 1 .. 2, Arrives(h, n)
    PROVE  IoInv'
<1>1. /\ UNCHANGED <<plan, dropVars>> /\ ops' = ops /\ pend' = pend /\ queue' \in Seq(EventsOf)
  BY DEF Arrives, IoInv, IoTypes, EventsOf
<1>2. h \in DOMAIN objs /\ objs \in Seq(Obj) /\ StreamOK(objs[h])
  BY DEF Handle, IoInv, IoTypes
<1>3. PICK x \in Obj : x = objs[h]
  BY <1>2
<1>4. x.sent \in Nat /\ x.rx \in Seq(Seq(Nat)) /\ n \in Nat
  BY DEF Obj
<1>5. PICK c : c = Run(x.sent, n)
  OBVIOUS
<1>6. c \in Seq(Nat) /\ c = [k \in 1 .. n |-> objs[h].sent + k]
  BY <1>3, <1>4, <1>5, RunFacts DEF Run
<1>7. PICK s, t : s = x.sent + n /\ t = Append(x.rx, c)
  OBVIOUS
<1>8. s \in Nat /\ t \in Seq(Seq(Nat))
  BY <1>4, <1>6, <1>7, AppendProperties
<1>9. PICK r : r = [x EXCEPT !.sent = s, !.rx = t]
  OBVIOUS
<1>10. objs' = [objs EXCEPT ![h] = r]
  <2>1. objs' = [objs EXCEPT ![h].sent = @ + n,
                             ![h].rx = Append(@, [k \in 1 .. n |-> objs[h].sent + k])]
    BY DEF Arrives
  <2>2. objs' = [objs EXCEPT ![h].sent = objs[h].sent + n,
                             ![h].rx = Append(objs[h].rx, [k \in 1 .. n |-> objs[h].sent + k])]
    BY <1>2, <2>1
  <2>3. objs' = [objs EXCEPT ![h].sent = s, ![h].rx = t]
    BY <1>3, <1>6, <1>7, <2>2, Zenon
  <2> QED BY <1>2, <1>3, <1>9, <2>3
<1>11. /\ r \in Obj /\ r.kind = x.kind /\ r.rx = t /\ r.sent = s /\ r.got = x.got
       /\ r.notify = x.notify
  BY <1>8, <1>9 DEF Obj
<1>12. StreamOK(r)
  BY <1>2, <1>3, <1>4, <1>5, <1>7, <1>11, StreamArrives
<1>13. Rest
  BY <1>1, <1>2, <1>3, <1>10, <1>11, <1>12, ReplacedRest
<1>14. LenSame
  BY <1>13, LenKept DEF Rest
<1> QED BY <1>1, <1>13, <1>14, SameOps, GoodStep DEF Rest

(* Bytes are read.                                                         *)
LEMMA TakesKeeps ==
    ASSUME IoInv, NEW code \in plan.codes, NEW ud \in UserData, NEW h \in Handle,
           NEW cap \in Nat, Takes(code, h, ud, cap)
    PROVE  IoInv'
<1>1. code \in Opcode
  BY CodeFacts
<1>2. h \in DOMAIN objs /\ objs \in Seq(Obj) /\ StreamOK(objs[h])
  BY DEF Handle, IoInv, IoTypes
<1>3. PICK x \in Obj : x = objs[h]
  BY <1>2
<1>4. PICK t : t = TakenOf(x.kind, x.rx, cap)
  OBVIOUS
<1>5. /\ UNCHANGED <<plan, dropVars>> /\ pend' = pend
      /\ Says(Submitted(code, h, ud, "done", 0), Self, "done", FALSE)
      /\ objs' = [objs EXCEPT ![h].got = @ \o t.got, ![h].rx = t.rx]
  BY <1>3, <1>4, Zenon DEF Takes
<1>6. x.kind \in ObjKind /\ x.rx \in Chunks /\ x.got \in Seq(Nat)
  BY DEF Obj, Chunks
<1>7. PICK all \in Seq(Nat) : all = FlattenSeq(x.rx)
  BY <1>6, FirstRec
<1>8. PICK p \in 0 .. Len(all) : \E n \in 0 .. p :
        /\ x.kind # "midi_in" => n = p
        /\ t.got = SubSeq(all, 1, n) /\ t.rx \in Chunks /\ FlattenSeq(t.rx) = After(all, p)
  BY <1>4, <1>6, <1>7, TakenFacts
<1>9. PICK n \in 0 .. p :
        /\ x.kind # "midi_in" => n = p
        /\ t.got = SubSeq(all, 1, n) /\ t.rx \in Chunks /\ FlattenSeq(t.rx) = After(all, p)
  BY <1>8
<1>10. PICK u \in Seq(Nat) : u = t.got
  <2>1. n \in 0 .. Len(all)
    OBVIOUS
  <2>2. SubSeq(all, 1, n) \in Seq(Nat)
    <3>1. \A k \in 1 .. n : all[k] \in Nat
      OBVIOUS
    <3> QED BY <2>1, <3>1, SubSeqProperties
  <2> QED BY <1>9, <2>2
<1>11. PICK y \in Seq(Nat) : y = x.got
  BY <1>6
<1>12. PICK g \in Seq(Nat) : g = y \o u
  <2>1. y \o u \in Seq(Nat)
    BY ConcatProperties
  <2> QED BY <2>1
<1>13. PICK r : r = [x EXCEPT !.got = g, !.rx = t.rx]
  OBVIOUS
<1>14. objs' = [objs EXCEPT ![h] = r]
  <2>1. objs' = [objs EXCEPT ![h].got = objs[h].got \o t.got, ![h].rx = t.rx]
    BY <1>2, <1>5
  <2>2. objs' = [objs EXCEPT ![h].got = g, ![h].rx = t.rx]
    BY <1>3, <1>10, <1>11, <1>12, <2>1, Zenon
  <2> QED BY <1>2, <1>3, <1>13, <2>2
<1>15. /\ r \in Obj /\ r.kind = x.kind /\ r.rx = t.rx /\ r.sent = x.sent /\ r.got = g
       /\ r.notify = x.notify
  BY <1>9, <1>12, <1>13 DEF Obj, Chunks
<1>16. StreamOK(r)
  <2>1. r.got = x.got \o SubSeq(all, 1, n)
    BY <1>9, <1>10, <1>11, <1>12, <1>15, Zenon
  <2>2. FlattenSeq(r.rx) = After(all, p)
    BY <1>9, <1>15
  <2>3. StreamOK(x)
    BY <1>2, <1>3
  <2>4. p \in 0 .. Len(FlattenSeq(x.rx)) /\ n \in 0 .. p
    BY <1>7
  <2>5. /\ FlattenSeq(r.rx) = After(FlattenSeq(x.rx), p)
        /\ r.got = x.got \o SubSeq(FlattenSeq(x.rx), 1, n)
    BY <1>7, <2>1, <2>2, Zenon
  <2> QED BY <1>9, <1>15, <2>3, <2>4, <2>5, StreamTaken
<1>17. Rest
  BY <1>2, <1>3, <1>5, <1>14, <1>15, <1>16, ReplacedRest
<1>18. LenSame
  BY <1>17, LenKept DEF Rest
<1>19. h \in Nat /\ h <= Len(objs') /\ 0 \in 0 .. 2
  BY <1>18 DEF Handle, LenSame
<1> QED BY <1>1, <1>5, <1>17, <1>19, NewSaid

-----------------------------------------------------------------------------
(* Drops.                                                                  *)

DropStates == {"loading", "told", "lost"}

DropTypes ==
    /\ drops \in Seq(DropStates) /\ mixed \in BOOLEAN
    /\ stash \subseteq (DOMAIN drops) \X {"text", "file"}

(* A step that changes only the drops and the queue.                       *)
LEMMA DropStep ==
    ASSUME IoInv, UNCHANGED <<plan, ops, pend, objs>>, queue' \in Seq(EventsOf), DropTypes', DropsOK'
    PROVE  IoInv'
<1>1. IoTypes'
  BY DEF IoInv, IoTypes, DropTypes, DropStates, EventsOf
<1>2. OpsOK'
  BY DEF IoInv, OpsOK
<1>3. \A h \in DOMAIN objs' : StreamOK(objs'[h])
  BY DEF IoInv
<1> QED BY <1>1, <1>2, <1>3 DEF IoInv

(* The event of a drop is an event.                                        *)
LEMMA ToldTyped ==
    ASSUME IoInv, NEW d \in Nat, Told(d)
    PROVE  queue' \in Seq(EventsOf)
<1>1. queue \in Seq(EventsOf) /\ <<"drop", d>> \in EventsOf
  BY DEF IoInv, IoTypes, EventsOf
<1> QED BY <1>1, AppendProperties DEF Told

(* A drop on the canvas.                                                   *)
LEMMA DropKeeps ==
    ASSUME IoInv, NEW texts \in {{}, {"text"}}, NEW files \in BOOLEAN, Drop(texts, files)
    PROVE  IoInv'
<1>1. drops \in Seq(DropStates) /\ mixed \in BOOLEAN /\ queue \in Seq(EventsOf)
  BY DEF IoInv, IoTypes, DropStates, EventsOf
<1>2. PICK n \in Nat : n = Len(drops) /\ n + 1 \in Nat
  BY <1>1
<1>3. PICK s : s = IF files THEN "loading" ELSE "told"
  OBVIOUS
<1>4. /\ stash' = Stashed(n + 1, texts) /\ drops' = Append(drops, s)
      /\ (files \/ Told(n + 1)) /\ (files => queue' = queue)
      /\ mixed' = (mixed \/ \E k \in DOMAIN drops : drops[k] = "loading")
      /\ UNCHANGED <<plan, ops, pend, objs>>
  BY <1>2, <1>3 DEF Drop
<1>5. queue' \in Seq(EventsOf)
  BY <1>1, <1>2, <1>4, ToldTyped
<1>6. s \in DropStates
  BY <1>3 DEF DropStates
<1>7. /\ drops' \in Seq(DropStates) /\ Len(drops') = n + 1
      /\ \A k \in 1 .. n : drops'[k] = drops[k]
      /\ DOMAIN drops = 1 .. n /\ DOMAIN drops' = 1 .. n + 1
  BY <1>1, <1>2, <1>4, <1>6, AppendProperties
<1>8. \A x \in stash' : x[1] = n + 1 /\ x \in {n + 1} \X {"text", "file"}
  BY <1>4 DEF Stashed
<1>9. DropTypes'
  <2>1. stash' \subseteq (DOMAIN drops') \X {"text", "file"}
    BY <1>7, <1>8
  <2>2. mixed' \in BOOLEAN
    BY <1>4
  <2> QED BY <1>7, <2>1, <2>2 DEF DropTypes
<1>10. DropsOK'
  <2> SUFFICES ASSUME ~mixed' PROVE DropsOK'
    BY DEF DropsOK
  <2>1. \A k \in DOMAIN drops : drops[k] # "loading"
    BY <1>4
  <2>2. \A d \in DOMAIN drops' : drops'[d] = "loading" => d = Len(drops')
    <3>1. \A d \in DOMAIN drops' : d \in 1 .. n \/ d = n + 1
      BY <1>7
    <3> QED BY <1>7, <2>1, <3>1
  <2>3. \A x \in stash' : x[1] = Len(drops')
    BY <1>7, <1>8
  <2> QED BY <2>2, <2>3 DEF DropsOK
<1> QED BY <1>4, <1>5, <1>9, <1>10, DropStep

(* The files of a drop.                                                    *)
LEMMA FilesLoadedKeeps ==
    ASSUME IoInv, NEW d \in DOMAIN drops, FilesLoaded(d)
    PROVE  IoInv'
<1>1. /\ drops \in Seq(DropStates) /\ mixed \in BOOLEAN /\ queue \in Seq(EventsOf)
      /\ stash \subseteq (DOMAIN drops) \X {"text", "file"}
  BY DEF IoInv, IoTypes, DropStates, EventsOf
<1>2. /\ drops[d] = "loading" /\ UNCHANGED <<plan, ops, pend, objs>> /\ mixed' = mixed
      /\ \/ stash' = stash \cup ({d} \X {"file"}) /\ Told(d) /\ drops' = [drops EXCEPT ![d] = "told"]
         \/ drops' = [drops EXCEPT ![d] = "lost"] /\ stash' = stash /\ queue' = queue
  BY DEF FilesLoaded
<1>3. d \in Nat
  BY <1>1
<1>4. queue' \in Seq(EventsOf)
  BY <1>1, <1>2, <1>3, ToldTyped
<1>5. PICK s : (s = "told" \/ s = "lost") /\ drops' = [drops EXCEPT ![d] = s]
  BY <1>2
<1>6. /\ drops' \in Seq(DropStates) /\ Len(drops') = Len(drops) /\ DOMAIN drops' = DOMAIN drops
      /\ drops'[d] = s /\ \A k \in DOMAIN drops : k # d => drops'[k] = drops[k]
  <2>1. s \in DropStates
    BY <1>5 DEF DropStates
  <2> QED BY <1>1, <1>5, <2>1
<1>7. \A x \in stash' : x \in stash \/ (x[1] = d /\ x \in {d} \X {"file"})
  BY <1>2
<1>8. DropTypes'
  <2>1. stash' \subseteq (DOMAIN drops') \X {"text", "file"}
    BY <1>1, <1>6, <1>7
  <2> QED BY <1>1, <1>2, <1>6, <2>1 DEF DropTypes
<1>9. DropsOK'
  <2> SUFFICES ASSUME ~mixed PROVE DropsOK'
    BY <1>2 DEF DropsOK
  <2>1. /\ \A x \in stash : x[1] = Len(drops)
        /\ \A k \in DOMAIN drops : drops[k] = "loading" => k = Len(drops)
    BY DEF IoInv, DropsOK
  <2>2. d = Len(drops)
    BY <1>2, <2>1
  <2>3. \A x \in stash' : x[1] = Len(drops')
    BY <1>6, <1>7, <2>1, <2>2
  <2>4. \A k \in DOMAIN drops' : drops'[k] = "loading" => k = Len(drops')
    BY <1>5, <1>6, <2>1
  <2> QED BY <2>3, <2>4 DEF DropsOK
<1> QED BY <1>2, <1>4, <1>8, <1>9, DropStep

(* The items are revoked.                                                  *)
LEMMA RevokeKeeps ==
    ASSUME IoInv, Revoke
    PROVE  IoInv'
<1>1. /\ UNCHANGED <<plan, ops, pend, objs>> /\ queue' = queue /\ stash' = {}
      /\ drops' = drops /\ mixed' = mixed
  BY DEF Revoke
<1>2. queue' \in Seq(EventsOf)
  BY <1>1 DEF IoInv, IoTypes, EventsOf
<1>3. DropTypes'
  BY <1>1 DEF IoInv, IoTypes, DropTypes, DropStates
<1>4. DropsOK'
  BY <1>1 DEF IoInv, DropsOK
<1> QED BY <1>1, <1>2, <1>3, <1>4, DropStep

-----------------------------------------------------------------------------
(* All of the page's operations.                                           *)

(* The first state.                                                        *)
LEMMA IoInitKeeps ==
    ASSUME IoInit
    PROVE  IoInv
<1>1. /\ plan \in IoPlans /\ ops = <<>> /\ pend = {} /\ queue = <<>>
      /\ objs = [h \in DOMAIN plan.has |-> Object(plan.has[h])]
      /\ stash = {} /\ drops = <<>> /\ mixed = FALSE
  BY DEF IoInit
<1>2. PICK has \in Seq(ObjKind) : has = plan.has
  BY <1>1, IoAssumption
<1>3. \A h \in DOMAIN has : has[h] \in ObjKind
  OBVIOUS
<1>4. DOMAIN objs = DOMAIN has /\ \A h \in DOMAIN has : objs[h] = Object(has[h])
  BY <1>1, <1>2
<1>5. \A h \in DOMAIN has : objs[h] \in Obj /\ objs[h].notify = 0 /\ StreamOK(objs[h])
  BY <1>3, <1>4, StreamFresh
<1>6. objs \in Seq(Obj)
  <2>1. Len(has) \in Nat /\ DOMAIN has = 1 .. Len(has)
    OBVIOUS
  <2>2. objs = [h \in 1 .. Len(has) |-> objs[h]]
    BY <1>1, <1>2, <2>1
  <2> QED BY <1>5, <2>1, <2>2
<1>7. IoTypes
  <2>1. <<>> \in Seq(Op) /\ <<>> \in Seq({"io", "drop"} \X Nat) /\ <<>> \in Seq({"loading", "told", "lost"})
        /\ DOMAIN <<>> = {}
    BY EmptySeq
  <2> QED BY <1>1, <1>6, <2>1 DEF IoTypes
<1>8. OpsOK
  <2>1. DOMAIN ops = {}
    BY <1>1, EmptySeq
  <2>2. \A h \in DOMAIN objs : objs[h].notify = 0
    BY <1>4, <1>5
  <2> QED BY <2>1, <2>2 DEF OpsOK
<1>9. DropsOK
  BY <1>1 DEF DropsOK
<1> QED BY <1>4, <1>5, <1>7, <1>8, <1>9 DEF IoInv

(* Every step of the page's operations keeps their invariant.              *)
LEMMA IoStepKeeps ==
    ASSUME IoInv, IoStep
    PROVE  IoInv'
<1>1. ASSUME NEW code \in plan.codes, NEW ud \in UserData,
             \/ Logs(code, ud) \/ Waits(code, ud) \/ Makes(code, ud) \/ Scans(code, ud)
      PROVE  IoInv'
  BY <1>1, LogsKeeps, WaitsKeeps, MakesKeeps, ScansKeeps
<1>2. ASSUME NEW code \in plan.codes, NEW ud \in UserData, NEW h \in Handle \cup {0},
             AtOnce(code, h, ud) \/ Asks(code, h, ud)
      PROVE  IoInv'
  BY <1>2, AtOnceKeeps, AsksKeeps
<1>3. ASSUME NEW code \in plan.codes, NEW ud \in UserData, NEW h \in Handle, Unwatches(code, h, ud)
      PROVE  IoInv'
  BY <1>3, UnwatchesKeeps
<1>4. ASSUME NEW code \in plan.codes, NEW ud \in UserData, NEW h \in Handle,
             NEW cap \in 1 .. MaxCap, Takes(code, h, ud, cap)
      PROVE  IoInv'
  <2>1. cap \in Nat
    OBVIOUS
  <2> QED BY <1>4, <2>1, TakesKeeps
<1>5. ASSUME NEW i \in DOMAIN ops, Settles(i) PROVE IoInv'
  BY <1>5, FulfilledKeeps, RejectedKeeps, PartSettledKeeps, ContinuesKeeps, ExpiresKeeps,
     SocketOpensKeeps, SocketFailsKeeps DEF Settles
<1>6. ASSUME NEW i \in DOMAIN ops, Watched(i) PROVE IoInv'
  BY <1>6, WatchedKeeps
<1>7. ASSUME NEW ud \in UserData, Cancel(ud) PROVE IoInv'
  BY <1>7, CancelKeeps
<1>8. CASE Poll
  BY <1>8, PollKeeps
<1>9. ASSUME NEW types, Flush(types) PROVE IoInv'
  BY <1>9, FlushKeeps
<1>10. ASSUME NEW h \in Handle, Removes(h) \/ Stops(h) PROVE IoInv'
  BY <1>10, RemovesKeeps, StopsKeeps
<1>11. ASSUME NEW h \in Handle, NEW n \in 1 .. 2, Arrives(h, n) PROVE IoInv'
  BY <1>11, ArrivesKeeps
<1>12. ASSUME NEW texts \in {{}, {"text"}}, NEW files \in BOOLEAN, Drop(texts, files) PROVE IoInv'
  BY <1>12, DropKeeps
<1>13. ASSUME NEW d \in DOMAIN drops, FilesLoaded(d) PROVE IoInv'
  BY <1>13, FilesLoadedKeeps
<1>14. CASE Revoke
  BY <1>14, RevokeKeeps
<1> QED
  BY <1>1, <1>2, <1>3, <1>4, <1>5, <1>6, <1>7, <1>8, <1>9, <1>10, <1>11, <1>12, <1>13, <1>14
  DEF IoStep

(* The operations of a page leave its plan alone.                          *)
LEMMA PlanKept ==
    ASSUME IoStep
    PROVE  plan' = plan
<1>1. ASSUME NEW code, NEW ud, NEW h, NEW cap,
             \/ Logs(code, ud) \/ Waits(code, ud) \/ Makes(code, ud) \/ Scans(code, ud)
             \/ AtOnce(code, h, ud) \/ Asks(code, h, ud) \/ Unwatches(code, h, ud)
             \/ Takes(code, h, ud, cap)
      PROVE  plan' = plan
  BY <1>1 DEF Logs, Waits, Makes, Scans, AtOnce, Asks, Unwatches, Takes
<1>2. ASSUME NEW i, Settles(i) \/ Watched(i) PROVE plan' = plan
  BY <1>2 DEF Settles, Fulfilled, Rejected, PartSettled, Continues, Expires, SocketOpens,
              SocketFails, Watched
<1>3. ASSUME NEW ud, NEW types, NEW h, NEW n,
             Cancel(ud) \/ Poll \/ Flush(types) \/ Removes(h) \/ Stops(h) \/ Arrives(h, n)
      PROVE  plan' = plan
  BY <1>3 DEF Cancel, Poll, Flush, Removes, Stops, Arrives
<1>4. ASSUME NEW texts, NEW files, NEW d, Drop(texts, files) \/ FilesLoaded(d) \/ Revoke
      PROVE  plan' = plan
  BY <1>4 DEF Drop, FilesLoaded, Revoke
<1> QED BY <1>1, <1>2, <1>3, <1>4, Zenon DEF IoStep

-----------------------------------------------------------------------------
(* The memory of a guest.                                                  *)

MemTop == PageWords * MaxPages

BlockRec == [from : {"data", "heap", "page", "pages", "pool"}, lo : Nat, at : Nat,
             size : Nat \ {0}, live : BOOLEAN, holds : Seq(Nat), misread : BOOLEAN]

(* Where the blocks of an allocator begin, and what it has handed out.     *)
Floor(from) == IF from \in {"heap", "pages"} THEN HeapBase
               ELSE IF from = "page" THEN base ELSE 0
Bound(from) == IF from = "heap" THEN top ELSE IF from = "page" THEN ptr
               ELSE IF from = "pages" THEN words ELSE IF from = "pool" THEN bump ELSE HeapBase

Pointers ==
    /\ words \in Nat /\ HeapBase <= words /\ words <= MemTop
    /\ top \in Nat /\ top <= words /\ (top = 0 \/ HeapBase <= top)
    /\ end \in Nat /\ end <= words
    /\ base \in Nat \ {0} /\ ptr \in Nat /\ base <= ptr /\ bump \in Nat
    /\ DOMAIN mem = Words(MemTop) /\ DOMAIN shared = Words(PoolWords)

BlockEnd(b) == b.at + b.size

Placed(b) ==
    /\ b \in BlockRec /\ b.size = Len(b.holds) /\ (b.misread => b.from = "heap")
    /\ Floor(b.from) <= b.lo /\ b.lo <= b.at
    /\ BlockEnd(b) <= Bound(b.from) /\ BlockEnd(b) <= Limit(b)

(* The blocks of one allocator lie one after another.                      *)
Ordered(bs) ==
    \A i, j \in DOMAIN bs :
      i < j /\ bs[i].from = bs[j].from => BlockEnd(bs[i]) <= bs[j].lo

MemShape ==
    /\ Pointers /\ blocks \in Seq(BlockRec) /\ Ordered(blocks)
    /\ \A i \in DOMAIN blocks : Placed(blocks[i]) /\ (blocks[i].from = "data" => i = 1)

(* A live block holds what its owner wrote, a header the block's size.     *)
Kept1(b, space) ==
    /\ b.live /\ ~b.misread => \A i \in 1 .. b.size : space[b.at + i - 1] = b.holds[i]
    /\ b.from = "heap" /\ ~Padded(b) => space[b.lo] = b.size
SpaceOf(b) == IF b.from = "pool" THEN shared ELSE mem
Contents == ~Trespassed => \A i \in DOMAIN blocks : Kept1(blocks[i], SpaceOf(blocks[i]))

MemInv == MemShape /\ Contents

(* Rounding up.                                                            *)
LEMMA AlignUpIs ==
    ASSUME NEW v \in Nat, NEW a \in Nat \ {0}
    PROVE  AlignUp(v, a) \in Nat /\ v <= AlignUp(v, a)
<1>1. v % a \in 0 .. a - 1
  OBVIOUS
<1>2. (a - (v % a)) % a \in 0 .. a - 1
  BY <1>1
<1> QED BY <1>2 DEF AlignUp

LEMMA AlignUpFits ==
    ASSUME NEW v \in Nat, NEW a \in Nat \ {0}, NEW m \in Nat, v <= a * m
    PROVE  AlignUp(v, a) <= a * m
<1> DEFINE q == v \div a
           r == v % a
<1>1. q \in Nat /\ r \in 0 .. a - 1 /\ v = a * q + r
  OBVIOUS
<1>2. CASE r = 0
  <2>1. (a - r) % a = 0
    BY <1>2
  <2>2. AlignUp(v, a) = v
    BY <2>1 DEF AlignUp
  <2> QED BY <2>2
<1>3. CASE r # 0
  <2>1. (a - r) % a = a - r
    BY <1>1, <1>3
  <2>2. AlignUp(v, a) = a * q + a
    BY <1>1, <2>1 DEF AlignUp
  <2>3. q < m
    <3>1. CASE m <= q
      <4>1. a * m <= a * q
        BY <1>1, <3>1
      <4> QED BY <1>1, <1>3, <4>1
    <3> QED BY <1>1, <3>1
  <2>4. a * (q + 1) <= a * m
    BY <1>1, <2>3
  <2>5. a * (q + 1) = a * q + a
    BY <1>1
  <2> QED BY <2>2, <2>4, <2>5
<1> QED BY <1>2, <1>3

(* What Put leaves alone, and what it writes.                              *)
LEMMA PutElsewhere ==
    ASSUME NEW m, NEW a \in Nat, NEW s, NEW w \in DOMAIN m, ~(a <= w /\ w < a + Len(s)), w \in Nat, Len(s) \in Nat
    PROVE  Put(m, a, s)[w] = m[w]
BY DEF Put

LEMMA PutThere ==
    ASSUME NEW m, NEW a \in Nat, NEW s, NEW i \in 1 .. Len(s), a + i - 1 \in DOMAIN m, Len(s) \in Nat
    PROVE  Put(m, a, s)[a + i - 1] = s[i]
<1>1. a + i - 1 \in a .. a + Len(s) - 1 /\ (a + i - 1) - a + 1 = i
  OBVIOUS
<1>2. Put(m, a, s)[a + i - 1] = s[(a + i - 1) - a + 1]
  BY <1>1 DEF Put
<1> QED BY <1>1, <1>2

LEMMA PutDomain ==
    ASSUME NEW m, NEW a, NEW s
    PROVE  DOMAIN Put(m, a, s) = DOMAIN m
BY DEF Put

(* The pointers only move up; blocks only die, and a new one lies beyond   *)
(* all that its allocator has handed out.                                  *)
Grows ==
    /\ Pointers' /\ base' = base /\ words <= words' /\ top <= top' /\ ptr <= ptr'
    /\ bump <= bump'

Thins(bs) ==
    /\ bs \in Seq(BlockRec) /\ Len(bs) = Len(blocks)
    /\ \A i \in DOMAIN blocks : \/ bs[i] = blocks[i]
                                \/ bs[i] = [blocks[i] EXCEPT !.live = FALSE]

Fresh(n) ==
    /\ n \in BlockRec /\ n.size = Len(n.holds) /\ n.from # "data"
    /\ (n.misread => n.from = "heap")
    /\ Floor(n.from) <= n.lo /\ Bound(n.from) <= n.lo /\ n.lo <= n.at
    /\ BlockEnd(n) <= Bound(n.from)' /\ BlockEnd(n) <= Limit(n)'

(* As the block it was, but for being live.                                *)
Alike(b, c) ==
    /\ b \in BlockRec /\ c \in BlockRec
    /\ b.from = c.from /\ b.lo = c.lo /\ b.at = c.at /\ b.size = c.size /\ b.holds = c.holds
    /\ b.misread = c.misread /\ (c.live => b.live)

LEMMA ThinsAlike ==
    ASSUME blocks \in Seq(BlockRec), NEW bs, Thins(bs), NEW i \in DOMAIN blocks
    PROVE  Alike(blocks[i], bs[i])
<1>1. blocks[i] \in BlockRec
  OBVIOUS
<1>2. PICK b \in BlockRec : b = blocks[i]
  BY <1>1
<1>3. Alike(b, b) /\ Alike(b, [b EXCEPT !.live = FALSE])
  BY DEF Alike, BlockRec
<1>4. bs[i] = b \/ bs[i] = [b EXCEPT !.live = FALSE]
  BY <1>2 DEF Thins
<1> QED BY <1>2, <1>3, <1>4

LEMMA DropsThins ==
    ASSUME blocks \in Seq(BlockRec), NEW b \in DOMAIN blocks
    PROVE  Thins(Drops(b)) /\ Thins(blocks)
<1>1. Thins(blocks)
  BY DEF Thins
<1>2. blocks[b] \in BlockRec
  OBVIOUS
<1>3. [blocks[b] EXCEPT !.live = FALSE] \in BlockRec
  BY <1>2 DEF BlockRec
<1>4. PICK r \in BlockRec : r = [blocks[b] EXCEPT !.live = FALSE]
  BY <1>3
<1>5. Drops(b) = [blocks EXCEPT ![b] = r]
  BY <1>4, Zenon DEF Drops
<1>6. /\ [blocks EXCEPT ![b] = r] \in Seq(BlockRec)
      /\ Len([blocks EXCEPT ![b] = r]) = Len(blocks)
  BY <1>4
<1>7. \A i \in DOMAIN blocks : [blocks EXCEPT ![b] = r][i] = IF i = b THEN r ELSE blocks[i]
  OBVIOUS
<1> QED BY <1>1, <1>4, <1>5, <1>6, <1>7 DEF Thins

(* A block stays where it was, under pointers that moved up.               *)
LEMMA PlacedStays ==
    ASSUME Pointers, Grows, NEW b, NEW c, Placed(b), Alike(b, c)
    PROVE  Placed(c)'
<1>1. /\ c \in BlockRec /\ c.size = Len(c.holds) /\ (c.misread => c.from = "heap")
      /\ c.lo = b.lo /\ c.at = b.at /\ c.from = b.from /\ BlockEnd(c) = BlockEnd(b)
      /\ c.lo \in Nat /\ c.at \in Nat /\ c.size \in Nat
  BY DEF Placed, Alike, BlockRec, BlockEnd
<1>2. Floor(c.from)' = Floor(b.from)
  BY <1>1 DEF Floor, Grows
<1>3. Bound(b.from) <= Bound(c.from)' /\ Limit(b) <= Limit(c)'
  BY <1>1, MemoryAssumption DEF Bound, Limit, Grows, Pointers
<1>4. /\ Bound(b.from) \in Nat /\ Bound(c.from)' \in Nat /\ Limit(b) \in Nat /\ Limit(c)' \in Nat
      /\ BlockEnd(b) \in Nat
  BY <1>1, MemoryAssumption DEF Bound, Limit, Grows, Pointers, BlockEnd
<1>5. Floor(c.from)' <= c.lo /\ c.lo <= c.at
  BY <1>1, <1>2 DEF Placed
<1>6. BlockEnd(c) <= Bound(c.from)' /\ BlockEnd(c) <= Limit(c)'
  BY <1>1, <1>3, <1>4 DEF Placed
<1> QED BY <1>1, <1>5, <1>6 DEF Placed, BlockEnd

LEMMA FreshPlaced ==
    ASSUME Pointers, Grows, NEW n, Fresh(n)
    PROVE  Placed(n)'
<1>1. Floor(n.from)' = Floor(n.from)
  BY DEF Floor, Grows
<1> QED BY <1>1 DEF Fresh, Placed, BlockEnd

(* A block among those of Append(bs, n) is the new one or an old one.      *)
LEMMA Among ==
    ASSUME NEW bs \in Seq(BlockRec), NEW n \in BlockRec
    PROVE  /\ Append(bs, n) \in Seq(BlockRec)
           /\ Len(Append(bs, n)) = Len(bs) + 1
           /\ DOMAIN Append(bs, n) = 1 .. Len(bs) + 1
           /\ Append(bs, n)[Len(bs) + 1] = n
           /\ \A i \in 1 .. Len(bs) : Append(bs, n)[i] = bs[i]
OBVIOUS

LEMMA ShapeThins ==
    ASSUME MemShape, Grows, Thins(blocks')
    PROVE  MemShape'
<1>1. \A i \in DOMAIN blocks : Alike(blocks[i], blocks'[i])
  BY ThinsAlike DEF MemShape
<1>2. blocks' \in Seq(BlockRec) /\ DOMAIN blocks' = DOMAIN blocks
  BY DEF Thins, MemShape
<1>3. ASSUME NEW i \in DOMAIN blocks'
      PROVE  Placed(blocks[i])' /\ (blocks'[i].from = "data" => i = 1)
  <2>1. Alike(blocks[i], blocks'[i]) /\ Placed(blocks[i]) /\ (blocks[i].from = "data" => i = 1)
    BY <1>1, <1>2, <1>3 DEF MemShape
  <2>2. PICK c \in BlockRec : c = blocks'[i]
    BY <1>2
  <2>3. Placed(c)'
    BY <2>1, <2>2, PlacedStays DEF MemShape
  <2> QED BY <2>1, <2>2, <2>3 DEF Alike
<1>4. Ordered(blocks)'
  <2>1. \A i \in DOMAIN blocks : /\ blocks'[i].from = blocks[i].from /\ blocks'[i].lo = blocks[i].lo
                                 /\ BlockEnd(blocks'[i]) = BlockEnd(blocks[i])
    BY <1>1 DEF Alike, BlockEnd
  <2> QED BY <1>2, <2>1 DEF MemShape, Ordered
<1> QED BY <1>2, <1>3, <1>4 DEF MemShape, Grows

LEMMA ShapeAdds ==
    ASSUME MemShape, Grows, NEW bs, Thins(bs), NEW n, Fresh(n), blocks' = Append(bs, n)
    PROVE  MemShape'
<1> DEFINE l == Len(blocks)
<1>1. \A i \in DOMAIN blocks : Alike(blocks[i], bs[i])
  BY ThinsAlike DEF MemShape
<1>2. /\ bs \in Seq(BlockRec) /\ Len(bs) = l /\ l \in Nat /\ DOMAIN blocks = 1 .. l
      /\ n \in BlockRec
  BY DEF Thins, MemShape, Fresh
<1>3. /\ blocks' \in Seq(BlockRec) /\ DOMAIN blocks' = 1 .. l + 1 /\ blocks'[l + 1] = n
      /\ \A i \in 1 .. l : blocks'[i] = bs[i]
  BY <1>2, Among
<1>4. ASSUME NEW i \in DOMAIN blocks'
      PROVE  Placed(blocks[i])' /\ (blocks'[i].from = "data" => i = 1)
  <2>1. CASE i = l + 1
    <3>1. Placed(n)'
      BY FreshPlaced DEF MemShape
    <3> QED BY <1>3, <2>1, <3>1 DEF Fresh
  <2>2. CASE i \in 1 .. l
    <3>1. Alike(blocks[i], bs[i]) /\ Placed(blocks[i]) /\ (blocks[i].from = "data" => i = 1)
      BY <1>1, <1>2, <2>2 DEF MemShape
    <3>2. Placed(bs[i])'
      BY <3>1, PlacedStays DEF MemShape
    <3>3. blocks'[i] = bs[i]
      BY <1>3, <2>2
    <3> QED BY <3>1, <3>2, <3>3 DEF Alike
  <2> QED BY <1>2, <1>3, <2>1, <2>2
<1>5. Ordered(blocks)'
  <2>1. \A i \in 1 .. l : /\ blocks'[i].from = blocks[i].from /\ blocks'[i].lo = blocks[i].lo
                          /\ BlockEnd(blocks'[i]) = BlockEnd(blocks[i])
    BY <1>1, <1>2, <1>3 DEF Alike, BlockEnd
  <2>2. ASSUME NEW i \in 1 .. l, blocks'[i].from = n.from
        PROVE  BlockEnd(blocks'[i]) <= n.lo
    <3>1. Placed(blocks[i]) /\ blocks[i].from = n.from /\ BlockEnd(blocks'[i]) = BlockEnd(blocks[i])
      BY <1>2, <2>1, <2>2 DEF MemShape
    <3>2. BlockEnd(blocks[i]) <= Bound(n.from) /\ Bound(n.from) <= n.lo
      BY <3>1 DEF Placed, Fresh
    <3>3. BlockEnd(blocks[i]) \in Nat /\ n.lo \in Nat
      <4>1. PICK b \in BlockRec : b = blocks[i]
        BY <3>1 DEF Placed
      <4>2. BlockEnd(b) \in Nat
        BY DEF BlockRec, BlockEnd
      <4>3. n.lo \in Nat
        BY <1>2 DEF BlockRec
      <4> QED BY <4>1, <4>2, <4>3
    <3>4. Bound(n.from) \in Nat
      BY MemoryAssumption DEF Bound, MemShape, Pointers
    <3> QED BY <3>1, <3>2, <3>3, <3>4
  <2>3. ASSUME NEW i \in 1 .. l + 1, NEW j \in 1 .. l + 1, i < j, blocks'[i].from = blocks'[j].from
        PROVE  BlockEnd(blocks'[i]) <= blocks'[j].lo
    <3>1. CASE j = l + 1
      <4>1. i \in 1 .. l
        BY <1>2, <2>3, <3>1
      <4> QED BY <1>3, <2>2, <2>3, <3>1, <4>1
    <3>2. CASE j # l + 1
      <4>1. i \in 1 .. l /\ j \in 1 .. l
        BY <1>2, <2>3, <3>2
      <4>2. BlockEnd(blocks[i]) <= blocks[j].lo
        BY <1>2, <2>1, <2>3, <4>1 DEF MemShape, Ordered
      <4> QED BY <2>1, <4>1, <4>2
    <3> QED BY <3>1, <3>2
  <2> QED BY <1>3, <2>3 DEF Ordered
<1> QED BY <1>3, <1>4, <1>5 DEF MemShape, Grows

(* Two blocks of one space have no word in common.                         *)
Clear(b, c) == BlockEnd(b) <= c.lo \/ BlockEnd(c) <= b.lo

AllClear ==
    \A i, j \in DOMAIN blocks :
      i # j /\ SameSpace(blocks[i], blocks[j])
        /\ (blocks[i].from = blocks[j].from \/ ~Trespassed) => Clear(blocks[i], blocks[j])

(* Who is where, as long as no allocator has trespassed.                   *)
LEMMA OwnGround ==
    ASSUME MemShape, ~Trespassed, NEW i \in DOMAIN blocks
    PROVE  /\ blocks[i].from = "data" => blocks[i].lo >= 0 /\ BlockEnd(blocks[i]) <= HeapBase
           /\ blocks[i].from = "heap" => blocks[i].lo >= HeapBase /\ BlockEnd(blocks[i]) <= top
           /\ blocks[i].from = "page" => /\ blocks[i].lo >= base /\ BlockEnd(blocks[i]) <= ptr
                                         /\ base >= HeapBase /\ top <= base
           /\ blocks[i].from = "pages" => /\ blocks[i].lo >= HeapBase
                                          /\ blocks[i].lo >= top /\ blocks[i].lo >= ptr
<1>1. Placed(blocks[i]) /\ blocks[i] \in BlockRec
  BY DEF MemShape, Placed
<1>2. PICK b \in BlockRec : b = blocks[i] /\ Placed(b)
  BY <1>1
<1>3. /\ b.lo \in Nat /\ b.at \in Nat /\ b.size \in Nat \ {0} /\ BlockEnd(b) \in Nat /\ b.lo < BlockEnd(b)
  BY <1>2 DEF BlockRec, BlockEnd, Placed
<1>4. Floor(b.from) <= b.lo /\ BlockEnd(b) <= Bound(b.from)
  BY <1>2 DEF Placed
<1>5. b \in Range(blocks)
  BY <1>2 DEF Range
<1>6. /\ HeapBase \in Nat /\ top \in Nat /\ base \in Nat /\ ptr \in Nat /\ words \in Nat
      /\ base <= ptr
  BY MemoryAssumption DEF MemShape, Pointers
<1>7. CASE b.from = "data"
  BY <1>2, <1>3, <1>4, <1>7 DEF Bound
<1>8. CASE b.from = "heap"
  BY <1>2, <1>3, <1>4, <1>8 DEF Bound, Floor
<1>9. CASE b.from = "page"
  <2>1. b.lo >= base /\ BlockEnd(b) <= ptr
    BY <1>3, <1>4, <1>6, <1>9 DEF Bound, Floor
  <2>2. ptr > base
    BY <1>3, <1>6, <2>1
  <2>3. ~(base < HeapBase) /\ ~(top > base)
    BY <2>2 DEF Trespassed
  <2> QED BY <1>2, <1>6, <1>9, <2>1, <2>3
<1>10. CASE b.from = "pages"
  <2>1. ~(top > b.lo) /\ ~(ptr > b.lo)
    BY <1>5, <1>10 DEF Trespassed
  <2> QED BY <1>2, <1>3, <1>4, <1>6, <1>10, <2>1 DEF Floor
<1>11. CASE b.from = "pool"
  BY <1>2, <1>11
<1> QED BY <1>3, <1>2, <1>7, <1>8, <1>9, <1>10, <1>11 DEF BlockRec

LEMMA ShapeClear == MemShape => AllClear
<1> SUFFICES ASSUME MemShape, NEW i \in DOMAIN blocks, NEW j \in DOMAIN blocks, i # j,
                    SameSpace(blocks[i], blocks[j]),
                    blocks[i].from = blocks[j].from \/ ~Trespassed
             PROVE  Clear(blocks[i], blocks[j])
  BY DEF AllClear
<1>1. PICK b \in BlockRec : b = blocks[i] /\ Placed(b)
  BY DEF MemShape, Placed
<1>2. PICK c \in BlockRec : c = blocks[j] /\ Placed(c)
  BY DEF MemShape, Placed
<1>3. /\ b.lo \in Nat /\ c.lo \in Nat /\ BlockEnd(b) \in Nat /\ BlockEnd(c) \in Nat
  BY <1>1, <1>2 DEF BlockRec, BlockEnd
<1>4. i \in Nat /\ j \in Nat
  BY DEF MemShape
<1>5. CASE b.from = c.from
  <2>1. i < j => BlockEnd(b) <= c.lo
    BY <1>1, <1>2, <1>5 DEF MemShape, Ordered
  <2>2. j < i => BlockEnd(c) <= b.lo
    BY <1>1, <1>2, <1>5 DEF MemShape, Ordered
  <2> QED BY <1>1, <1>2, <1>4, <2>1, <2>2 DEF Clear
<1>6. CASE b.from # c.from
  <2>1. ~Trespassed
    BY <1>1, <1>2, <1>6
  <2>2. /\ b.from = "data" => b.lo >= 0 /\ BlockEnd(b) <= HeapBase
        /\ b.from = "heap" => b.lo >= HeapBase /\ BlockEnd(b) <= top
        /\ b.from = "page" => b.lo >= base /\ BlockEnd(b) <= ptr /\ base >= HeapBase /\ top <= base
        /\ b.from = "pages" => b.lo >= HeapBase /\ b.lo >= top /\ b.lo >= ptr
    BY <1>1, <2>1, OwnGround
  <2>3. /\ c.from = "data" => c.lo >= 0 /\ BlockEnd(c) <= HeapBase
        /\ c.from = "heap" => c.lo >= HeapBase /\ BlockEnd(c) <= top
        /\ c.from = "page" => c.lo >= base /\ BlockEnd(c) <= ptr /\ base >= HeapBase /\ top <= base
        /\ c.from = "pages" => c.lo >= HeapBase /\ c.lo >= top /\ c.lo >= ptr
    BY <1>2, <2>1, OwnGround
  <2>4. /\ HeapBase \in Nat /\ top \in Nat /\ base \in Nat /\ ptr \in Nat
    BY MemoryAssumption DEF MemShape, Pointers
  <2>5. /\ b.from \in {"data", "heap", "page", "pages", "pool"}
        /\ c.from \in {"data", "heap", "page", "pages", "pool"}
        /\ (b.from = "pool") = (c.from = "pool")
    BY <1>1, <1>2 DEF BlockRec, SameSpace
  <2>6. b.from # "pool" /\ c.from # "pool"
    BY <1>6, <2>5
  <2>7. BlockEnd(b) <= c.lo \/ BlockEnd(c) <= b.lo
    BY <1>3, <1>6, <2>2, <2>3, <2>4, <2>5, <2>6
  <2> QED BY <1>1, <1>2, <2>7 DEF Clear
<1> QED BY <1>5, <1>6

LEMMA ShapeClearNext ==
    ASSUME MemShape'
    PROVE  AllClear'
<1>1. MemShape' => AllClear'
  BY ShapeClear, PTL
<1> QED BY <1>1

(* Who has trespassed has for good.                                        *)
LEMMA TrespassStays ==
    ASSUME MemShape, Grows, DOMAIN blocks \subseteq DOMAIN blocks',
           \A i \in DOMAIN blocks : Alike(blocks[i], blocks'[i]), ~Trespassed'
    PROVE  ~Trespassed
<1> SUFFICES ASSUME Trespassed PROVE FALSE
  OBVIOUS
<1>1. /\ HeapBase \in Nat /\ top \in Nat /\ base \in Nat /\ ptr \in Nat /\ top' \in Nat
      /\ ptr' \in Nat /\ base' = base /\ top <= top' /\ ptr <= ptr'
  BY MemoryAssumption DEF MemShape, Pointers, Grows
<1>2. CASE ptr > base /\ (base < HeapBase \/ top > base)
  <2>1. ptr' > base' /\ (base' < HeapBase \/ top' > base')
    BY <1>1, <1>2
  <2> QED BY <2>1 DEF Trespassed
<1>3. CASE \E b \in Range(blocks) : b.from = "pages" /\ (top > b.lo \/ ptr > b.lo)
  <2>1. PICK i \in DOMAIN blocks : blocks[i].from = "pages" /\ (top > blocks[i].lo \/ ptr > blocks[i].lo)
    BY <1>3 DEF Range
  <2>2. Alike(blocks[i], blocks'[i])
    OBVIOUS
  <2>3. blocks'[i].from = "pages" /\ blocks'[i].lo = blocks[i].lo /\ blocks[i].lo \in Nat
    BY <2>1, <2>2 DEF Alike, BlockRec
  <2>4. top' > blocks'[i].lo \/ ptr' > blocks'[i].lo
    BY <1>1, <2>1, <2>3
  <2>5. blocks'[i] \in Range(blocks')
    BY DEF Range
  <2> QED BY <2>3, <2>4, <2>5 DEF Trespassed
<1> QED BY <1>2, <1>3 DEF Trespassed

(* What a step writes lies in the room of its new block.                   *)
WritesIn(n) ==
    /\ \A w \in Words(words) : ~(n.from # "pool" /\ n.lo <= w /\ w < BlockEnd(n)) => mem'[w] = mem[w]
    /\ \A w \in Words(PoolWords) :
         ~(n.from = "pool" /\ n.lo <= w /\ w < BlockEnd(n)) => shared'[w] = shared[w]

(* The words of a block are words of its space.                            *)
LEMMA InSpace ==
    ASSUME MemShape, NEW b, Placed(b), NEW w \in Nat, b.lo <= w, w < BlockEnd(b)
    PROVE  w \in Words(Limit(b)) /\ w \in Words(IF b.from = "pool" THEN PoolWords ELSE words)
<1>1. BlockEnd(b) \in Nat /\ BlockEnd(b) <= Limit(b)
  BY DEF Placed, BlockRec, BlockEnd
<1>2. Limit(b) \in Nat
  BY MemoryAssumption DEF Limit, MemShape, Pointers
<1>3. w \in Words(Limit(b))
  BY <1>1, <1>2 DEF Words
<1> QED BY <1>3 DEF Limit

(* Its contents are left alone by a step that writes elsewhere.            *)
LEMMA KeptStays ==
    ASSUME NEW b \in BlockRec, NEW c, Alike(b, c), NEW space, NEW space2,
           b.lo <= b.at, Kept1(b, space),
           \A w \in Nat : b.lo <= w /\ w < BlockEnd(b) => space2[w] = space[w]
    PROVE  Kept1(c, space2)
<1>1. /\ b.lo \in Nat /\ b.at \in Nat /\ b.size \in Nat \ {0}
      /\ c.lo = b.lo /\ c.at = b.at /\ c.size = b.size /\ c.holds = b.holds /\ c.from = b.from
      /\ c.misread = b.misread /\ (c.live => b.live)
  BY DEF BlockRec, Alike
<1>2. ASSUME c.live, ~c.misread, NEW i \in 1 .. c.size
      PROVE  space2[c.at + i - 1] = c.holds[i]
  <2>1. space[b.at + i - 1] = b.holds[i]
    BY <1>1, <1>2 DEF Kept1
  <2>2. b.at + i - 1 \in Nat /\ b.lo <= b.at + i - 1 /\ b.at + i - 1 < BlockEnd(b)
    BY <1>1, <1>2 DEF BlockEnd
  <2>3. space2[b.at + i - 1] = space[b.at + i - 1]
    BY <2>2
  <2> QED BY <1>1, <2>1, <2>3
<1>3. ASSUME c.from = "heap", ~Padded(c)
      PROVE  space2[c.lo] = c.size
  <2>1. space[b.lo] = b.size
    BY <1>1, <1>3 DEF Kept1, Padded
  <2>2. b.lo < BlockEnd(b)
    BY <1>1 DEF BlockEnd
  <2> QED BY <1>1, <2>1, <2>2
<1> QED BY <1>2, <1>3 DEF Kept1

(* Contents are kept by a step that kills blocks,                          *)
LEMMA ContentsThin ==
    ASSUME MemInv, MemShape', Grows, Thins(blocks'), UNCHANGED <<mem, shared>>
    PROVE  Contents'
<1> SUFFICES ASSUME ~Trespassed', NEW i \in DOMAIN blocks'
             PROVE  Kept1(blocks[i], SpaceOf(blocks[i]))'
  BY Zenon DEF Contents
<1>1. blocks \in Seq(BlockRec) /\ DOMAIN blocks' = DOMAIN blocks
  BY DEF MemInv, MemShape, Thins
<1>2. \A j \in DOMAIN blocks : Alike(blocks[j], blocks'[j])
  BY <1>1, ThinsAlike
<1>3. ~Trespassed
  BY <1>1, <1>2, TrespassStays DEF MemInv
<1>4. PICK b \in BlockRec : b = blocks[i] /\ Placed(b) /\ Alike(b, blocks'[i])
  BY <1>1, <1>2 DEF MemInv, MemShape
<1>5. Kept1(b, SpaceOf(b)) /\ b.lo <= b.at
  BY <1>1, <1>3, <1>4 DEF MemInv, Contents, Placed
<1>6. SpaceOf(blocks[i])' = SpaceOf(b)
  BY <1>4 DEF Alike, SpaceOf
<1>7. Kept1(blocks'[i], SpaceOf(b))
  BY <1>4, <1>5, KeptStays
<1> QED BY <1>6, <1>7

(* and by one that hands out a block, if it writes in it.                  *)
LEMMA ContentsAdd ==
    ASSUME MemInv, MemShape', Grows, NEW bs, Thins(bs), NEW n, Fresh(n),
           blocks' = Append(bs, n), WritesIn(n),
           ~Trespassed /\ ~Trespassed' => Kept1(n, SpaceOf(n)')
    PROVE  Contents'
<1> DEFINE l == Len(blocks)
<1> SUFFICES ASSUME ~Trespassed', NEW i \in DOMAIN blocks'
             PROVE  Kept1(blocks[i], SpaceOf(blocks[i]))'
  BY Zenon DEF Contents
<1>1. /\ blocks \in Seq(BlockRec) /\ bs \in Seq(BlockRec) /\ Len(bs) = l /\ l \in Nat
      /\ DOMAIN blocks = 1 .. l /\ n \in BlockRec
  BY DEF Thins, MemInv, MemShape, Fresh
<1>2. /\ blocks' \in Seq(BlockRec) /\ DOMAIN blocks' = 1 .. l + 1 /\ blocks'[l + 1] = n
      /\ \A j \in 1 .. l : blocks'[j] = bs[j]
  BY <1>1, Among
<1>3. \A j \in DOMAIN blocks : Alike(blocks[j], blocks'[j])
  BY <1>1, <1>2, ThinsAlike
<1>4. ~Trespassed
  BY <1>1, <1>2, <1>3, TrespassStays DEF MemInv
<1>5. CASE i = l + 1
  BY <1>2, <1>4, <1>5
<1>6. CASE i \in 1 .. l
  <2>1. PICK b \in BlockRec : b = blocks[i] /\ Placed(b) /\ Alike(b, blocks'[i])
    BY <1>1, <1>3, <1>6 DEF MemInv, MemShape
  <2>2. Kept1(b, SpaceOf(b)) /\ b.lo <= b.at
    BY <1>1, <1>4, <1>6, <2>1 DEF MemInv, Contents, Placed
  <2>3. (n.from = "pool") = (b.from = "pool") => Clear(b, n)
    <3>1. i # l + 1 /\ i \in DOMAIN blocks' /\ l + 1 \in DOMAIN blocks'
      BY <1>1, <1>2, <1>6
    <3>2. AllClear'
      BY ShapeClearNext
    <3>3. SameSpace(blocks'[i], n) => Clear(blocks'[i], n)
      BY <1>2, <3>1, <3>2 DEF AllClear
    <3> QED BY <2>1, <3>3 DEF Alike, SameSpace, Clear, BlockEnd
  <2>4. /\ n.lo \in Nat /\ BlockEnd(n) \in Nat /\ b.lo \in Nat /\ BlockEnd(b) \in Nat
    BY <1>1 DEF BlockRec, BlockEnd
  <2>5. SpaceOf(blocks[i])' = SpaceOf(b)'
    BY <2>1 DEF Alike, SpaceOf
  <2>6. ASSUME NEW w \in Nat, b.lo <= w, w < BlockEnd(b)
        PROVE  SpaceOf(b)'[w] = SpaceOf(b)[w]
    <3>1. w \in Words(IF b.from = "pool" THEN PoolWords ELSE words)
      BY <2>1, <2>6, InSpace DEF MemInv
    <3>2. (n.from = "pool") = (b.from = "pool") => ~(n.lo <= w /\ w < BlockEnd(n))
      BY <2>3, <2>4, <2>6 DEF Clear
    <3> QED BY <3>1, <3>2 DEF WritesIn, SpaceOf
  <2>7. Kept1(blocks'[i], SpaceOf(b)')
    BY <2>1, <2>2, <2>6, KeptStays
  <2> QED BY <2>5, <2>7
<1> QED BY <1>1, <1>2, <1>5, <1>6

(* So a step that kills blocks, or hands one out, keeps the invariant.     *)
LEMMA InvThins ==
    ASSUME MemInv, Grows, Thins(blocks'), UNCHANGED <<mem, shared>>
    PROVE  MemInv'
<1>1. MemShape'
  BY ShapeThins DEF MemInv
<1>2. Contents'
  BY <1>1, ContentsThin
<1> QED BY <1>1, <1>2 DEF MemInv

LEMMA InvAdds ==
    ASSUME MemInv, Grows, NEW bs, Thins(bs), NEW n, Fresh(n), blocks' = Append(bs, n),
           WritesIn(n), ~Trespassed /\ ~Trespassed' => Kept1(n, SpaceOf(n)')
    PROVE  MemInv'
<1>1. MemShape'
  BY ShapeAdds DEF MemInv
<1>2. Contents'
  BY <1>1, ContentsAdd
<1> QED BY <1>1, <1>2 DEF MemInv

(* What an owner writes.                                                   *)
LEMMA FillIs ==
    ASSUME MemShape, NEW size \in Nat
    PROVE  Fill(size) \in Seq(Nat) /\ Len(Fill(size)) = size
<1>1. Tag \in Nat
  BY DEF Tag, MemShape
<1>2. PICK t \in Nat : t = Tag
  BY <1>1
<1>3. [i \in 1 .. size |-> t] \in Seq(Nat) /\ Len([i \in 1 .. size |-> t]) = size
  OBVIOUS
<1>4. Fill(size) = [i \in 1 .. size |-> t]
  BY <1>2, Zenon DEF Fill
<1> QED BY <1>3, <1>4

LEMMA RegrownIs ==
    ASSUME MemShape, NEW b, Placed(b), NEW size \in Nat
    PROVE  Regrown(b, size) \in Seq(Nat) /\ Len(Regrown(b, size)) = size
<1>1. Tag \in Nat
  BY DEF Tag, MemShape
<1>2. PICK t \in Nat : t = Tag
  BY <1>1
<1>3. PICK h \in Seq(Nat) : h = b.holds /\ b.size = Len(h)
  BY DEF Placed, BlockRec
<1>4. PICK k \in Nat : k = b.size /\ k = Len(h)
  BY <1>3
<1>5. \A i \in 1 .. size : (IF i <= k THEN h[i] ELSE t) \in Nat
  BY <1>4
<1>6. DEFINE f == [i \in 1 .. size |-> IF i <= k THEN h[i] ELSE t]
<1>7. f \in [1 .. size -> Nat]
  BY <1>5
<1>8. f \in Seq(Nat) /\ Len(f) = size
  BY <1>7
<1>9. Regrown(b, size) = f
  BY <1>2, <1>3, <1>4 DEF Regrown
<1> QED BY <1>8, <1>9

LEMMA CopiedIs ==
    ASSUME NEW m, NEW b, NEW n, NEW a, NEW size \in Nat
    PROVE  /\ Len(Copied(m, b, n, a, size)) = size
           /\ \A i \in 1 .. size :
                Copied(m, b, n, a, size)[i] = IF i > b.size THEN Tag ELSE IF i <= n THEN m[b.at + i - 1]
                                              ELSE m[a + i - 1]
<1>1. DOMAIN Copied(m, b, n, a, size) = 1 .. size
  BY DEF Copied
<1>2. \A f : DOMAIN f = 1 .. size => Len(f) = size
  OBVIOUS
<1> QED BY <1>1 DEF Copied

LEMMA BlockIs ==
    ASSUME NEW from \in {"data", "heap", "page", "pages", "pool"}, NEW lo \in Nat, NEW at \in Nat,
           NEW holds \in Seq(Nat), Len(holds) # 0, NEW misread \in BOOLEAN
    PROVE  /\ Block(from, lo, at, holds, misread) \in BlockRec
           /\ Block(from, lo, at, holds, misread).from = from
           /\ Block(from, lo, at, holds, misread).lo = lo
           /\ Block(from, lo, at, holds, misread).at = at
           /\ Block(from, lo, at, holds, misread).size = Len(holds)
           /\ Block(from, lo, at, holds, misread).holds = holds
           /\ Block(from, lo, at, holds, misread).live
           /\ Block(from, lo, at, holds, misread).misread = misread
<1>1. Len(holds) \in Nat \ {0}
  OBVIOUS
<1> QED BY <1>1 DEF Block, BlockRec

(* Where the next block of the heap goes.                                  *)
LEMMA HeapRoom ==
    ASSUME MemShape, NEW size \in Size, NEW a \in Align, Bumps(size, a)
    PROVE  /\ size \in Nat \ {0} /\ HeapTop \in Nat /\ HeapBase <= HeapTop /\ top <= HeapTop
           /\ DataAt(a) \in Nat /\ HeapTop + HeaderSize <= DataAt(a)
           /\ top' = DataAt(a) + size /\ top' \in Nat /\ top' <= words'
           /\ words' \in Nat /\ words <= words' /\ words' <= MemTop /\ end' \in Nat /\ end' <= words'
<1>1. /\ HeapBase \in Nat \ {0} /\ PageWords \in Nat \ {0} /\ MaxPages \in Nat
      /\ size \in Nat \ {0} /\ a \in Nat \ {0}
  BY MemoryAssumption
<1>2. /\ words \in Nat /\ HeapBase <= words /\ words <= MemTop /\ top \in Nat /\ top <= words
      /\ (top = 0 \/ HeapBase <= top) /\ end \in Nat /\ end <= words
  BY DEF MemShape, Pointers
<1>3. HeapTop \in Nat /\ HeapBase <= HeapTop /\ top <= HeapTop
  BY <1>1, <1>2 DEF HeapTop
<1>4. DataAt(a) \in Nat /\ HeapTop + HeaderSize <= DataAt(a)
  <2>1. HeapTop + HeaderSize \in Nat
    BY <1>3 DEF HeaderSize
  <2> QED BY <1>1, <2>1, AlignUpIs DEF DataAt
<1>5. HeapEnd \in Nat /\ HeapEnd <= words
  BY <1>2 DEF HeapEnd
<1>6. PICK u \in Nat : u = DataAt(a) + size
  BY <1>1, <1>4
<1>7. top' = u /\ CanGrow(HeapEnd, u) /\ Grow(HeapEnd, u)
      /\ end' = IF u > HeapEnd THEN words' ELSE HeapEnd
  BY <1>6, Zenon DEF Bumps
<1>8. CASE u > HeapEnd
  <2>1. u - HeapEnd \in Nat
    BY <1>5, <1>8
  <2>2. PICK g \in Nat : g = AlignUp(u - HeapEnd, PageWords) /\ u - HeapEnd <= g
    BY <1>1, <2>1, AlignUpIs
  <2>3. words' = words + g /\ words + g <= MemTop
    BY <1>7, <1>8, <2>2 DEF CanGrow, Grow, Grown, MemTop
  <2>4. end' = words'
    BY <1>7, <1>8
  <2>5. words' \in Nat /\ words <= words' /\ words' <= MemTop /\ u <= words'
    BY <1>2, <1>5, <1>8, <2>2, <2>3
  <2> QED BY <1>1, <1>3, <1>4, <1>6, <1>7, <2>4, <2>5
<1>9. CASE ~(u > HeapEnd)
  <2>1. words' = words /\ end' = HeapEnd
    BY <1>7, <1>9 DEF Grow
  <2> QED BY <1>1, <1>2, <1>3, <1>4, <1>5, <1>6, <1>7, <1>9, <2>1
<1> QED BY <1>8, <1>9

(* The heap writes the header and the block.                               *)
LEMMA HeaderPut ==
    ASSUME MemShape, NEW size \in Size, NEW a \in Align, NEW lo \in Nat, NEW w \in Words(MemTop)
    PROVE  /\ ~(lo <= w /\ w < lo + HeaderSize) => Put(mem, lo, <<size, a>>)[w] = mem[w]
           /\ w = lo => Put(mem, lo, <<size, a>>)[w] = size
           /\ DOMAIN Put(mem, lo, <<size, a>>) = Words(MemTop)
<1>1. DOMAIN mem = Words(MemTop) /\ w \in Nat
  BY MemoryAssumption DEF MemShape, Pointers, Words, MemTop
<1>2. Len(<<size, a>>) = 2 /\ <<size, a>>[1] = size
  OBVIOUS
<1>3. PICK s : s = <<size, a>>
  OBVIOUS
<1>4. Len(s) = 2 /\ s[1] = size
  BY <1>2, <1>3
<1>5. ~(lo <= w /\ w < lo + HeaderSize) => Put(mem, lo, s)[w] = mem[w]
  <2> SUFFICES ASSUME ~(lo <= w /\ w < lo + HeaderSize) PROVE Put(mem, lo, s)[w] = mem[w]
    OBVIOUS
  <2>1. ~(lo <= w /\ w < lo + Len(s)) /\ Len(s) \in Nat /\ w \in DOMAIN mem
    BY <1>1, <1>4 DEF HeaderSize
  <2> QED BY <1>1, <2>1, PutElsewhere
<1>6. w = lo => Put(mem, lo, s)[w] = size
  <2>1. 1 \in 1 .. Len(s) /\ lo + 1 - 1 = lo /\ Len(s) \in Nat
    BY <1>4
  <2>2. w = lo => Put(mem, lo, s)[lo + 1 - 1] = s[1]
    BY <1>1, <2>1, PutThere
  <2> QED BY <1>4, <2>1, <2>2
<1>7. DOMAIN Put(mem, lo, s) = Words(MemTop)
  BY <1>1, PutDomain
<1> QED BY <1>3, <1>5, <1>6, <1>7

LEMMA HeapPuts ==
    ASSUME MemShape, NEW size \in Size, NEW a \in Align, Bumps(size, a), NEW s, Len(s) = size,
           mem' = Put(Put(mem, HeapTop, <<size, a>>), DataAt(a), s)
    PROVE  /\ DOMAIN mem' = DOMAIN mem
           /\ \A w \in Words(words) :
                ~(HeapTop <= w /\ w < DataAt(a) + size) => mem'[w] = mem[w]
           /\ \A i \in 1 .. size : mem'[DataAt(a) + i - 1] = s[i]
           /\ mem'[HeapTop] = size
<1>1. PICK lo \in Nat : lo = HeapTop
  BY HeapRoom
<1>2. PICK at \in Nat : at = DataAt(a)
  BY HeapRoom
<1>3. PICK m : m = Put(mem, lo, <<size, a>>)
  OBVIOUS
<1>4. /\ size \in Nat \ {0} /\ lo + HeaderSize <= at
      /\ at + size <= MemTop /\ words <= MemTop /\ words \in Nat /\ MemTop \in Nat
  <2>1. /\ size \in Nat \ {0} /\ lo + HeaderSize <= at /\ top' = at + size /\ top' <= words'
        /\ words' <= MemTop /\ words' \in Nat
    BY <1>1, <1>2, HeapRoom
  <2>2. words <= MemTop /\ words \in Nat /\ MemTop \in Nat
    BY MemoryAssumption DEF MemShape, Pointers, MemTop
  <2> QED BY <2>1, <2>2
<1>5. mem' = Put(m, at, s) /\ DOMAIN mem = Words(MemTop)
  BY <1>1, <1>2, <1>3 DEF MemShape, Pointers
<1>6. \A w \in Words(MemTop) : /\ ~(lo <= w /\ w < lo + HeaderSize) => m[w] = mem[w]
                               /\ w = lo => m[w] = size
  BY <1>3, HeaderPut
<1>7. DOMAIN m = Words(MemTop)
  <2>1. 0 \in Words(MemTop)
    BY <1>4 DEF Words
  <2> QED BY <1>3, <2>1, HeaderPut
<1>8. \A w \in Words(MemTop) : ~(at <= w /\ w < at + size) => mem'[w] = m[w]
  BY <1>4, <1>5, <1>7, PutElsewhere DEF Words
<1>9. \A w \in Words(words) : ~(lo <= w /\ w < at + size) => mem'[w] = mem[w]
  <2> SUFFICES ASSUME NEW w \in Words(words), ~(lo <= w /\ w < at + size) PROVE mem'[w] = mem[w]
    OBVIOUS
  <2>1. w \in Words(MemTop) /\ ~(at <= w /\ w < at + size) /\ ~(lo <= w /\ w < lo + HeaderSize)
    BY <1>4 DEF Words, HeaderSize
  <2> QED BY <1>6, <1>8, <2>1
<1>10. \A i \in 1 .. size : mem'[at + i - 1] = s[i]
  <2> SUFFICES ASSUME NEW i \in 1 .. size PROVE mem'[at + i - 1] = s[i]
    OBVIOUS
  <2>1. at + i - 1 \in DOMAIN m
    BY <1>4, <1>7 DEF Words
  <2>2. i \in 1 .. Len(s) /\ Len(s) \in Nat
    BY <1>4
  <2>3. Put(m, at, s)[at + i - 1] = s[i]
    BY <2>1, <2>2, PutThere
  <2> QED BY <1>5, <2>3
<1>11. mem'[lo] = size
  <2>1. lo \in Words(MemTop) /\ ~(at <= lo /\ lo < at + size)
    BY <1>4 DEF Words, HeaderSize
  <2> QED BY <1>6, <1>8, <2>1
<1>12. DOMAIN mem' = DOMAIN mem
  BY <1>5, <1>7, PutDomain
<1> QED BY <1>1, <1>2, <1>9, <1>10, <1>11, <1>12

(* So what the heap hands out is fresh, and holds what was written.        *)
LEMMA HeapFresh ==
    ASSUME MemShape, NEW size \in Size, NEW a \in Align, Bumps(size, a), NEW s, Len(s) = size,
           mem' = Put(Put(mem, HeapTop, <<size, a>>), DataAt(a), s),
           UNCHANGED <<base, ptr, bump, shared>>,
           NEW holds \in Seq(Nat), Len(holds) = size, NEW misread \in BOOLEAN,
           NEW n, n = Block("heap", HeapTop, DataAt(a), holds, misread)
    PROVE  /\ Grows /\ Fresh(n) /\ WritesIn(n)
           /\ (~misread => \A i \in 1 .. size : s[i] = holds[i]) => Kept1(n, SpaceOf(n)')
<1>1. PICK lo \in Nat : lo = HeapTop
  BY HeapRoom
<1>2. PICK at \in Nat : at = DataAt(a)
  BY HeapRoom
<1>3. /\ size \in Nat \ {0} /\ HeapBase <= lo /\ top <= lo /\ lo + HeaderSize <= at
      /\ top' = at + size /\ top' \in Nat /\ top' <= words'
      /\ words' \in Nat /\ words <= words' /\ words' <= MemTop /\ end' \in Nat /\ end' <= words'
  BY <1>1, <1>2, HeapRoom
<1>4. /\ DOMAIN mem' = DOMAIN mem
      /\ \A w \in Words(words) : ~(lo <= w /\ w < at + size) => mem'[w] = mem[w]
      /\ \A i \in 1 .. size : mem'[at + i - 1] = s[i]
      /\ mem'[lo] = size
  <2>1. /\ DOMAIN mem' = DOMAIN mem
        /\ \A w \in Words(words) :
             ~(HeapTop <= w /\ w < DataAt(a) + size) => mem'[w] = mem[w]
        /\ \A i \in 1 .. size : mem'[DataAt(a) + i - 1] = s[i]
        /\ mem'[HeapTop] = size
    BY HeapPuts
  <2> QED BY <1>1, <1>2, <2>1
<1>5. /\ n \in BlockRec /\ n.from = "heap" /\ n.lo = lo /\ n.at = at /\ n.size = size
      /\ n.holds = holds /\ n.misread = misread
  <2>1. n = Block("heap", lo, at, holds, misread)
    BY <1>1, <1>2
  <2>2. Len(holds) \in Nat \ {0}
    BY <1>3
  <2>3. PICK r : r = Block("heap", lo, at, holds, misread)
    OBVIOUS
  <2>4. /\ r \in BlockRec /\ r.from = "heap" /\ r.lo = lo /\ r.at = at
        /\ r.size = Len(holds) /\ r.holds = holds /\ r.misread = misread
    BY <2>2, <2>3 DEF Block, BlockRec
  <2> QED BY <2>1, <2>3, <2>4
<1>6. /\ HeapBase \in Nat \ {0} /\ top \in Nat /\ words \in Nat /\ HeapBase <= words
  BY MemoryAssumption DEF MemShape, Pointers
<1>7. Grows
  <2>1. top <= top' /\ HeapBase <= top' /\ HeapBase <= words'
    BY <1>3, <1>6 DEF HeaderSize
  <2> QED BY <1>3, <1>4, <2>1 DEF Grows, MemShape, Pointers
<1>8. Fresh(n)
  BY <1>3, <1>5, <1>6 DEF Fresh, Floor, Bound, Limit, BlockEnd, HeaderSize
<1>9. WritesIn(n)
  BY <1>4, <1>5 DEF WritesIn, BlockEnd
<1>10. ASSUME ~misread => \A i \in 1 .. size : s[i] = holds[i]
       PROVE  Kept1(n, SpaceOf(n)')
  <2>1. SpaceOf(n)' = mem'
    BY <1>5 DEF SpaceOf
  <2>2. Kept1(n, mem')
    BY <1>4, <1>5, <1>10 DEF Kept1
  <2> QED BY <2>1, <2>2
<1> QED BY <1>7, <1>8, <1>9, <1>10

LEMMA BumpAllocKeeps ==
    ASSUME MemInv, NEW size \in Size, NEW a \in Align, BumpAlloc(size, a)
    PROVE  MemInv'
<1>1. MemShape /\ size \in Nat /\ blocks \in Seq(BlockRec)
  BY MemoryAssumption DEF MemInv, MemShape
<1>2. PICK s \in Seq(Nat) : s = Fill(size) /\ Len(s) = size
  BY <1>1, FillIs
<1>3. PICK n : n = Block("heap", HeapTop, DataAt(a), s, FALSE)
  OBVIOUS
<1>4. /\ Bumps(size, a) /\ mem' = Put(Put(mem, HeapTop, <<size, a>>), DataAt(a), s)
      /\ UNCHANGED <<base, ptr, bump, shared>> /\ blocks' = Append(blocks, n)
  BY <1>2, <1>3, Zenon DEF BumpAlloc
<1>5. Grows /\ Fresh(n) /\ WritesIn(n) /\ Kept1(n, SpaceOf(n)')
  BY <1>1, <1>2, <1>3, <1>4, HeapFresh
<1>6. Thins(blocks)
  BY <1>1 DEF Thins
<1> QED BY <1>4, <1>5, <1>6, InvAdds

(* A realloc copies what the old block holds, if it has its size right.    *)
SameWords(b, m, space) == \A i \in 1 .. b.size : m[b.at + i - 1] = space[b.at + i - 1]
Reaches(n, b, size) == \A i \in 1 .. size : i <= b.size => i <= n
Rewrites(s, holds, size) == \A i \in 1 .. size : s[i] = holds[i]

LEMMA CopiedRight ==
    ASSUME NEW b \in BlockRec, b.live, ~b.misread, NEW space, Kept1(b, space),
           NEW m, SameWords(b, m, space),
           NEW size \in Nat, NEW n \in Nat, Reaches(n, b, size), NEW a
    PROVE  Rewrites(Copied(m, b, n, a, size), Regrown(b, size), size)
<1> SUFFICES ASSUME NEW i \in 1 .. size
             PROVE  Copied(m, b, n, a, size)[i] = Regrown(b, size)[i]
  BY DEF Rewrites
<1>1. b.size \in Nat
  BY DEF BlockRec
<1>2. Copied(m, b, n, a, size)[i] = IF i > b.size THEN Tag ELSE IF i <= n THEN m[b.at + i - 1]
                                    ELSE m[a + i - 1]
  BY CopiedIs
<1>3. Regrown(b, size)[i] = IF i <= b.size THEN b.holds[i] ELSE Tag
  BY DEF Regrown
<1>4. CASE i <= b.size
  <2>1. i \in 1 .. b.size /\ i <= n
    BY <1>1, <1>4 DEF Reaches
  <2>2. m[b.at + i - 1] = space[b.at + i - 1] /\ space[b.at + i - 1] = b.holds[i]
    BY <2>1 DEF Kept1, SameWords
  <2>3. Copied(m, b, n, a, size)[i] = m[b.at + i - 1]
    BY <1>1, <1>2, <1>4, <2>1
  <2> QED BY <1>3, <1>4, <2>2, <2>3
<1>5. CASE ~(i <= b.size)
  BY <1>1, <1>2, <1>3, <1>5
<1> QED BY <1>4, <1>5

(* The word that a realloc of the heap takes for the size is the size,     *)
(* unless it is padding.                                                   *)
LEMMA ReadsSize ==
    ASSUME NEW b \in BlockRec, b.from = "heap", ~Padded(b), NEW space, Kept1(b, space)
    PROVE  space[b.at - HeaderSize] = b.size
<1>1. b.at - HeaderSize = b.lo
  BY DEF Padded, HeaderSize, BlockRec
<1> QED BY <1>1 DEF Kept1

LEMMA BumpReallocKeeps ==
    ASSUME MemInv, NEW b \in DOMAIN blocks, NEW size \in Size, NEW a \in Align,
           BumpRealloc(b, size, a)
    PROVE  MemInv'
<1>1. MemShape /\ size \in Nat /\ blocks \in Seq(BlockRec)
  BY MemoryAssumption DEF MemInv, MemShape
<1>2. IsBlock(b, "heap") /\ Bumps(size, a) /\ UNCHANGED <<base, ptr, bump, shared>>
  BY Zenon DEF BumpRealloc
<1>3. PICK old \in BlockRec : old = blocks[b] /\ Placed(old) /\ old.live /\ old.from = "heap"
  BY <1>1, <1>2 DEF MemShape, IsBlock, Placed
<1>4. PICK read : read = mem[old.at - HeaderSize]
  OBVIOUS
<1>5. PICK m : m = Put(mem, HeapTop, <<size, a>>)
  OBVIOUS
<1>6. PICK k : k = IF read < size THEN read ELSE size
  OBVIOUS
<1>7. PICK s : s = Copied(m, old, k, DataAt(a), size)
  OBVIOUS
<1>8. Len(s) = size
  BY <1>1, <1>7, CopiedIs
<1>9. PICK holds \in Seq(Nat) : holds = Regrown(old, size) /\ Len(holds) = size
  BY <1>1, <1>3, RegrownIs
<1>10. PICK mis \in BOOLEAN : mis = (old.misread \/ (read # old.size /\ Padded(old)))
  OBVIOUS
<1>11. PICK n : n = Block("heap", HeapTop, DataAt(a), holds, mis)
  OBVIOUS
<1>12. mem' = Put(m, DataAt(a), s) /\ blocks' = Append(Drops(b), n)
  BY <1>3, <1>4, <1>5, <1>6, <1>7, <1>9, <1>10, <1>11, Zenon DEF BumpRealloc
<1>13. /\ Grows /\ Fresh(n) /\ WritesIn(n)
       /\ (~mis => \A i \in 1 .. size : s[i] = holds[i]) => Kept1(n, SpaceOf(n)')
  BY <1>1, <1>2, <1>5, <1>8, <1>9, <1>11, <1>12, HeapFresh
<1>14. Thins(Drops(b))
  BY <1>1, DropsThins
<1>15. ASSUME ~Trespassed, ~mis PROVE \A i \in 1 .. size : s[i] = holds[i]
  <2>1. Kept1(old, mem)
    BY <1>3, <1>15 DEF MemInv, Contents, SpaceOf
  <2>2. ~old.misread /\ (read = old.size \/ ~Padded(old))
    BY <1>10, <1>15
  <2>3. read = old.size
    BY <1>3, <1>4, <2>1, <2>2, ReadsSize
  <2>4. old.size \in Nat /\ old.at \in Nat
    BY DEF BlockRec
  <2>5. k \in Nat /\ \A i \in 1 .. size : i <= old.size => i <= k
    BY <1>1, <1>6, <2>3, <2>4
  <2>6. ASSUME NEW i \in 1 .. old.size PROVE m[old.at + i - 1] = mem[old.at + i - 1]
    <3>1. PICK lo \in Nat : lo = HeapTop /\ top <= lo
      BY <1>1, <1>2, HeapRoom
    <3>2. /\ BlockEnd(old) <= top /\ top \in Nat /\ top <= words /\ words \in Nat /\ words <= MemTop
          /\ MemTop \in Nat
      BY <1>1, <1>3, MemoryAssumption DEF Placed, Bound, MemShape, Pointers, MemTop
    <3>3. PICK w \in Nat : w = old.at + i - 1
      BY <2>4
    <3>4. w < BlockEnd(old) /\ BlockEnd(old) \in Nat
      BY <2>4, <3>3 DEF BlockEnd
    <3>5. w \in Words(MemTop) /\ ~(lo <= w)
      BY <3>1, <3>2, <3>4 DEF Words
    <3>6. Put(mem, lo, <<size, a>>)[w] = mem[w]
      BY <1>1, <3>5, HeaderPut
    <3> QED BY <1>5, <3>1, <3>3, <3>6
  <2>7. old.live /\ ~old.misread /\ size \in Nat /\ k \in Nat
    BY <1>1, <1>3, <2>2, <2>5
  <2>8. Reaches(k, old, size) /\ SameWords(old, m, mem)
    BY <2>5, <2>6 DEF Reaches, SameWords
  <2>9. Rewrites(Copied(m, old, k, DataAt(a), size), Regrown(old, size), size)
    BY <2>1, <2>7, <2>8, CopiedRight
  <2> QED BY <1>7, <1>9, <2>9 DEF Rewrites
<1> QED BY <1>12, <1>13, <1>14, <1>15, InvAdds

(* A step that moves no pointer.                                           *)
LEMMA StillGrows ==
    ASSUME MemShape, UNCHANGED <<words, top, end, base, ptr, bump, mem, shared>>
    PROVE  Grows
BY MemoryAssumption DEF MemShape, Pointers, Grows

LEMMA BlockDropKeeps ==
    ASSUME MemInv, NEW b \in DOMAIN blocks, blocks' = Drops(b),
           UNCHANGED <<words, top, end, base, ptr, bump, mem, shared>>
    PROVE  MemInv'
<1>1. MemShape /\ blocks \in Seq(BlockRec)
  BY DEF MemInv, MemShape
<1>2. Grows /\ Thins(blocks')
  BY <1>1, StillGrows, DropsThins
<1> QED BY <1>2, InvThins

LEMMA BumpRefusedKeeps ==
    ASSUME MemInv, NEW size \in Size, NEW a \in Align, BumpRefused(size, a)
    PROVE  MemInv'
<1>1. MemShape /\ blocks \in Seq(BlockRec)
  BY DEF MemInv, MemShape
<1>2. /\ top' = HeapTop /\ end' = HeapEnd
      /\ UNCHANGED <<words, base, ptr, bump, mem, shared, blocks>>
  BY DEF BumpRefused
<1>3. /\ HeapBase \in Nat \ {0} /\ words \in Nat /\ HeapBase <= words /\ words <= MemTop
      /\ top \in Nat /\ top <= words /\ (top = 0 \/ HeapBase <= top) /\ end \in Nat /\ end <= words
  BY <1>1, MemoryAssumption DEF MemShape, Pointers
<1>4. HeapTop \in Nat /\ HeapBase <= HeapTop /\ top <= HeapTop /\ HeapTop <= words
  BY <1>3 DEF HeapTop
<1>5. HeapEnd \in Nat /\ HeapEnd <= words
  BY <1>3 DEF HeapEnd
<1>6. Grows
  BY <1>1, <1>2, <1>3, <1>4, <1>5 DEF Grows, MemShape, Pointers
<1>7. Thins(blocks')
  BY <1>1, <1>2 DEF Thins
<1> QED BY <1>2, <1>6, <1>7, InvThins

(* One Put into a space of k words.                                        *)
IsSpace(m, k) == DOMAIN m = Words(k)
PutInto(m2, m, k, at, s, size) ==
    /\ DOMAIN m2 = Words(k)
    /\ \A w \in Words(k) : ~(at <= w /\ w < at + size) => m2[w] = m[w]
    /\ \A i \in 1 .. size : m2[at + i - 1] = s[i]
HasSize(s, size) == Len(s) = size

LEMMA PutIn ==
    ASSUME NEW k \in Nat, NEW m, IsSpace(m, k), NEW at \in Nat, NEW s,
           NEW size \in Nat \ {0}, HasSize(s, size), at + size <= k
    PROVE  PutInto(Put(m, at, s), m, k, at, s, size)
<1>1. DOMAIN Put(m, at, s) = Words(k)
  BY PutDomain DEF IsSpace
<1>2. ASSUME NEW w \in Words(k), ~(at <= w /\ w < at + size)
      PROVE  Put(m, at, s)[w] = m[w]
  <2>1. w \in Nat /\ w \in DOMAIN m /\ ~(at <= w /\ w < at + Len(s)) /\ Len(s) \in Nat
    BY <1>2 DEF Words, IsSpace, HasSize
  <2> QED BY <2>1, PutElsewhere
<1>3. ASSUME NEW i \in 1 .. size
      PROVE  Put(m, at, s)[at + i - 1] = s[i]
  <2>1. i \in 1 .. Len(s) /\ Len(s) \in Nat
    BY DEF HasSize
  <2>2. at + i - 1 \in DOMAIN m
    BY DEF Words, IsSpace
  <2> QED BY <2>1, <2>2, PutThere
<1> QED BY <1>1, <1>2, <1>3 DEF PutInto

(* The page and wasm_alloc write what they hand out.                       *)
LEMMA PageFresh ==
    ASSUME MemShape, NEW from \in {"page", "pages"}, NEW at \in Nat, NEW size \in Nat \ {0},
           NEW s, Len(s) = size, mem' = Put(mem, at, s), UNCHANGED <<top, end, base, bump, shared>>,
           NEW holds \in Seq(Nat), Len(holds) = size, NEW n, n = Block(from, at, at, holds, FALSE),
           words' \in Nat, words <= words', words' <= MemTop, at + size <= words',
           ptr' \in Nat, ptr <= ptr', Floor(from) <= at, Bound(from) <= at,
           at + size <= Bound(from)'
    PROVE  /\ Grows /\ Fresh(n) /\ WritesIn(n)
           /\ Rewrites(s, holds, size) => Kept1(n, SpaceOf(n)')
<1>1. /\ HeapBase \in Nat \ {0} /\ top \in Nat /\ words \in Nat /\ HeapBase <= words /\ base \in Nat
      /\ top <= words /\ end \in Nat /\ end <= words /\ MemTop \in Nat /\ ptr \in Nat /\ base <= ptr
      /\ DOMAIN mem = Words(MemTop)
  BY MemoryAssumption DEF MemShape, Pointers, MemTop
<1>2. /\ n \in BlockRec /\ n.from = from /\ n.lo = at /\ n.at = at /\ n.size = size
      /\ n.holds = holds /\ n.misread = FALSE
  <2>1. Len(holds) \in Nat \ {0} /\ from \in {"data", "heap", "page", "pages", "pool"}
    OBVIOUS
  <2> QED BY <2>1 DEF Block, BlockRec
<1>3. at + size <= MemTop
  BY <1>1
<1>4. PutInto(mem', mem, MemTop, at, s, size)
  <2>1. IsSpace(mem, MemTop) /\ HasSize(s, size)
    BY <1>1 DEF IsSpace, HasSize
  <2>2. PutInto(Put(mem, at, s), mem, MemTop, at, s, size)
    BY <1>1, <1>3, <2>1, PutIn
  <2> QED BY <2>2
<1>5. /\ DOMAIN mem' = Words(MemTop)
      /\ \A w \in Words(MemTop) : ~(at <= w /\ w < at + size) => mem'[w] = mem[w]
      /\ \A i \in 1 .. size : mem'[at + i - 1] = s[i]
  BY <1>4, Zenon DEF PutInto
<1>6. Grows
  BY <1>1, <1>5 DEF Grows, MemShape, Pointers
<1>7. Fresh(n)
  <2>1. n.from # "data" /\ n.from # "pool"
    BY <1>2
  <2>2. Limit(n)' = words' /\ BlockEnd(n) = at + size
    BY <1>2, <2>1 DEF Limit, BlockEnd
  <2>3. Floor(n.from) <= n.lo /\ Bound(n.from) <= n.lo
    BY <1>2, Zenon
  <2>5. at <= at
    OBVIOUS
  <2>6. n.lo <= n.at
    BY <1>2, <2>5, Zenon
  <2>4. BlockEnd(n) <= Bound(n.from)' /\ BlockEnd(n) <= Limit(n)'
    BY <1>2, <2>2
  <2> QED BY <1>2, <2>1, <2>3, <2>4, <2>6 DEF Fresh
<1>8. WritesIn(n)
  <2>1. \A w \in Words(words) : w \in Words(MemTop)
    BY <1>1 DEF MemShape, Pointers, Words
  <2> QED BY <1>2, <1>5, <2>1 DEF WritesIn, BlockEnd
<1>9. ASSUME Rewrites(s, holds, size)
      PROVE  Kept1(n, SpaceOf(n)')
  <2>1. SpaceOf(n)' = mem'
    BY <1>2 DEF SpaceOf
  <2>2. \A i \in 1 .. n.size : mem'[n.at + i - 1] = n.holds[i]
    BY <1>2, <1>5, <1>9 DEF Rewrites
  <2>3. n.from # "heap"
    BY <1>2
  <2>4. Kept1(n, mem')
    BY <2>2, <2>3 DEF Kept1
  <2> QED BY <2>1, <2>4
<1> QED BY <1>6, <1>7, <1>8, <1>9

(* Where the page's next block goes.                                       *)
LEMMA HostRoom ==
    ASSUME MemShape, NEW size \in Size, NEW a \in Align, HostBumps(size, a)
    PROVE  /\ size \in Nat \ {0} /\ HostAt(a) \in Nat /\ ptr <= HostAt(a)
           /\ ptr' = HostAt(a) + size /\ ptr' \in Nat /\ ptr <= ptr' /\ ptr' <= words'
           /\ words' \in Nat /\ words <= words' /\ words' <= MemTop
<1>1. /\ PageWords \in Nat \ {0} /\ MaxPages \in Nat /\ size \in Nat \ {0} /\ a \in Nat \ {0}
  BY MemoryAssumption
<1>2. words \in Nat /\ words <= MemTop /\ ptr \in Nat
  BY DEF MemShape, Pointers
<1>3. HostAt(a) \in Nat /\ ptr <= HostAt(a)
  BY <1>1, <1>2, AlignUpIs DEF HostAt
<1>4. PICK u \in Nat : u = HostAt(a) + size
  BY <1>1, <1>3
<1>5. ptr' = u /\ CanGrow(words, u) /\ Grow(words, u)
  BY <1>4, Zenon DEF HostBumps
<1>6. CASE u > words
  <2>1. u - words \in Nat
    BY <1>2, <1>6
  <2>2. PICK g \in Nat : g = AlignUp(u - words, PageWords) /\ u - words <= g
    BY <1>1, <2>1, AlignUpIs
  <2>3. words' = words + g /\ words + g <= MemTop
    BY <1>5, <1>6, <2>2 DEF CanGrow, Grow, Grown, MemTop
  <2>4. words' \in Nat /\ words <= words' /\ words' <= MemTop /\ u <= words'
    BY <1>2, <1>6, <2>2, <2>3
  <2> QED BY <1>1, <1>2, <1>3, <1>4, <1>5, <2>4
<1>7. CASE ~(u > words)
  <2>1. words' = words
    BY <1>5, <1>7 DEF Grow
  <2> QED BY <1>1, <1>2, <1>3, <1>4, <1>5, <1>7, <2>1
<1> QED BY <1>6, <1>7

LEMMA HostFresh ==
    ASSUME MemShape, NEW size \in Size, NEW a \in Align, HostBumps(size, a),
           NEW s, Len(s) = size, mem' = Put(mem, HostAt(a), s),
           UNCHANGED <<top, end, base, bump, shared>>,
           NEW holds \in Seq(Nat), Len(holds) = size,
           NEW n, n = Block("page", HostAt(a), HostAt(a), holds, FALSE)
    PROVE  /\ Grows /\ Fresh(n) /\ WritesIn(n)
           /\ Rewrites(s, holds, size) => Kept1(n, SpaceOf(n)')
<1>1. PICK at \in Nat : at = HostAt(a)
  BY HostRoom
<1>2. /\ size \in Nat \ {0} /\ ptr <= at
      /\ ptr' = at + size /\ ptr' \in Nat /\ ptr <= ptr' /\ ptr' <= words'
      /\ words' \in Nat /\ words <= words' /\ words' <= MemTop
  BY <1>1, HostRoom
<1>3. ptr \in Nat /\ base \in Nat /\ base <= ptr
  BY DEF MemShape, Pointers
<1>4. Floor("page") <= at /\ Bound("page") <= at /\ at + size <= Bound("page")'
  BY <1>2, <1>3 DEF Floor, Bound
<1>5. at + size <= words' /\ "page" \in {"page", "pages"}
  BY <1>2
<1>6. mem' = Put(mem, at, s) /\ n = Block("page", at, at, holds, FALSE)
  BY <1>1
<1> QED BY <1>2, <1>4, <1>5, <1>6, PageFresh

LEMMA HostAllocKeeps ==
    ASSUME MemInv, NEW size \in Size, NEW a \in Align, HostAlloc(size, a)
    PROVE  MemInv'
<1>1. MemShape /\ size \in Nat /\ blocks \in Seq(BlockRec)
  BY MemoryAssumption DEF MemInv, MemShape
<1>2. PICK s \in Seq(Nat) : s = Fill(size) /\ Len(s) = size
  BY <1>1, FillIs
<1>3. PICK n : n = Block("page", HostAt(a), HostAt(a), s, FALSE)
  OBVIOUS
<1>4. /\ HostBumps(size, a) /\ mem' = Put(mem, HostAt(a), s)
      /\ UNCHANGED <<top, end, base, bump, shared>> /\ blocks' = Append(blocks, n)
  BY <1>2, <1>3, Zenon DEF HostAlloc
<1>5. Rewrites(s, s, size)
  BY DEF Rewrites
<1>6. Grows /\ Fresh(n) /\ WritesIn(n) /\ Kept1(n, SpaceOf(n)')
  BY <1>1, <1>2, <1>3, <1>4, <1>5, HostFresh
<1>7. Thins(blocks)
  BY <1>1 DEF Thins
<1> QED BY <1>4, <1>6, <1>7, InvAdds

LEMMA HostReallocKeeps ==
    ASSUME MemInv, NEW b \in DOMAIN blocks, NEW size \in Size, NEW a \in Align,
           HostRealloc(b, size, a)
    PROVE  MemInv'
<1>1. MemShape /\ size \in Nat /\ blocks \in Seq(BlockRec)
  BY MemoryAssumption DEF MemInv, MemShape
<1>2. IsBlock(b, "page") /\ HostBumps(size, a) /\ UNCHANGED <<top, end, base, bump, shared>>
  BY Zenon DEF HostRealloc
<1>3. PICK old \in BlockRec : old = blocks[b] /\ Placed(old) /\ old.live /\ old.from = "page"
  BY <1>1, <1>2 DEF MemShape, IsBlock, Placed
<1>4. PICK s : s = Copied(mem, old, size, HostAt(a), size)
  OBVIOUS
<1>5. Len(s) = size
  BY <1>1, <1>4, CopiedIs
<1>6. PICK holds \in Seq(Nat) : holds = Regrown(old, size) /\ Len(holds) = size
  BY <1>1, <1>3, RegrownIs
<1>7. PICK n : n = Block("page", HostAt(a), HostAt(a), holds, FALSE)
  OBVIOUS
<1>8. mem' = Put(mem, HostAt(a), s) /\ blocks' = Append(Drops(b), n)
  BY <1>3, <1>4, <1>6, <1>7, Zenon DEF HostRealloc
<1>9. /\ Grows /\ Fresh(n) /\ WritesIn(n)
      /\ Rewrites(s, holds, size) => Kept1(n, SpaceOf(n)')
  BY <1>1, <1>2, <1>5, <1>6, <1>7, <1>8, HostFresh
<1>10. Thins(Drops(b))
  BY <1>1, DropsThins
<1>11. ASSUME ~Trespassed PROVE Rewrites(s, holds, size)
  <2>1. Kept1(old, mem)
    BY <1>3, <1>11 DEF MemInv, Contents, SpaceOf
  <2>2. ~old.misread
    BY <1>3 DEF Placed
  <2>3. Reaches(size, old, size) /\ SameWords(old, mem, mem) /\ old.live
    BY <1>3 DEF Reaches, SameWords
  <2>4. Rewrites(Copied(mem, old, size, HostAt(a), size), Regrown(old, size), size)
    BY <1>1, <2>1, <2>2, <2>3, CopiedRight
  <2> QED BY <1>4, <1>6, <2>4 DEF Rewrites
<1> QED BY <1>8, <1>9, <1>10, <1>11, InvAdds

LEMMA WasmAllocKeeps ==
    ASSUME MemInv, NEW size \in Size, WasmAlloc(size)
    PROVE  MemInv'
<1>1. MemShape /\ size \in Nat \ {0} /\ blocks \in Seq(BlockRec) /\ PageWords \in Nat \ {0}
  BY MemoryAssumption DEF MemInv, MemShape
<1>2. PICK s \in Seq(Nat) : s = Fill(size) /\ Len(s) = size
  BY <1>1, FillIs
<1>3. PICK at \in Nat : at = words
  BY <1>1 DEF MemShape, Pointers
<1>4. PICK n : n = Block("pages", at, at, s, FALSE)
  OBVIOUS
<1>5. PICK g \in Nat : g = AlignUp(size, PageWords) /\ size <= g
  BY <1>1, AlignUpIs
<1>6. /\ words + g <= MemTop /\ words' = words + g /\ mem' = Put(mem, at, s)
      /\ UNCHANGED <<top, end, base, ptr, bump, shared>> /\ blocks' = Append(blocks, n)
  BY <1>2, <1>3, <1>4, <1>5, Zenon DEF WasmAlloc, MemTop
<1>7. HeapBase \in Nat /\ HeapBase <= at /\ ptr \in Nat
  BY <1>1, <1>3, MemoryAssumption DEF MemShape, Pointers
<1>8. /\ words' \in Nat /\ words <= words' /\ words' <= MemTop /\ at + size <= words'
  BY <1>1, <1>3, <1>5, <1>6
<1>9. Floor("pages") <= at /\ Bound("pages") <= at /\ at + size <= Bound("pages")'
  BY <1>3, <1>7, <1>8 DEF Floor, Bound
<1>10. "pages" \in {"page", "pages"} /\ ptr' \in Nat /\ ptr <= ptr'
  BY <1>6, <1>7
<1>11. UNCHANGED <<top, end, base, bump, shared>>
  BY <1>6
<1>12. /\ Grows /\ Fresh(n) /\ WritesIn(n)
       /\ Rewrites(s, s, size) => Kept1(n, SpaceOf(n)')
  BY <1>1, <1>2, <1>4, <1>6, <1>8, <1>9, <1>10, <1>11, PageFresh
<1>13. Rewrites(s, s, size) /\ Thins(blocks)
  BY <1>1 DEF Rewrites, Thins
<1> QED BY <1>6, <1>12, <1>13, InvAdds

(* The pool.                                                               *)
LEMMA PoolFresh ==
    ASSUME MemShape, NEW size \in Size, NEW a \in Align, PoolBumps(size, a),
           NEW s, Len(s) = size, shared' = Put(shared, PoolAt(a), s),
           UNCHANGED <<words, top, end, base, ptr, mem>>,
           NEW holds \in Seq(Nat), Len(holds) = size,
           NEW n, n = Block("pool", PoolAt(a), PoolAt(a), holds, FALSE)
    PROVE  /\ Grows /\ Fresh(n) /\ WritesIn(n)
           /\ Rewrites(s, holds, size) => Kept1(n, SpaceOf(n)')
<1>1. size \in Nat \ {0} /\ a \in Nat \ {0} /\ PoolWords \in Nat
  BY MemoryAssumption
<1>2. bump \in Nat /\ words \in Nat /\ DOMAIN shared = Words(PoolWords)
  BY DEF MemShape, Pointers
<1>3. PICK at \in Nat : at = PoolAt(a) /\ bump <= at
  BY <1>1, <1>2, AlignUpIs DEF PoolAt
<1>4. at + size <= PoolWords /\ bump' = at + size
  BY <1>3, Zenon DEF PoolBumps
<1>5. PutInto(shared', shared, PoolWords, at, s, size)
  <2>1. IsSpace(shared, PoolWords) /\ HasSize(s, size)
    BY <1>2 DEF IsSpace, HasSize
  <2>2. PutInto(Put(shared, at, s), shared, PoolWords, at, s, size)
    BY <1>1, <1>4, <2>1, PutIn
  <2> QED BY <1>3, <2>2
<1>6. /\ DOMAIN shared' = Words(PoolWords)
      /\ \A w \in Words(PoolWords) : ~(at <= w /\ w < at + size) => shared'[w] = shared[w]
      /\ \A i \in 1 .. size : shared'[at + i - 1] = s[i]
  BY <1>5, Zenon DEF PutInto
<1>7. /\ n \in BlockRec /\ n.from = "pool" /\ n.lo = at /\ n.at = at /\ n.size = size
      /\ n.holds = holds /\ n.misread = FALSE
  <2>1. Len(holds) \in Nat \ {0}
    BY <1>1
  <2> QED BY <1>3, <2>1 DEF Block, BlockRec
<1>8. Grows
  <2>1. bump' \in Nat /\ bump <= bump'
    BY <1>1, <1>2, <1>3, <1>4
  <2> QED BY <1>6, <2>1, MemoryAssumption DEF Grows, MemShape, Pointers
<1>9. Fresh(n)
  <2>1. Limit(n)' = PoolWords /\ BlockEnd(n) = at + size /\ Bound(n.from)' = bump'
        /\ Bound(n.from) = bump /\ Floor(n.from) = 0
    BY <1>7 DEF Limit, BlockEnd, Bound, Floor
  <2>2. 0 <= at /\ bump <= at /\ at <= at /\ at + size <= bump' /\ at + size <= PoolWords
    BY <1>1, <1>3, <1>4
  <2>3. /\ n.size = Len(n.holds) /\ n.from # "data" /\ (n.misread => n.from = "heap")
    BY <1>7
  <2> QED BY <1>7, <2>1, <2>2, <2>3, Zenon DEF Fresh
<1>10. WritesIn(n)
  BY <1>6, <1>7 DEF WritesIn, BlockEnd
<1>11. ASSUME Rewrites(s, holds, size)
       PROVE  Kept1(n, SpaceOf(n)')
  <2>1. SpaceOf(n)' = shared'
    BY <1>7 DEF SpaceOf
  <2>2. \A i \in 1 .. n.size : shared'[n.at + i - 1] = n.holds[i]
    BY <1>6, <1>7, <1>11 DEF Rewrites
  <2>3. Kept1(n, shared')
    BY <1>7, <2>2 DEF Kept1
  <2> QED BY <2>1, <2>3
<1> QED BY <1>8, <1>9, <1>10, <1>11

LEMMA SharedAllocKeeps ==
    ASSUME MemInv, NEW size \in Size, NEW a \in Align, SharedAlloc(size, a)
    PROVE  MemInv'
<1>1. MemShape /\ size \in Nat /\ blocks \in Seq(BlockRec)
  BY MemoryAssumption DEF MemInv, MemShape
<1>2. PICK s \in Seq(Nat) : s = Fill(size) /\ Len(s) = size
  BY <1>1, FillIs
<1>3. PICK n : n = Block("pool", PoolAt(a), PoolAt(a), s, FALSE)
  OBVIOUS
<1>4. /\ PoolBumps(size, a) /\ shared' = Put(shared, PoolAt(a), s)
      /\ UNCHANGED <<words, top, end, base, ptr, mem>> /\ blocks' = Append(blocks, n)
  BY <1>2, <1>3, Zenon DEF SharedAlloc
<1>5. Rewrites(s, s, size) /\ Thins(blocks)
  BY <1>1 DEF Rewrites, Thins
<1>6. Grows /\ Fresh(n) /\ WritesIn(n) /\ Kept1(n, SpaceOf(n)')
  BY <1>1, <1>2, <1>3, <1>4, <1>5, PoolFresh
<1> QED BY <1>4, <1>5, <1>6, InvAdds

LEMMA SharedReallocKeeps ==
    ASSUME MemInv, NEW b \in DOMAIN blocks, NEW size \in Size, NEW a \in Align,
           SharedRealloc(b, size, a)
    PROVE  MemInv'
<1>1. MemShape /\ size \in Nat /\ blocks \in Seq(BlockRec)
  BY MemoryAssumption DEF MemInv, MemShape
<1>2. IsBlock(b, "pool") /\ PoolBumps(size, a) /\ UNCHANGED <<words, top, end, base, ptr, mem>>
  BY Zenon DEF SharedRealloc
<1>3. PICK old \in BlockRec : old = blocks[b] /\ Placed(old) /\ old.live /\ old.from = "pool"
  BY <1>1, <1>2 DEF MemShape, IsBlock, Placed
<1>4. PICK s : s = Copied(shared, old, old.size, PoolAt(a), size)
  OBVIOUS
<1>5. Len(s) = size
  BY <1>1, <1>4, CopiedIs
<1>6. PICK holds \in Seq(Nat) : holds = Regrown(old, size) /\ Len(holds) = size
  BY <1>1, <1>3, RegrownIs
<1>7. PICK n : n = Block("pool", PoolAt(a), PoolAt(a), holds, FALSE)
  OBVIOUS
<1>8. shared' = Put(shared, PoolAt(a), s) /\ blocks' = Append(Drops(b), n)
  BY <1>3, <1>4, <1>6, <1>7, Zenon DEF SharedRealloc
<1>9. /\ Grows /\ Fresh(n) /\ WritesIn(n)
      /\ Rewrites(s, holds, size) => Kept1(n, SpaceOf(n)')
  BY <1>1, <1>2, <1>5, <1>6, <1>7, <1>8, PoolFresh
<1>10. Thins(Drops(b))
  BY <1>1, DropsThins
<1>11. ASSUME ~Trespassed PROVE Rewrites(s, holds, size)
  <2>1. Kept1(old, shared)
    BY <1>3, <1>11 DEF MemInv, Contents, SpaceOf
  <2>2. ~old.misread /\ old.size \in Nat
    BY <1>3 DEF Placed, BlockRec
  <2>3. Reaches(old.size, old, size) /\ SameWords(old, shared, shared) /\ old.live
    BY <1>3 DEF Reaches, SameWords
  <2>4. Rewrites(Copied(shared, old, old.size, PoolAt(a), size), Regrown(old, size), size)
    BY <1>1, <2>1, <2>2, <2>3, CopiedRight
  <2> QED BY <1>4, <1>6, <2>4 DEF Rewrites
<1> QED BY <1>8, <1>9, <1>10, <1>11, InvAdds

(* Every step of an allocator keeps the invariant.                         *)
LEMMA MemStepKeeps ==
    ASSUME MemInv, MemStep
    PROVE  MemInv'
<1>1. CASE HeapStep
  <2>1. PICK size \in Size, a \in Align :
          \/ BumpAlloc(size, a) \/ BumpRefused(size, a)
          \/ \E b \in DOMAIN blocks : BumpRealloc(b, size, a) \/ BumpFree(b)
    BY <1>1, Zenon DEF HeapStep
  <2>2. ASSUME NEW b \in DOMAIN blocks, BumpFree(b) PROVE MemInv'
    <3>1. blocks' = Drops(b) /\ UNCHANGED <<words, top, end, base, ptr, bump, mem, shared>>
      BY <2>2 DEF BumpFree
    <3> QED BY <3>1, BlockDropKeeps
  <2> QED BY <2>1, <2>2, BumpAllocKeeps, BumpRefusedKeeps, BumpReallocKeeps
<1>2. CASE PageMemStep
  <2>1. PICK size \in Size :
          \/ WasmAlloc(size)
          \/ \E a \in Align : HostAlloc(size, a) \/ \E b \in DOMAIN blocks : HostRealloc(b, size, a)
    BY <1>2, Zenon DEF PageMemStep
  <2> QED BY <2>1, WasmAllocKeeps, HostAllocKeeps, HostReallocKeeps
<1>3. CASE PoolStep
  <2>1. PICK b \in DOMAIN blocks \cup {0} :
          \/ SharedFree(b)
          \/ \E size \in Size, a \in Align : IF b = 0 THEN SharedAlloc(size, a)
                                                      ELSE SharedRealloc(b, size, a)
    BY <1>3, Zenon DEF PoolStep
  <2>2. CASE SharedFree(b)
    <3>1. b \in DOMAIN blocks /\ blocks' = Drops(b)
          /\ UNCHANGED <<words, top, end, base, ptr, bump, mem, shared>>
      BY <2>2 DEF SharedFree, IsBlock
    <3> QED BY <3>1, BlockDropKeeps
  <2>3. CASE \E size \in Size, a \in Align : IF b = 0 THEN SharedAlloc(size, a)
                                                     ELSE SharedRealloc(b, size, a)
    BY <2>1, <2>3, SharedAllocKeeps, SharedReallocKeeps
  <2> QED BY <2>1, <2>2, <2>3
<1> QED BY <1>1, <1>2, <1>3 DEF MemStep

(* And it holds at first,                                                  *)
LEMMA MemInitKeeps ==
    ASSUME MemInit
    PROVE  MemInv
<1>1. /\ HeapBase \in Nat \ {0} /\ PageWords \in Nat \ {0} /\ MaxPages \in Nat
      /\ HeapBase <= PageWords * MaxPages /\ base \in Nat \ {0} /\ PoolWords \in Nat
  BY MemoryAssumption DEF MemInit
<1>2. /\ ptr = base /\ words = AlignUp(HeapBase, PageWords) /\ top = 0 /\ end = 0 /\ bump = 2
      /\ mem = [w \in Words(MemTop) |-> IF w < HeapBase THEN 100 ELSE 0]
      /\ shared = [w \in Words(PoolWords) |-> 0]
  BY DEF MemInit, MemTop
<1>3. words \in Nat /\ HeapBase <= words
  BY <1>1, <1>2, AlignUpIs
<1>4. words <= MemTop
  BY <1>1, <1>2, AlignUpFits DEF MemTop
<1>5. Pointers
  BY <1>1, <1>2, <1>3, <1>4 DEF Pointers
<1>6. PICK h : h = [i \in 1 .. HeapBase |-> 100]
  OBVIOUS
<1>7. h \in Seq(Nat) /\ Len(h) = HeapBase /\ \A i \in 1 .. HeapBase : h[i] = 100
  BY <1>1, <1>6
<1>8. PICK b : b = [from |-> "data", lo |-> 0, at |-> 0, size |-> HeapBase, live |-> TRUE,
                    holds |-> h, misread |-> FALSE]
  OBVIOUS
<1>9. /\ b \in BlockRec /\ b.from = "data" /\ b.lo = 0 /\ b.at = 0 /\ b.size = HeapBase
      /\ b.holds = h /\ ~b.misread
  BY <1>1, <1>7, <1>8 DEF BlockRec
<1>10. blocks = <<b>>
  BY <1>6, <1>8, Zenon DEF MemInit
<1>11. blocks \in Seq(BlockRec) /\ DOMAIN blocks = {1} /\ blocks[1] = b
  BY <1>9, <1>10
<1>12. Placed(b)
  <2>1. Floor(b.from) = 0 /\ Bound(b.from) = HeapBase /\ Limit(b) = words /\ BlockEnd(b) = HeapBase
    BY <1>1, <1>9 DEF Floor, Bound, Limit, BlockEnd
  <2> QED BY <1>1, <1>3, <1>7, <1>9, <2>1 DEF Placed
<1>13. MemShape
  BY <1>5, <1>11, <1>12 DEF MemShape, Ordered
<1>14. Kept1(b, mem)
  <2>1. ASSUME NEW i \in 1 .. HeapBase PROVE mem[0 + i - 1] = 100
    <3>1. PICK w \in Nat : w = 0 + i - 1 /\ w < HeapBase
      BY <1>1
    <3>2. w \in Words(MemTop)
      BY <1>1, <1>3, <1>4, <3>1 DEF Words, MemTop
    <3> QED BY <1>2, <3>1, <3>2
  <2> QED BY <1>7, <1>9, <2>1 DEF Kept1
<1>15. Contents
  BY <1>9, <1>11, <1>14 DEF Contents, SpaceOf
<1> QED BY <1>13, <1>15 DEF MemInv

(* and says what BlocksApart does.                                         *)
LEMMA MemInvMeans ==
    ASSUME MemInv
    PROVE  BlocksApart
<1>1. AllClear /\ MemShape
  BY ShapeClear DEF MemInv
<1>2. ASSUME NEW i \in DOMAIN blocks
      PROVE  Room(blocks[i]) \subseteq Words(Limit(blocks[i]))
  <2>1. PICK b \in BlockRec : b = blocks[i] /\ Placed(b)
    BY <1>1 DEF MemShape, Placed
  <2>2. b.lo \in Nat /\ b.at \in Nat /\ b.size \in Nat
    BY DEF BlockRec
  <2>3. ASSUME NEW w \in Room(b) PROVE w \in Words(Limit(b))
    <3>1. w \in Nat /\ b.lo <= w /\ w < BlockEnd(b)
      BY <2>2 DEF Room, BlockEnd
    <3> QED BY <1>1, <2>1, <3>1, InSpace
  <2> QED BY <2>1, <2>3
<1>3. ASSUME NEW i \in DOMAIN blocks, NEW j \in DOMAIN blocks, i < j,
             SameSpace(blocks[i], blocks[j]), blocks[i].from = blocks[j].from \/ ~Trespassed
      PROVE  Room(blocks[i]) \cap Room(blocks[j]) = {}
  <2>1. PICK b \in BlockRec : b = blocks[i]
    BY <1>1 DEF MemShape
  <2>2. PICK c \in BlockRec : c = blocks[j]
    BY <1>1 DEF MemShape
  <2>3. i # j
    BY <1>1, <1>3 DEF MemShape
  <2>4. Clear(b, c)
    BY <1>1, <1>3, <2>1, <2>2, <2>3 DEF AllClear
  <2>5. /\ b.lo \in Nat /\ b.at \in Nat /\ b.size \in Nat
        /\ c.lo \in Nat /\ c.at \in Nat /\ c.size \in Nat
    BY DEF BlockRec
  <2>6. \A w \in Room(b) : w \notin Room(c)
    BY <2>4, <2>5 DEF Clear, BlockEnd, Room
  <2> QED BY <2>1, <2>2, <2>6
<1>4. ASSUME ~Trespassed, NEW b \in Range(blocks)
      PROVE  Kept1(b, SpaceOf(b)) /\ (b.from = "heap" => SpaceOf(b) = mem)
  <2>1. PICK i \in DOMAIN blocks : b = blocks[i]
    BY DEF Range
  <2> QED BY <1>4, <2>1 DEF MemInv, Contents, SpaceOf
<1>5. /\ \A i, j \in DOMAIN blocks :
           LET b == blocks[i] c == blocks[j]
           IN  /\ Room(b) \subseteq Words(Limit(b))
               /\ i < j /\ SameSpace(b, c) /\ (b.from = c.from \/ ~Trespassed) =>
                    Room(b) \cap Room(c) = {}
  BY <1>2, <1>3, Zenon
<1>6. ~Trespassed => \A b \in Range(blocks) :
        LET space == IF b.from = "pool" THEN shared ELSE mem
        IN  /\ b.live /\ ~b.misread => \A i \in 1 .. b.size : space[b.at + i - 1] = b.holds[i]
            /\ b.from = "heap" /\ ~Padded(b) => mem[b.lo] = b.size
  BY <1>4, Zenon DEF Kept1, SpaceOf
<1> QED BY <1>5, <1>6 DEF BlocksApart

(* The rest of its types: memory is of whole pages, and what is planned.   *)
MemTypes ==
    /\ words % PageWords = 0 /\ base \in Bases
    /\ bump \in 2 .. PoolWords /\ memPlan \in [MemCall -> Nat]

Whole(v, a) == v % a = 0

LEMMA AlignUpWhole ==
    ASSUME NEW v \in Nat, NEW a \in Nat \ {0}
    PROVE  Whole(AlignUp(v, a), a)
<1> DEFINE q == v \div a
           r == v % a
<1>1. q \in Nat /\ r \in 0 .. a - 1 /\ v = a * q + r
  OBVIOUS
<1>2. CASE r = 0
  <2>1. (a - r) % a = 0
    BY <1>2
  <2>2. AlignUp(v, a) = v
    BY <2>1 DEF AlignUp
  <2> QED BY <1>2, <2>2 DEF Whole
<1>3. CASE r # 0
  <2>1. (a - r) % a = a - r
    BY <1>1, <1>3
  <2>2. AlignUp(v, a) = a * q + a
    BY <1>1, <2>1 DEF AlignUp
  <2>3. a * (q + 1) = a * q + a
    BY <1>1
  <2>4. (a * (q + 1)) % a = 0
    BY <1>1
  <2> QED BY <2>2, <2>3, <2>4 DEF Whole
<1> QED BY <1>2, <1>3

LEMMA WholeSum ==
    ASSUME NEW a \in Nat \ {0}, NEW v \in Nat, NEW w \in Nat, Whole(v, a), Whole(w, a)
    PROVE  Whole(v + w, a)
<1>1. PICK p \in Nat : v = a * p
  <2>1. PICK u \in Nat, r \in Nat : u = v \div a /\ r = v % a /\ v = a * u + r
    OBVIOUS
  <2>2. r = 0
    BY <2>1, Zenon DEF Whole
  <2>3. v = a * u
    BY <2>1, <2>2
  <2> QED BY <2>3
<1>2. PICK q \in Nat : w = a * q
  <2>1. PICK u \in Nat, r \in Nat : u = w \div a /\ r = w % a /\ w = a * u + r
    OBVIOUS
  <2>2. r = 0
    BY <2>1, Zenon DEF Whole
  <2>3. w = a * u
    BY <2>1, <2>2
  <2> QED BY <2>3
<1>3. v + w = a * (p + q)
  BY <1>1, <1>2
<1>4. (a * (p + q)) % a = 0
  OBVIOUS
<1> QED BY <1>3, <1>4 DEF Whole

LEMMA GrowWhole ==
    ASSUME Whole(words, PageWords), words \in Nat, NEW limit \in Nat, NEW upto \in Nat, Grow(limit, upto)
    PROVE  Whole(words', PageWords)
<1>1. CASE upto > limit
  <2>1. upto - limit \in Nat /\ PageWords \in Nat \ {0}
    BY <1>1, MemoryAssumption
  <2>2. PICK g \in Nat : g = AlignUp(upto - limit, PageWords) /\ Whole(g, PageWords)
    BY <2>1, AlignUpIs, AlignUpWhole
  <2>3. words' = words + g
    BY <1>1, <2>2 DEF Grow, Grown
  <2> QED BY <2>1, <2>2, <2>3, WholeSum
<1>2. CASE ~(upto > limit)
  <2>1. words' = words
    BY <1>2 DEF Grow
  <2> QED BY <2>1
<1> QED BY <1>1, <1>2

LEMMA Uses1Types ==
    ASSUME memPlan \in [MemCall -> Nat], NEW kind \in MemCall, Uses1(kind)
    PROVE  memPlan' \in [MemCall -> Nat]
<1>1. memPlan[kind] - 1 \in Nat
  BY DEF Uses1
<1> QED BY <1>1 DEF Uses1

LEMMA MemTypesKept ==
    ASSUME MemInv, MemTypes, MemStep
    PROVE  MemTypes'
<1>1. /\ MemShape /\ words \in Nat /\ ptr \in Nat /\ bump \in Nat /\ bump \in 2 .. PoolWords
      /\ base \in Bases /\ memPlan \in [MemCall -> Nat] /\ Whole(words, PageWords)
      /\ PoolWords \in Nat
  BY MemoryAssumption DEF MemInv, MemShape, Pointers, MemTypes, Whole
<1>2. {"heap", "page", "regrow", "pages", "pool"} \subseteq MemCall
  BY DEF MemCall
<1>3. ASSUME Whole(words', PageWords), base' = base, bump' \in 2 .. PoolWords,
             memPlan' = memPlan \/ \E kind \in MemCall : Uses1(kind)
      PROVE  MemTypes'
  <2>1. memPlan' \in [MemCall -> Nat]
    BY <1>1, <1>3, Uses1Types
  <2> QED BY <1>1, <1>3, <2>1 DEF MemTypes, Whole
<1>4. ASSUME NEW size \in Size, NEW a \in Align, Bumps(size, a)
      PROVE  Whole(words', PageWords)
  <2>1. DataAt(a) + size \in Nat
    BY <1>1, <1>4, HeapRoom
  <2>2. HeapEnd \in Nat
    BY <1>1 DEF HeapEnd, MemShape, Pointers
  <2>3. Grow(HeapEnd, DataAt(a) + size)
    BY <1>4 DEF Bumps
  <2> QED BY <1>1, <2>1, <2>2, <2>3, GrowWhole
<1>5. ASSUME NEW size \in Size, NEW a \in Align, HostBumps(size, a)
      PROVE  Whole(words', PageWords)
  <2>1. HostAt(a) + size \in Nat
    BY <1>1, <1>5, HostRoom
  <2>2. Grow(words, HostAt(a) + size)
    BY <1>5 DEF HostBumps
  <2> QED BY <1>1, <2>1, <2>2, GrowWhole
<1>6. ASSUME NEW size \in Size, NEW a \in Align, PoolBumps(size, a)
      PROVE  bump' \in 2 .. PoolWords
  <2>1. PICK at \in Nat : at = PoolAt(a) /\ bump <= at
    BY <1>1, MemoryAssumption, AlignUpIs DEF PoolAt
  <2>2. at + size <= PoolWords /\ bump' = at + size
    BY <1>6, <2>1, Zenon DEF PoolBumps
  <2>3. size \in Nat
    BY MemoryAssumption
  <2> QED BY <1>1, <2>1, <2>2, <2>3
<1>7. CASE HeapStep
  <2>1. PICK size \in Size, a \in Align :
          \/ BumpAlloc(size, a) \/ BumpRefused(size, a)
          \/ \E b \in DOMAIN blocks : BumpRealloc(b, size, a) \/ BumpFree(b)
    BY <1>7, Zenon DEF HeapStep
  <2>2. CASE BumpAlloc(size, a)
    BY <1>1, <1>2, <1>3, <1>4, <2>2 DEF BumpAlloc
  <2>3. CASE BumpRefused(size, a)
    BY <1>1, <1>3, <2>3 DEF BumpRefused
  <2>4. ASSUME NEW b \in DOMAIN blocks, BumpRealloc(b, size, a) PROVE MemTypes'
    <3>1. Uses1("heap") /\ Bumps(size, a) /\ base' = base /\ bump' = bump
      BY <2>4, Zenon DEF BumpRealloc
    <3> QED BY <1>1, <1>2, <1>3, <1>4, <3>1
  <2>5. ASSUME NEW b \in DOMAIN blocks, BumpFree(b) PROVE MemTypes'
    BY <1>1, <1>3, <2>5 DEF BumpFree
  <2> QED BY <2>1, <2>2, <2>3, <2>4, <2>5
<1>8. CASE PageMemStep
  <2>1. PICK size \in Size :
          \/ WasmAlloc(size)
          \/ \E a \in Align : HostAlloc(size, a) \/ \E b \in DOMAIN blocks : HostRealloc(b, size, a)
    BY <1>8, Zenon DEF PageMemStep
  <2>2. CASE WasmAlloc(size)
    <3>1. PICK g \in Nat : g = AlignUp(size, PageWords) /\ Whole(g, PageWords)
      BY MemoryAssumption, AlignUpIs, AlignUpWhole
    <3>2. words' = words + g /\ Uses1("pages") /\ base' = base /\ bump' = bump
      BY <2>2, <3>1 DEF WasmAlloc
    <3>3. Whole(words + g, PageWords)
      BY <1>1, <3>1, MemoryAssumption, WholeSum
    <3> QED BY <1>1, <1>2, <1>3, <3>2, <3>3
  <2>3. ASSUME NEW a \in Align, HostAlloc(size, a) PROVE MemTypes'
    <3>1. Uses1("page") /\ HostBumps(size, a) /\ base' = base /\ bump' = bump
      BY <2>3, Zenon DEF HostAlloc
    <3> QED BY <1>1, <1>2, <1>3, <1>5, <3>1
  <2>4. ASSUME NEW a \in Align, NEW b \in DOMAIN blocks, HostRealloc(b, size, a) PROVE MemTypes'
    <3>1. Uses1("regrow") /\ HostBumps(size, a) /\ base' = base /\ bump' = bump
      BY <2>4, Zenon DEF HostRealloc
    <3> QED BY <1>1, <1>2, <1>3, <1>5, <3>1
  <2> QED BY <2>1, <2>2, <2>3, <2>4
<1>9. CASE PoolStep
  <2>1. PICK b \in DOMAIN blocks \cup {0} :
          \/ SharedFree(b)
          \/ \E size \in Size, a \in Align : IF b = 0 THEN SharedAlloc(size, a)
                                                      ELSE SharedRealloc(b, size, a)
    BY <1>9, Zenon DEF PoolStep
  <2>2. CASE SharedFree(b)
    BY <1>1, <1>3, <2>2 DEF SharedFree
  <2>3. ASSUME NEW size \in Size, NEW a \in Align, SharedAlloc(size, a) \/ SharedRealloc(b, size, a)
        PROVE  MemTypes'
    <3>1. Uses1("pool") /\ PoolBumps(size, a) /\ words' = words /\ base' = base
      BY <2>3, Zenon DEF SharedAlloc, SharedRealloc
    <3>2. bump' \in 2 .. PoolWords
      BY <1>6, <3>1
    <3> QED BY <1>1, <1>2, <1>3, <3>1, <3>2
  <2> QED BY <2>1, <2>2, <2>3
<1> QED BY <1>7, <1>8, <1>9 DEF MemStep

LEMMA MemTypesFirst ==
    ASSUME MemInit
    PROVE  MemTypes
<1>1. /\ base \in Bases /\ words = AlignUp(HeapBase, PageWords) /\ bump = 2 /\ memPlan \in MemPlans
  BY DEF MemInit
<1>2. HeapBase \in Nat /\ PageWords \in Nat \ {0} /\ bump \in 2 .. PoolWords
      /\ memPlan \in [MemCall -> Nat]
  BY <1>1, MemoryAssumption
<1>3. Whole(words, PageWords)
  BY <1>1, <1>2, AlignUpWhole
<1> QED BY <1>1, <1>2, <1>3 DEF MemTypes, Whole

LEMMA MemTyped ==
    ASSUME MemInv, MemTypes
    PROVE  MemTypeOK
<1>1. /\ words \in Nat /\ words <= MemTop /\ MemTop \in Nat /\ top \in Nat /\ top <= words
      /\ end \in Nat /\ end <= words /\ base <= ptr /\ DOMAIN mem = Words(MemTop)
      /\ base \in Nat /\ ptr \in Nat
  BY MemoryAssumption DEF MemInv, MemShape, Pointers, MemTop
<1>2. words \in 0 .. MemTop /\ top \in 0 .. words /\ end \in 0 .. words /\ ptr >= base
  BY <1>1
<1> QED BY <1>1, <1>2 DEF MemTypes, MemTypeOK, MemTop

-----------------------------------------------------------------------------
(* The worker.                                                             *)

CallRec ==
    [pc : {"idle", "read", "look", "put", "clear meta", "clear bytes",
           "bytes", "network", "compile", "init"},
     what : {"none", "fetch", "store", "clear", "join"},
     page : Page \cup {None}, hash : Hash \cup {None}, key : Key \cup {None}, req : Nat]

(* What a handler knows, by what it is and where it is.                    *)
CallOK(x) ==
    /\ x \in CallRec
    /\ x.what = "fetch" => x.page \in Page
    /\ x.what \in {"fetch", "store", "join"} => x.hash \in Hash
    /\ x.what = "join" => x.key \in Key
    /\ x.pc = "read" => x.what = "fetch"
    /\ x.pc \in {"look", "put"} => x.what \in {"store", "join"}
    /\ x.pc \in {"bytes", "network", "compile", "init"} => x.what = "join"

CallsTyped == calls \in [Call -> CallRec] /\ \A c \in Call : CallOK(calls[c])

Instantiates(x, k) == x.key = k /\ x.pc \in {"compile", "init"}

(* What is marked as being instantiated, a join instantiates.              *)
MarksOK ==
    /\ instantiating \subseteq Key
    /\ \A k \in instantiating : \E c \in Call : Instantiates(calls[c], k)

StoreTypes ==
    /\ bytes \subseteq Hash /\ meta \subseteq Hash
    /\ answers \subseteq [page : Page, req : Nat, result : {"hit", "miss", "error"}]
    /\ row \in [Key -> {"none", "fresh", "stale"}]
    /\ epoch \in Nat /\ left \in [Kinds -> Nat]

ServiceRec == [key : Key, handles : SUBSET (1 .. MaxHandle), refs : Nat]

(* A record counts its handles, all given out; a registered service has    *)
(* handles that lead to it; a known handle is one of its record's.         *)
Counted(r, next) ==
    /\ r \in ServiceRec /\ r.handles \subseteq 1 .. next - 1
    /\ r.refs = Cardinality(r.handles)

(* The tables, but for whether the service of key no has handles.          *)
Tables(rs, svcs, kn, next, no) ==
    /\ rs \in Seq(ServiceRec)
    /\ svcs \in [Key -> 0 .. Len(rs)]
    /\ kn \in [1 .. MaxHandle -> 0 .. Len(rs)]
    /\ next \in 1 .. MaxHandle + 1
    /\ \A r \in DOMAIN rs : Counted(rs[r], next)
    /\ \A k \in Key : svcs[k] # 0 =>
         /\ rs[svcs[k]].key = k /\ (k # no => rs[svcs[k]].refs > 0)
         /\ \A h \in rs[svcs[k]].handles : kn[h] = svcs[k]
    /\ \A h \in DOMAIN kn : kn[h] # 0 => h \in rs[kn[h]].handles

RecsOK == Tables(recs, services, known, nextHandle, None)

(* What pages were given: the numbers of this worker are given out once,   *)
(* each for a record of the key; a record that lost its registration but   *)
(* has known handles lost it to an overlapping join.                       *)
Holds(hd, over, rs, svcs, kn, next) ==
    /\ hd \subseteq [handle : 1 .. MaxHandle, key : Key, rec : Nat, epoch : Nat]
    /\ over \subseteq Key
    /\ \A e \in hd : e.epoch <= epoch
    /\ \A e \in hd : e.epoch = epoch =>
         /\ e.handle < next /\ e.rec \in DOMAIN rs /\ rs[e.rec].key = e.key
    /\ \A e, f \in hd : e.epoch = epoch /\ f.epoch = epoch /\ e.handle = f.handle => e = f
    /\ \A h \in DOMAIN kn :
         kn[h] # 0 /\ svcs[rs[kn[h]].key] # kn[h] => rs[kn[h]].key \in over

HeldOK == Holds(held, overlapped, recs, services, known, nextHandle)

(* HeldIsServed, of the tables of a step that is not complete.             *)
Serves(hd, over, svcs, kn) ==
    \A e \in hd \ taken :
      e.epoch = epoch /\ e.key \notin over => kn[e.handle] = e.rec /\ svcs[e.key] = e.rec

WorkerInv == CallsTyped /\ MarksOK /\ StoreTypes /\ RecsOK /\ HeldOK /\ HeldIsServed

LEMMA WorkerInvMeans ==
    ASSUME WorkerInv
    PROVE  WorkerTypeOK /\ TablesAgree /\ HeldIsServed
<1>1. WorkerTypeOK
  BY DEF WorkerInv, CallsTyped, MarksOK, StoreTypes, RecsOK, HeldOK, Tables, Holds, WorkerTypeOK,
         CallsOK, CallRec, ServiceRec
<1>2. TablesAgree
  <2>1. \A k \in Key : services[k] # 0 => Counted(recs[services[k]], nextHandle)
    BY DEF WorkerInv, RecsOK, Tables
  <2>2. \A k \in Key : k # None
    BY WorkerAssumption
  <2> QED BY <2>1, <2>2, Zenon DEF WorkerInv, MarksOK, RecsOK, Tables, Counted, TablesAgree, Instantiates
<1> QED BY <1>1, <1>2 DEF WorkerInv

(* A handler begins, goes on and is done.                                  *)
LEMMA IdleOK == CallOK(Idle) /\ Idle.pc = "idle"
<1>1. Idle \in CallRec
  BY DEF Idle, CallRec
<1> QED BY <1>1 DEF CallOK, Idle

CallBecomes(c, x) == c \in Call /\ CallOK(x) /\ calls' = [calls EXCEPT ![c] = x]

LEMMA CallsStep ==
    ASSUME CallsTyped, NEW c \in Call, NEW x, CallBecomes(c, x)
    PROVE  CallsTyped'
<1>1. x \in CallRec
  BY DEF CallBecomes, CallOK
<1>2. calls' \in [Call -> CallRec]
  BY <1>1 DEF CallsTyped, CallBecomes
<1>3. \A d \in Call : calls'[d] = IF d = c THEN x ELSE calls[d]
  BY DEF CallsTyped, CallBecomes
<1> QED BY <1>2, <1>3 DEF CallsTyped, CallBecomes

LEMMA DoneBecomes ==
    ASSUME NEW c \in Call, Done(c)
    PROVE  CallBecomes(c, Idle)
BY IdleOK DEF Done, CallBecomes

LEMMA BeginBecomes ==
    ASSUME NEW x, CallOK(x), Begin(x)
    PROVE  \E c \in Call : CallBecomes(c, x) /\ calls[c].pc = "idle"
BY DEF Begin, CallBecomes

(* To another pc, as the handler's kind allows.                            *)
PcFits(what, pc) ==
    /\ pc \in {"idle", "read", "look", "put", "clear meta", "clear bytes",
               "bytes", "network", "compile", "init"}
    /\ pc = "read" => what = "fetch"
    /\ pc \in {"look", "put"} => what \in {"store", "join"}
    /\ pc \in {"bytes", "network", "compile", "init"} => what = "join"

LEMMA GotoBecomes ==
    ASSUME CallsTyped, NEW c \in Call, NEW pc, PcFits(calls[c].what, pc), Goto(c, pc)
    PROVE  \E x : CallBecomes(c, x) /\ x.pc = pc /\ x.key = calls[c].key
<1>1. PICK y : y = calls[c] /\ CallOK(y)
  BY DEF CallsTyped
<1>2. PICK x : x = [y EXCEPT !.pc = pc]
  OBVIOUS
<1>3. y \in CallRec /\ PcFits(y.what, pc)
  BY <1>1 DEF CallOK
<1>4. /\ x \in CallRec /\ x.pc = pc /\ x.what = y.what /\ x.key = y.key /\ x.hash = y.hash
      /\ x.page = y.page
  BY <1>2, <1>3 DEF CallRec, PcFits
<1>5. CallOK(x)
  BY <1>1, <1>3, <1>4 DEF CallOK, PcFits
<1>6. calls' = [calls EXCEPT ![c] = x]
  BY <1>1, <1>2, Zenon DEF Goto
<1> QED BY <1>1, <1>4, <1>5, <1>6 DEF CallBecomes

(* The marks of a step that takes none away.                               *)
LEMMA MarksStep ==
    ASSUME CallsTyped, MarksOK, NEW c \in Call, NEW x, CallBecomes(c, x),
           \/ ~(calls[c].pc \in {"compile", "init"}) /\ instantiating' = instantiating
           \/ x.pc \in {"compile", "init"} /\ x.key = calls[c].key
              /\ (instantiating' = instantiating
                  \/ (x.key \in Key /\ instantiating' = instantiating \cup {x.key}))
           \/ calls[c].key \in Key /\ instantiating' = instantiating \ {calls[c].key}
    PROVE  MarksOK'
<1>1. \A d \in Call : calls'[d] = IF d = c THEN x ELSE calls[d]
  BY DEF CallsTyped, CallBecomes
<1>2. instantiating' \subseteq Key
  BY DEF MarksOK
<1>3. ASSUME NEW k \in instantiating'
      PROVE  \E d \in Call : Instantiates(calls'[d], k)
  <2>1. CASE k \in instantiating
    <3>1. PICK d \in Call : Instantiates(calls[d], k)
      BY <2>1 DEF MarksOK
    <3>2. CASE d # c
      BY <1>1, <3>1, <3>2
    <3>3. CASE d = c
      <4>1. calls[c].key = k /\ calls[c].pc \in {"compile", "init"}
        BY <3>1, <3>3 DEF Instantiates
      <4>2. x.key = k /\ x.pc \in {"compile", "init"}
        BY <1>3, <4>1
      <4> QED BY <1>1, <4>2 DEF Instantiates
    <3> QED BY <3>2, <3>3
  <2>2. CASE k \notin instantiating
    <3>1. x.key = k /\ x.pc \in {"compile", "init"}
      BY <1>3, <2>2
    <3> QED BY <1>1, <3>1 DEF Instantiates
  <2> QED BY <2>1, <2>2
<1> QED BY <1>2, <1>3 DEF MarksOK

(* Steps that leave the services alone.                                    *)
mapsHeld == <<mapVars, holdVars, epoch>>

LEMMA MapsKept ==
    ASSUME RecsOK, HeldOK, HeldIsServed, UNCHANGED mapsHeld
    PROVE  RecsOK' /\ HeldOK' /\ HeldIsServed'
<1>1. UNCHANGED <<services, recs, known, nextHandle, held, overlapped, taken, epoch>>
  BY DEF mapsHeld, mapVars, holdVars
<1>2. RecsOK'
  BY <1>1 DEF RecsOK
<1>3. HeldOK'
  BY <1>1 DEF HeldOK, Holds
<1>4. HeldIsServed'
  BY <1>1 DEF HeldIsServed
<1> QED BY <1>2, <1>3, <1>4

LEMMA CallKept ==
    ASSUME WorkerInv, StoreTypes', CallsTyped', MarksOK', UNCHANGED mapsHeld
    PROVE  WorkerInv'
BY MapsKept DEF WorkerInv

LEMMA CacheFetchKeeps ==
    ASSUME WorkerInv, NEW c \in Call, CacheFetch(c)
    PROVE  WorkerInv'
<1>1. CallsTyped /\ MarksOK /\ StoreTypes /\ CallOK(calls[c]) /\ calls[c].pc = "read"
  BY DEF WorkerInv, CallsTyped, CacheFetch, At
<1>2. calls[c].page \in Page /\ calls[c].req \in Nat
  BY <1>1 DEF CallOK, CallRec
<1>3. StoreTypes'
  <2>1. UNCHANGED <<bytes, meta, row, epoch, left>>
    BY DEF CacheFetch, dbVars
  <2>2. PICK result \in {"hit", "miss"} : Answer(c, result)
    BY DEF CacheFetch
  <2>3. answers' = answers \cup {[page |-> calls[c].page, req |-> calls[c].req, result |-> result]}
    BY <2>2 DEF Answer
  <2> QED BY <1>1, <1>2, <2>1, <2>3 DEF StoreTypes
<1>4. CallBecomes(c, Idle) /\ instantiating' = instantiating /\ UNCHANGED mapsHeld
  BY DoneBecomes DEF CacheFetch, mapsHeld
<1>5. CallsTyped' /\ MarksOK'
  BY <1>1, <1>4, CallsStep, MarksStep
<1> QED BY <1>3, <1>4, <1>5, CallKept

(* Where the types of what is stored are as they were.                     *)
StoreSame == UNCHANGED <<answers, row, epoch, left>> /\ bytes' \subseteq Hash /\ meta' \subseteq Hash

LEMMA StoreSameTypes ==
    ASSUME StoreTypes, StoreSame
    PROVE  StoreTypes'
BY DEF StoreTypes, StoreSame

LEMMA StoreLookKeeps ==
    ASSUME WorkerInv, NEW c \in Call, StoreLook(c)
    PROVE  WorkerInv'
<1>1. CallsTyped /\ MarksOK /\ StoreTypes /\ CallOK(calls[c]) /\ calls[c].pc = "look"
  BY DEF WorkerInv, CallsTyped, StoreLook, At
<1>2. calls[c].what \in {"store", "join"} /\ ~(calls[c].pc \in {"compile", "init"})
  BY <1>1 DEF CallOK
<1>3. StoreTypes' /\ UNCHANGED mapsHeld
  <2>1. StoreSame /\ UNCHANGED mapsHeld
    BY <1>1 DEF StoreLook, StoreSame, StoreTypes, dbVars, mapsHeld
  <2> QED BY <1>1, <2>1, StoreSameTypes
<1>4. CASE Goto(c, "put") /\ UNCHANGED instantiating
  <2>1. PcFits(calls[c].what, "put")
    BY <1>2 DEF PcFits
  <2>2. PICK x : CallBecomes(c, x)
    BY <1>1, <1>4, <2>1, GotoBecomes
  <2>3. CallsTyped' /\ MarksOK'
    BY <1>1, <1>2, <1>4, <2>2, CallsStep, MarksStep
  <2> QED BY <1>3, <2>3, CallKept
<1>5. CASE /\ calls[c].what = "join" /\ Goto(c, "compile")
           /\ instantiating' = instantiating \cup {calls[c].key}
  <2>1. PcFits(calls[c].what, "compile") /\ calls[c].key \in Key
    BY <1>1, <1>5 DEF PcFits, CallOK
  <2>2. PICK x : CallBecomes(c, x) /\ x.pc = "compile" /\ x.key = calls[c].key
    BY <1>1, <1>5, <2>1, GotoBecomes
  <2>3. x.pc \in {"compile", "init"} /\ x.key \in Key /\ instantiating' = instantiating \cup {x.key}
    BY <1>5, <2>1, <2>2
  <2>4. CallsTyped' /\ MarksOK'
    BY <1>1, <2>2, <2>3, CallsStep, MarksStep
  <2> QED BY <1>3, <2>4, CallKept
<1>6. CASE Done(c) /\ UNCHANGED instantiating
  <2>1. CallBecomes(c, Idle)
    BY <1>6, DoneBecomes
  <2>2. CallsTyped' /\ MarksOK'
    BY <1>1, <1>2, <1>6, <2>1, CallsStep, MarksStep
  <2> QED BY <1>3, <2>2, CallKept
<1> QED BY <1>4, <1>5, <1>6 DEF StoreLook

(* A step of a handler that is not instantiating and marks nothing.        *)
LEMMA PlainCallKeeps ==
    ASSUME WorkerInv, NEW c \in Call, NEW x, CallBecomes(c, x),
           ~(calls[c].pc \in {"compile", "init"}) \/ (x.pc \in {"compile", "init"} /\ x.key = calls[c].key),
           instantiating' = instantiating, StoreSame, UNCHANGED mapsHeld
    PROVE  WorkerInv'
<1>1. CallsTyped /\ MarksOK /\ StoreTypes
  BY DEF WorkerInv
<1>2. CallsTyped' /\ MarksOK' /\ StoreTypes'
  BY <1>1, CallsStep, MarksStep, StoreSameTypes
<1> QED BY <1>2, CallKept

LEMMA StorePutKeeps ==
    ASSUME WorkerInv, NEW c \in Call, StorePut(c)
    PROVE  WorkerInv'
<1>1. StoreTypes /\ CallOK(calls[c]) /\ calls[c].pc = "put"
  BY DEF WorkerInv, CallsTyped, StorePut, At
<1>2. calls[c].hash \in Hash /\ ~(calls[c].pc \in {"compile", "init"})
  BY <1>1 DEF CallOK
<1>3. CallBecomes(c, Idle)
  BY DoneBecomes DEF StorePut
<1>4. StoreSame /\ UNCHANGED mapsHeld /\ instantiating' = instantiating
  BY <1>1, <1>2 DEF StorePut, StoreSame, StoreTypes, mapsHeld
<1> QED BY <1>2, <1>3, <1>4, PlainCallKeeps

LEMMA ClearKeeps ==
    ASSUME WorkerInv, NEW c \in Call, ClearMeta(c) \/ ClearBytes(c)
    PROVE  WorkerInv'
<1>1. CallsTyped /\ StoreTypes /\ calls[c].pc \in {"clear meta", "clear bytes"}
  BY DEF WorkerInv, ClearMeta, ClearBytes, At
<1>2. StoreSame /\ UNCHANGED mapsHeld /\ instantiating' = instantiating
  BY <1>1 DEF ClearMeta, ClearBytes, StoreSame, StoreTypes, mapsHeld
<1>3. \E x : CallBecomes(c, x)
  <2>1. PcFits(calls[c].what, "clear bytes")
    BY DEF PcFits
  <2>2. Goto(c, "clear bytes") \/ Done(c)
    BY DEF ClearMeta, ClearBytes
  <2> QED BY <1>1, <2>1, <2>2, GotoBecomes, DoneBecomes
<1>4. ~(calls[c].pc \in {"compile", "init"})
  BY <1>1
<1> QED BY <1>2, <1>3, <1>4, PlainCallKeeps

LEMMA JoinBytesKeeps ==
    ASSUME WorkerInv, NEW c \in Call, JoinBytes(c)
    PROVE  WorkerInv'
<1>1. CallsTyped /\ MarksOK /\ StoreTypes /\ CallOK(calls[c]) /\ calls[c].pc = "bytes"
  BY DEF WorkerInv, CallsTyped, JoinBytes, At
<1>2. calls[c].what = "join" /\ calls[c].key \in Key /\ ~(calls[c].pc \in {"compile", "init"})
  BY <1>1 DEF CallOK
<1>3. StoreSame /\ UNCHANGED mapsHeld
  BY <1>1 DEF JoinBytes, StoreSame, StoreTypes, dbVars, mapsHeld
<1>4. CASE Goto(c, "compile") /\ instantiating' = instantiating \cup {calls[c].key}
  <2>1. PcFits(calls[c].what, "compile")
    BY <1>2 DEF PcFits
  <2>2. PICK x : CallBecomes(c, x) /\ x.pc = "compile" /\ x.key = calls[c].key
    BY <1>1, <1>4, <2>1, GotoBecomes
  <2>3. x.pc \in {"compile", "init"} /\ x.key \in Key /\ instantiating' = instantiating \cup {x.key}
    BY <1>2, <1>4, <2>2
  <2>4. CallsTyped' /\ MarksOK' /\ StoreTypes'
    BY <1>1, <1>3, <2>2, <2>3, CallsStep, MarksStep, StoreSameTypes
  <2> QED BY <1>3, <2>4, CallKept
<1>5. CASE Goto(c, "network") /\ UNCHANGED instantiating
  <2>1. PcFits(calls[c].what, "network")
    BY <1>2 DEF PcFits
  <2>2. PICK x : CallBecomes(c, x)
    BY <1>1, <1>5, <2>1, GotoBecomes
  <2> QED BY <1>2, <1>3, <1>5, <2>2, PlainCallKeeps
<1> QED BY <1>4, <1>5 DEF JoinBytes

LEMMA JoinFetchedKeeps ==
    ASSUME WorkerInv, NEW c \in Call, JoinFetched(c)
    PROVE  WorkerInv'
<1>1. CallsTyped /\ StoreTypes /\ CallOK(calls[c]) /\ calls[c].pc = "network"
  BY DEF WorkerInv, CallsTyped, JoinFetched, At
<1>2. calls[c].what = "join" /\ ~(calls[c].pc \in {"compile", "init"})
  BY <1>1 DEF CallOK
<1>3. StoreSame /\ UNCHANGED mapsHeld /\ instantiating' = instantiating
  BY <1>1 DEF JoinFetched, StoreSame, StoreTypes, dbVars, mapsHeld
<1>4. \E x : CallBecomes(c, x)
  <2>1. PcFits(calls[c].what, "look")
    BY <1>2 DEF PcFits
  <2>2. Goto(c, "look") \/ Done(c)
    BY DEF JoinFetched
  <2> QED BY <1>1, <2>1, <2>2, GotoBecomes, DoneBecomes
<1> QED BY <1>2, <1>3, <1>4, PlainCallKeeps

LEMMA JoinCompiledKeeps ==
    ASSUME WorkerInv, NEW c \in Call, JoinCompiled(c)
    PROVE  WorkerInv'
<1>1. CallsTyped /\ StoreTypes /\ CallOK(calls[c]) /\ calls[c].pc = "compile"
  BY DEF WorkerInv, CallsTyped, JoinCompiled, At
<1>2. calls[c].what = "join"
  BY <1>1 DEF CallOK
<1>3. StoreSame /\ UNCHANGED mapsHeld /\ instantiating' = instantiating
  BY <1>1 DEF JoinCompiled, StoreSame, StoreTypes, dbVars, mapsHeld
<1>4. PcFits(calls[c].what, "init")
  BY <1>2 DEF PcFits
<1>5. PICK x : CallBecomes(c, x) /\ x.pc = "init" /\ x.key = calls[c].key
  BY <1>1, <1>4, GotoBecomes DEF JoinCompiled
<1>6. x.pc \in {"compile", "init"} /\ x.key = calls[c].key
  BY <1>5
<1> QED BY <1>3, <1>5, <1>6, PlainCallKeeps

LEMMA JoinFailsKeeps ==
    ASSUME WorkerInv, NEW c \in Call, JoinFails(c)
    PROVE  WorkerInv'
<1>1. CallsTyped /\ MarksOK /\ StoreTypes /\ CallOK(calls[c]) /\ calls[c].what = "join"
  BY DEF WorkerInv, CallsTyped, JoinFails
<1>2. calls[c].key \in Key
  BY <1>1 DEF CallOK
<1>3. StoreSame /\ UNCHANGED mapsHeld
  BY <1>1 DEF JoinFails, StoreSame, StoreTypes, dbVars, mapsHeld
<1>4. CallBecomes(c, Idle) /\ instantiating' = instantiating \ {calls[c].key}
  BY DoneBecomes DEF JoinFails
<1>5. CallsTyped' /\ MarksOK' /\ StoreTypes'
  BY <1>1, <1>2, <1>3, <1>4, CallsStep, MarksStep, StoreSameTypes
<1> QED BY <1>3, <1>5, CallKept

(* The record of a step that changes both fields, written as one record.   *)
Changed(x, hs, m) == [key |-> x.key, handles |-> hs, refs |-> m]

BothSet(rs, r, hs, m) == [rs EXCEPT ![r].handles = hs, ![r].refs = m]
SetAtOnce(rs, r, hs, m) == BothSet(rs, r, hs, m) = [rs EXCEPT ![r] = Changed(rs[r], hs, m)]

LEMMA ChangedIs ==
    ASSUME NEW rs \in Seq(ServiceRec), NEW r \in DOMAIN rs, NEW hs, NEW m
    PROVE  SetAtOnce(rs, r, hs, m)
<1>1. PICK x : x = rs[r] /\ x \in ServiceRec
  OBVIOUS
<1>2. PICK a \in Key, b \in SUBSET (1 .. MaxHandle), n \in Nat :
        x = [key |-> a, handles |-> b, refs |-> n]
  BY <1>1 DEF ServiceRec
<1>3. PICK y : y = [x EXCEPT !.handles = hs]
  OBVIOUS
<1>4. y = [key |-> a, handles |-> hs, refs |-> n]
  BY <1>2, <1>3
<1>5. PICK z : z = [y EXCEPT !.refs = m]
  OBVIOUS
<1>6. z = [key |-> a, handles |-> hs, refs |-> m]
  BY <1>4, <1>5
<1>7. z = Changed(x, hs, m)
  BY <1>2, <1>6 DEF Changed
<1>8. PICK rs2 : rs2 = [rs EXCEPT ![r] = y]
  OBVIOUS
<1>9. [rs2 EXCEPT ![r] = z] = [rs EXCEPT ![r] = z]
  BY <1>1, <1>8
<1>10. rs2[r] = y
  BY <1>8
<1>11. [rs EXCEPT ![r].handles = hs] = rs2
  BY <1>1, <1>3, <1>8, Zenon
<1>12. [rs2 EXCEPT ![r].refs = m] = [rs2 EXCEPT ![r] = z]
  BY <1>5, <1>10, Zenon
<1>13. BothSet(rs, r, hs, m) = [[rs EXCEPT ![r].handles = hs] EXCEPT ![r].refs = m]
  BY Zenon DEF BothSet
<1> QED BY <1>1, <1>7, <1>9, <1>11, <1>12, <1>13, Zenon DEF SetAtOnce

(* What a handle given out makes of the tables.                            *)
RecGiven(r, h) == [key |-> r.key, handles |-> r.handles \cup {h}, refs |-> r.refs + 1]

LEMMA GivenIs ==
    ASSUME NEW next \in 1 .. MaxHandle, MaxHandle \in Nat, NEW r, Counted(r, next)
    PROVE  /\ Counted(RecGiven(r, next), next + 1) /\ RecGiven(r, next).key = r.key
           /\ RecGiven(r, next).refs > 0 /\ RecGiven(r, next).handles = r.handles \cup {next}
<1>1. /\ r.key \in Key /\ r.handles \subseteq 1 .. MaxHandle /\ r.refs \in Nat
      /\ r.handles \subseteq 1 .. next - 1 /\ r.refs = Cardinality(r.handles)
  BY DEF Counted, ServiceRec
<1>2. next \notin r.handles /\ next \in Nat
  BY <1>1
<1>3. IsFiniteSet(1 .. next - 1)
  BY <1>2, FS_Interval
<1>4. IsFiniteSet(r.handles)
  BY <1>1, <1>3, FS_Subset
<1>5. Cardinality(r.handles \cup {next}) = Cardinality(r.handles) + 1
  BY <1>2, <1>4, FS_AddElement
<1>6. /\ RecGiven(r, next).key = r.key /\ RecGiven(r, next).refs = r.refs + 1
      /\ RecGiven(r, next).handles = r.handles \cup {next} /\ RecGiven(r, next) \in ServiceRec
  BY <1>1 DEF RecGiven, ServiceRec
<1>7. r.handles \cup {next} \subseteq 1 .. (next + 1) - 1
  BY <1>1, <1>2
<1> QED BY <1>1, <1>5, <1>6, <1>7 DEF Counted

LEMMA GiveTables ==
    ASSUME NEW rs, NEW svcs, NEW kn, NEW next, next <= MaxHandle, MaxHandle \in Nat, NEW k \in Key,
           svcs[k] # 0, Tables(rs, svcs, kn, next, k)
    PROVE  Tables([rs EXCEPT ![svcs[k]] = RecGiven(rs[svcs[k]], next)], svcs,
                  [kn EXCEPT ![next] = svcs[k]], next + 1, None)
<1>1. /\ rs \in Seq(ServiceRec) /\ svcs \in [Key -> 0 .. Len(rs)]
      /\ kn \in [1 .. MaxHandle -> 0 .. Len(rs)] /\ next \in 1 .. MaxHandle
  BY DEF Tables
<1>2. PICK r : r = svcs[k]
  OBVIOUS
<1>3. r \in DOMAIN rs /\ r # 0 /\ Len(rs) \in Nat
  BY <1>1, <1>2
<1>4. Counted(rs[r], next)
  BY <1>3 DEF Tables
<1>5. PICK n : n = RecGiven(rs[r], next)
  OBVIOUS
<1>6. /\ Counted(n, next + 1) /\ n.key = rs[r].key
      /\ n.refs > 0 /\ n.handles = rs[r].handles \cup {next}
  BY <1>1, <1>4, <1>5, GivenIs
<1>7. n \in ServiceRec
  BY <1>6 DEF Counted
<1>8. PICK rs2 : rs2 = [rs EXCEPT ![r] = n]
  OBVIOUS
<1>9. /\ rs2 \in Seq(ServiceRec) /\ Len(rs2) = Len(rs) /\ DOMAIN rs2 = DOMAIN rs
      /\ rs2[r] = n /\ \A i \in DOMAIN rs : i # r => rs2[i] = rs[i]
  BY <1>1, <1>3, <1>7, <1>8
<1>10. PICK kn2 : kn2 = [kn EXCEPT ![next] = r]
  OBVIOUS
<1>11. /\ kn2 \in [1 .. MaxHandle -> 0 .. Len(rs)] /\ kn2[next] = r
       /\ \A h \in 1 .. MaxHandle : h # next => kn2[h] = kn[h]
  BY <1>1, <1>3, <1>10
<1>12. \A i \in DOMAIN rs2 : Counted(rs2[i], next + 1)
  <2> SUFFICES ASSUME NEW i \in DOMAIN rs2 PROVE Counted(rs2[i], next + 1)
    OBVIOUS
  <2>1. CASE i = r
    BY <1>6, <1>9, <2>1
  <2>2. CASE i # r
    <3>1. Counted(rs[i], next) /\ rs2[i] = rs[i]
      BY <1>9, <2>2 DEF Tables
    <3>2. rs[i].handles \subseteq 1 .. (next + 1) - 1
      BY <1>1, <3>1 DEF Counted
    <3> QED BY <3>1, <3>2 DEF Counted
  <2> QED BY <2>1, <2>2
<1>13. ASSUME NEW k2 \in Key, svcs[k2] # 0
       PROVE  /\ rs2[svcs[k2]].key = k2 /\ rs2[svcs[k2]].refs > 0
              /\ \A h \in rs2[svcs[k2]].handles : kn2[h] = svcs[k2]
  <2>1. /\ rs[svcs[k2]].key = k2 /\ (k2 # k => rs[svcs[k2]].refs > 0)
        /\ \A h \in rs[svcs[k2]].handles : kn[h] = svcs[k2]
    BY <1>13 DEF Tables
  <2>2. svcs[k2] \in DOMAIN rs
    BY <1>1, <1>13
  <2>3. Counted(rs[svcs[k2]], next)
    BY <2>2 DEF Tables
  <2>4. \A h \in rs[svcs[k2]].handles : h \in 1 .. MaxHandle /\ h # next
    BY <1>1, <2>3 DEF Counted
  <2>5. CASE k2 = k
    BY <1>2, <1>6, <1>9, <1>11, <2>1, <2>4, <2>5
  <2>6. CASE k2 # k
    <3>1. svcs[k2] # r
      <4>1. rs[r].key = k
        BY <1>2, <1>3 DEF Tables
      <4> QED BY <2>1, <2>6, <4>1
    <3>2. rs2[svcs[k2]] = rs[svcs[k2]]
      BY <1>9, <2>2, <3>1
    <3> QED BY <1>11, <2>1, <2>4, <2>6, <3>2
  <2> QED BY <2>5, <2>6
<1>14. ASSUME NEW h \in DOMAIN kn2, kn2[h] # 0
       PROVE  h \in rs2[kn2[h]].handles
  <2>1. CASE h = next
    BY <1>6, <1>9, <1>11, <2>1
  <2>2. CASE h # next
    <3>1. h \in 1 .. MaxHandle
      BY <1>11
    <3>2. kn2[h] = kn[h] /\ h \in rs[kn[h]].handles
      BY <1>1, <1>11, <1>14, <2>2, <3>1 DEF Tables
    <3>3. kn[h] \in DOMAIN rs
      BY <1>1, <1>14, <3>1, <3>2
    <3> QED BY <1>6, <1>9, <3>2, <3>3
  <2> QED BY <2>1, <2>2
<1>15. next + 1 \in 1 .. MaxHandle + 1
  BY <1>1
<1>16. Tables(rs2, svcs, kn2, next + 1, None)
  BY <1>1, <1>9, <1>11, <1>12, <1>13, <1>14, <1>15 DEF Tables
<1> QED BY <1>2, <1>5, <1>8, <1>10, <1>16

(* And of what pages were given.                                           *)
NewHeld(h, k, r) == [handle |-> h, key |-> k, rec |-> r, epoch |-> epoch]

LEMMA GiveHolds ==
    ASSUME NEW rs, NEW svcs, NEW kn, NEW next, next <= MaxHandle, MaxHandle \in Nat, NEW k \in Key,
           svcs[k] # 0, Tables(rs, svcs, kn, next, k), epoch \in Nat,
           NEW hd, NEW over, Holds(hd, over, rs, svcs, kn, next), Serves(hd, over, svcs, kn)
    PROVE  /\ Holds(hd \cup {NewHeld(next, k, svcs[k])}, over,
                    [rs EXCEPT ![svcs[k]] = RecGiven(rs[svcs[k]], next)], svcs,
                    [kn EXCEPT ![next] = svcs[k]], next + 1)
           /\ Serves(hd \cup {NewHeld(next, k, svcs[k])}, over, svcs, [kn EXCEPT ![next] = svcs[k]])
<1>1. /\ rs \in Seq(ServiceRec) /\ svcs \in [Key -> 0 .. Len(rs)]
      /\ kn \in [1 .. MaxHandle -> 0 .. Len(rs)] /\ next \in 1 .. MaxHandle
  BY DEF Tables
<1>2. PICK r : r = svcs[k]
  OBVIOUS
<1>3. r \in DOMAIN rs /\ r # 0 /\ Len(rs) \in Nat /\ r \in Nat
  BY <1>1, <1>2
<1>4. PICK n : n = RecGiven(rs[r], next) /\ n.key = rs[r].key
  <2>1. RecGiven(rs[r], next).key = rs[r].key
    BY DEF RecGiven
  <2> QED BY <2>1
<1>5. PICK rs2 : rs2 = [rs EXCEPT ![r] = n]
  OBVIOUS
<1>6. DOMAIN rs2 = DOMAIN rs /\ \A i \in DOMAIN rs : rs2[i].key = rs[i].key
  BY <1>1, <1>3, <1>4, <1>5
<1>7. PICK kn2 : kn2 = [kn EXCEPT ![next] = r]
  OBVIOUS
<1>8. /\ DOMAIN kn2 = 1 .. MaxHandle /\ kn2[next] = r
      /\ \A h \in 1 .. MaxHandle : h # next => kn2[h] = kn[h]
  BY <1>1, <1>7
<1>9. PICK e : e = NewHeld(next, k, r)
  OBVIOUS
<1>10. /\ e.handle = next /\ e.key = k /\ e.rec = r /\ e.epoch = epoch
       /\ e \in [handle : 1 .. MaxHandle, key : Key, rec : Nat, epoch : Nat]
  BY <1>1, <1>3, <1>9 DEF NewHeld
<1>11. rs[r].key = k
  BY <1>2, <1>3 DEF Tables
<1>12. \A f \in hd : f.epoch = epoch => f.handle < next /\ f.handle \in 1 .. MaxHandle
  BY DEF Holds
<1>13. Holds(hd \cup {e}, over, rs2, svcs, kn2, next + 1)
  <2>1. hd \cup {e} \subseteq [handle : 1 .. MaxHandle, key : Key, rec : Nat, epoch : Nat]
        /\ over \subseteq Key
    BY <1>10 DEF Holds
  <2>2. \A f \in hd \cup {e} : f.epoch <= epoch
    BY <1>10 DEF Holds
  <2>3. ASSUME NEW f \in hd \cup {e}, f.epoch = epoch
        PROVE  f.handle < next + 1 /\ f.rec \in DOMAIN rs2 /\ rs2[f.rec].key = f.key
    <3>1. CASE f = e
      BY <1>1, <1>3, <1>6, <1>10, <1>11, <3>1
    <3>2. CASE f \in hd
      <4>1. f.handle < next /\ f.handle \in Nat
        BY <1>12, <2>3, <3>2
      <4>2. f.rec \in DOMAIN rs /\ rs[f.rec].key = f.key
        BY <2>3, <3>2 DEF Holds
      <4> QED BY <1>1, <1>6, <4>1, <4>2
    <3> QED BY <3>1, <3>2
  <2>4. ASSUME NEW f \in hd \cup {e}, NEW g \in hd \cup {e}, f.epoch = epoch, g.epoch = epoch,
               f.handle = g.handle
        PROVE  f = g
    <3>1. f \in hd => f.handle # next
      BY <1>1, <1>12, <2>4
    <3>2. g \in hd => g.handle # next
      BY <1>1, <1>12, <2>4
    <3>3. f \in hd /\ g \in hd => f = g
      BY <2>4 DEF Holds
    <3> QED BY <1>10, <2>4, <3>1, <3>2, <3>3
  <2>5. ASSUME NEW h \in DOMAIN kn2, kn2[h] # 0, svcs[rs2[kn2[h]].key] # kn2[h]
        PROVE  rs2[kn2[h]].key \in over
    <3>1. CASE h = next
      BY <1>2, <1>3, <1>6, <1>8, <1>11, <2>5, <3>1
    <3>2. CASE h # next
      <4>1. kn2[h] = kn[h] /\ h \in DOMAIN kn
        BY <1>1, <1>8, <3>2
      <4>2. kn[h] \in DOMAIN rs
        BY <1>1, <2>5, <4>1
      <4>3. rs2[kn2[h]].key = rs[kn[h]].key
        BY <1>6, <4>1, <4>2
      <4> QED BY <2>5, <4>1, <4>3 DEF Holds
    <3> QED BY <3>1, <3>2
  <2> QED BY <2>1, <2>2, <2>3, <2>4, <2>5 DEF Holds
<1>14. Serves(hd \cup {e}, over, svcs, kn2)
  <2> SUFFICES ASSUME NEW f \in (hd \cup {e}) \ taken, f.epoch = epoch, f.key \notin over
               PROVE  kn2[f.handle] = f.rec /\ svcs[f.key] = f.rec
    BY DEF Serves
  <2>1. CASE f = e
    BY <1>2, <1>8, <1>10, <2>1
  <2>2. CASE f \in hd
    <3>1. kn[f.handle] = f.rec /\ svcs[f.key] = f.rec
      BY <2>2 DEF Serves
    <3>2. f.handle \in 1 .. MaxHandle /\ f.handle # next
      BY <1>1, <1>12, <2>2
    <3> QED BY <1>8, <3>1, <3>2
  <2> QED BY <2>1, <2>2
<1> QED BY <1>2, <1>4, <1>5, <1>7, <1>9, <1>13, <1>14

(* The end of a join, from tables that are not complete for its key.       *)
LEMMA GiveHandleKeeps ==
    ASSUME NEW rs, NEW svcs, NEW kn, NEW k \in Key, svcs[k] # 0, epoch' = epoch, taken' = taken,
           nextHandle \in 1 .. MaxHandle + 1, epoch \in Nat,
           Tables(rs, svcs, kn, nextHandle, k),
           Holds(held, overlapped', rs, svcs, kn, nextHandle), Serves(held, overlapped', svcs, kn),
           GiveHandle(k, svcs[k], svcs, rs, kn)
    PROVE  RecsOK' /\ HeldOK' /\ HeldIsServed'
<1>1. PICK r : r = svcs[k]
  OBVIOUS
<1>2. PICK h : h = nextHandle
  OBVIOUS
<1>3. /\ h <= MaxHandle /\ nextHandle' = h + 1 /\ services' = svcs /\ known' = [kn EXCEPT ![h] = r]
      /\ recs' = [rs EXCEPT ![r].handles = @ \cup {h}, ![r].refs = @ + 1]
      /\ held' = held \cup {NewHeld(h, k, r)}
  BY <1>1, <1>2, Zenon DEF GiveHandle, NewHeld
<1>4. rs \in Seq(ServiceRec) /\ r \in DOMAIN rs /\ MaxHandle \in Nat
  BY <1>1, WorkerAssumption DEF Tables
<1>5. rs[r] \in ServiceRec
  BY <1>4
<1>6. recs' = [rs EXCEPT ![r] = RecGiven(rs[r], h)]
  <2>1. PICK hs : hs = rs[r].handles \cup {h}
    OBVIOUS
  <2>2. PICK m : m = rs[r].refs + 1
    OBVIOUS
  <2>3. recs' = BothSet(rs, r, hs, m)
    BY <1>3, <1>4, <1>5, <2>1, <2>2 DEF ServiceRec, BothSet
  <2>4. BothSet(rs, r, hs, m) = [rs EXCEPT ![r] = Changed(rs[r], hs, m)]
    <3>1. SetAtOnce(rs, r, hs, m)
      BY <1>4, ChangedIs
    <3> QED BY <3>1, Zenon DEF SetAtOnce
  <2>5. Changed(rs[r], hs, m) = RecGiven(rs[r], h)
    BY <2>1, <2>2, Zenon DEF Changed, RecGiven
  <2> QED BY <2>3, <2>4, <2>5, Zenon
<1>7. Tables([rs EXCEPT ![r] = RecGiven(rs[r], h)], svcs, [kn EXCEPT ![h] = r], h + 1, None)
  BY <1>1, <1>2, <1>3, <1>4, GiveTables
<1>8. RecsOK'
  BY <1>3, <1>6, <1>7, Zenon DEF RecsOK
<1>9. /\ Holds(held \cup {NewHeld(h, k, r)}, overlapped', [rs EXCEPT ![r] = RecGiven(rs[r], h)], svcs,
               [kn EXCEPT ![h] = r], h + 1)
      /\ Serves(held \cup {NewHeld(h, k, r)}, overlapped', svcs, [kn EXCEPT ![h] = r])
  BY <1>1, <1>2, <1>3, <1>4, GiveHolds
<1>10. /\ Holds(held', overlapped', recs', services', known', nextHandle')
       /\ Serves(held', overlapped', services', known')
  BY <1>3, <1>6, <1>9, Zenon
<1>11. HeldOK'
  BY <1>10 DEF HeldOK, Holds
<1>12. HeldIsServed'
  BY <1>10 DEF HeldIsServed, Serves
<1> QED BY <1>8, <1>11, <1>12

LEMMA SpendTypes ==
    ASSUME left \in [Kinds -> Nat], NEW kind \in Kinds, Spend(kind)
    PROVE  left' \in [Kinds -> Nat]
<1>1. left[kind] - 1 \in Nat
  BY DEF Spend
<1> QED BY <1>1 DEF Spend

(* A step of the worker that is no handler's.                              *)
LEMMA ElseKept ==
    ASSUME CallsTyped', MarksOK', StoreTypes', RecsOK' /\ HeldOK' /\ HeldIsServed'
    PROVE  WorkerInv'
BY DEF WorkerInv

LEMMA HeldServed ==
    ASSUME WorkerInv
    PROVE  /\ \A no : Tables(recs, services, known, nextHandle, no)
           /\ Holds(held, overlapped, recs, services, known, nextHandle)
           /\ Serves(held, overlapped, services, known)
<1>1. \A k \in Key : k # None
  BY WorkerAssumption
<1>2. Tables(recs, services, known, nextHandle, None)
  BY DEF WorkerInv, RecsOK
<1>3. \A no : Tables(recs, services, known, nextHandle, no)
  BY <1>1, <1>2, Zenon DEF Tables
<1> QED BY <1>3 DEF WorkerInv, HeldOK, HeldIsServed, Serves

LEMMA CallsSame ==
    ASSUME CallsTyped, MarksOK, UNCHANGED <<calls, instantiating>>
    PROVE  CallsTyped' /\ MarksOK'
BY DEF CallsTyped, MarksOK

LEMMA JoinCallKeeps ==
    ASSUME WorkerInv, NEW k \in Key, JoinCall(k)
    PROVE  WorkerInv'
<1>1. CallsTyped /\ MarksOK /\ StoreTypes
  BY DEF WorkerInv
<1>2. /\ Spend("wjoin") /\ instantiating' = instantiating
      /\ UNCHANGED <<bytes, meta, answers, row, overlapped, taken, epoch>>
  BY DEF JoinCall, dbVars
<1>3. StoreTypes'
  <2>1. "wjoin" \in Kinds
    BY DEF Kinds
  <2>2. left' \in [Kinds -> Nat]
    BY <1>1, <1>2, <2>1, SpendTypes DEF StoreTypes
  <2> QED BY <1>1, <1>2, <2>2 DEF StoreTypes
<1>4. CASE services[k] # 0
  <2>1. GiveHandle(k, services[k], services, recs, known) /\ UNCHANGED calls
    BY <1>4 DEF JoinCall
  <2>2. /\ Tables(recs, services, known, nextHandle, k)
        /\ Holds(held, overlapped', recs, services, known, nextHandle)
        /\ Serves(held, overlapped', services, known)
    BY <1>2, HeldServed
  <2>3. nextHandle \in 1 .. MaxHandle + 1 /\ epoch \in Nat
    BY <1>1, <2>2 DEF Tables, StoreTypes
  <2>4. RecsOK' /\ HeldOK' /\ HeldIsServed'
    BY <1>2, <1>4, <2>1, <2>2, <2>3, GiveHandleKeeps
  <2>5. CallsTyped' /\ MarksOK'
    BY <1>1, <1>2, <2>1, CallsSame
  <2> QED BY <1>3, <2>4, <2>5, ElseKept
<1>5. CASE ~(services[k] # 0)
  <2>1. PICK x : x = [Idle EXCEPT !.pc = "bytes", !.what = "join", !.key = k, !.hash = HashOf[k]]
    OBVIOUS
  <2>2. Begin(x) /\ UNCHANGED <<mapVars, held>>
    BY <1>5, <2>1, Zenon DEF JoinCall
  <2>3. HashOf[k] \in Hash
    BY WorkerAssumption
  <2>4. CallOK(x)
    <3>1. /\ x.pc = "bytes" /\ x.what = "join" /\ x.key = k /\ x.hash = HashOf[k] /\ x \in CallRec
      BY <2>1, <2>3 DEF Idle, CallRec
    <3> QED BY <2>3, <3>1 DEF CallOK
  <2>5. PICK c \in Call : CallBecomes(c, x) /\ calls[c].pc = "idle"
    BY <2>2, <2>4, BeginBecomes
  <2>6. ~(calls[c].pc \in {"compile", "init"})
    BY <2>5
  <2>7. CallsTyped' /\ MarksOK'
    BY <1>1, <1>2, <2>5, <2>6, CallsStep, MarksStep
  <2>8. UNCHANGED mapsHeld
    BY <1>2, <2>2 DEF mapsHeld, holdVars
  <2> QED BY <1>3, <2>7, <2>8, CallKept
<1> QED BY <1>4, <1>5

(* What removing the service of a key forgets.                             *)
LEMMA ForgottenIs ==
    ASSUME NEW k \in Key, NEW l \in Nat, NEW kn \in [1 .. MaxHandle -> 0 .. l], services[k] # 0
    PROVE  /\ Forgotten(k, kn) \in [1 .. MaxHandle -> 0 .. l]
           /\ \A h \in 1 .. MaxHandle :
                Forgotten(k, kn)[h] = IF h \in recs[services[k]].handles THEN 0 ELSE kn[h]
BY DEF Forgotten

LEMMA ForgottenNone ==
    ASSUME NEW k, NEW kn, services[k] = 0
    PROVE  Forgotten(k, kn) = kn
BY DEF Forgotten

LEMMA JoinInitKeeps ==
    ASSUME WorkerInv, NEW c \in Call, JoinInit(c)
    PROVE  WorkerInv'
<1>1. CallsTyped /\ MarksOK /\ StoreTypes /\ CallOK(calls[c]) /\ calls[c].pc = "init"
  BY DEF WorkerInv, CallsTyped, JoinInit, At
<1>2. PICK k \in Key : k = calls[c].key
  BY <1>1 DEF CallOK
<1>3. CallBecomes(c, Idle) /\ instantiating' = instantiating \ {k} /\ StoreSame
      /\ epoch' = epoch /\ taken' = taken
      /\ overlapped' = IF services[k] = 0 THEN overlapped ELSE overlapped \cup {k}
  BY <1>1, <1>2, DoneBecomes DEF JoinInit, StoreSame, StoreTypes, dbVars
<1>4. CallsTyped' /\ MarksOK' /\ StoreTypes'
  BY <1>1, <1>2, <1>3, CallsStep, MarksStep, StoreSameTypes
<1>5. /\ Tables(recs, services, known, nextHandle, None)
      /\ Holds(held, overlapped, recs, services, known, nextHandle)
      /\ Serves(held, overlapped, services, known)
  BY HeldServed
<1>6. /\ recs \in Seq(ServiceRec) /\ services \in [Key -> 0 .. Len(recs)]
      /\ known \in [1 .. MaxHandle -> 0 .. Len(recs)] /\ nextHandle \in 1 .. MaxHandle + 1
      /\ Len(recs) \in Nat /\ MaxHandle \in Nat /\ epoch \in Nat
  BY <1>1, <1>5, WorkerAssumption DEF Tables, StoreTypes
<1>7. PICK r \in Nat : r = Len(recs) + 1
  BY <1>6
<1>8. PICK n : n = [key |-> k, handles |-> {}, refs |-> 0]
  OBVIOUS
<1>9. PICK rs : rs = Append(recs, n)
  OBVIOUS
<1>10. PICK svcs : svcs = [services EXCEPT ![k] = r]
  OBVIOUS
<1>11. PICK kn \in {known, Forgotten(k, known)} : GiveHandle(k, r, svcs, rs, kn)
  BY <1>2, <1>7, <1>8, <1>9, <1>10, Zenon DEF JoinInit
<1>12. n \in ServiceRec /\ n.key = k /\ n.handles = {} /\ n.refs = 0
  BY <1>8 DEF ServiceRec
<1>13. /\ rs \in Seq(ServiceRec) /\ Len(rs) = r /\ DOMAIN rs = 1 .. r /\ rs[r] = n
       /\ \A i \in DOMAIN recs : rs[i] = recs[i] /\ i # r /\ i \in DOMAIN rs
  BY <1>6, <1>7, <1>9, <1>12
<1>14. /\ svcs \in [Key -> 0 .. Len(rs)] /\ svcs[k] = r /\ r # 0
       /\ \A j \in Key : j # k => svcs[j] = services[j]
  BY <1>6, <1>7, <1>10, <1>13
<1>15. /\ kn \in [1 .. MaxHandle -> 0 .. Len(recs)]
       /\ \A h \in 1 .. MaxHandle :
            kn[h] = known[h]
            \/ (kn[h] = 0 /\ services[k] # 0 /\ h \in recs[services[k]].handles)
  <2>1. CASE services[k] = 0 \/ kn = known
    <3>1. kn = known
      BY <1>11, <2>1, ForgottenNone
    <3> QED BY <1>6, <3>1
  <2>2. CASE services[k] # 0 /\ kn = Forgotten(k, known)
    <3>1. /\ Forgotten(k, known) \in [1 .. MaxHandle -> 0 .. Len(recs)]
          /\ \A h \in 1 .. MaxHandle :
               Forgotten(k, known)[h] = IF h \in recs[services[k]].handles THEN 0 ELSE known[h]
      BY <1>6, <2>2, ForgottenIs
    <3> QED BY <2>2, <3>1
  <2> QED BY <1>11, <2>1, <2>2
<1>16. Tables(rs, svcs, kn, nextHandle, k)
  <2>1. kn \in [1 .. MaxHandle -> 0 .. Len(rs)]
    BY <1>6, <1>7, <1>13, <1>15
  <2>2. ASSUME NEW i \in DOMAIN rs PROVE Counted(rs[i], nextHandle)
    <3>1. CASE i = r
      <4>1. Cardinality({}) = 0
        BY FS_EmptySet
      <4> QED BY <1>12, <1>13, <3>1, <4>1 DEF Counted
    <3>2. CASE i # r
      <4>1. i \in DOMAIN recs
        BY <1>6, <1>7, <1>13, <3>2
      <4> QED BY <1>5, <1>13, <4>1 DEF Tables
    <3> QED BY <3>1, <3>2
  <2>3. ASSUME NEW j \in Key, svcs[j] # 0
        PROVE  /\ rs[svcs[j]].key = j /\ (j # k => rs[svcs[j]].refs > 0)
               /\ \A h \in rs[svcs[j]].handles : kn[h] = svcs[j]
    <3>1. CASE j = k
      BY <1>12, <1>13, <1>14, <3>1
    <3>2. CASE j # k
      <4>1. svcs[j] = services[j] /\ services[j] # 0 /\ j # None
        BY <1>14, <2>3, <3>2, WorkerAssumption
      <4>2. /\ recs[services[j]].key = j /\ recs[services[j]].refs > 0
            /\ \A h \in recs[services[j]].handles : known[h] = services[j]
        BY <1>5, <4>1 DEF Tables
      <4>3. services[j] \in DOMAIN recs /\ rs[services[j]] = recs[services[j]]
        BY <1>6, <1>13, <4>1
      <4>4. \A h \in recs[services[j]].handles : h \in 1 .. MaxHandle
        <5>1. recs[services[j]] \in ServiceRec
          BY <1>6, <4>3
        <5> QED BY <5>1 DEF ServiceRec
      <4>5. ASSUME NEW h \in recs[services[j]].handles, services[k] # 0,
                   h \in recs[services[k]].handles
            PROVE  FALSE
        <5>1. known[h] = services[k] /\ recs[services[k]].key = k
          BY <1>5, <4>5 DEF Tables
        <5> QED BY <3>2, <4>2, <5>1
      <4> QED BY <1>15, <4>1, <4>2, <4>3, <4>4, <4>5
    <3> QED BY <3>1, <3>2
  <2>4. ASSUME NEW h \in DOMAIN kn, kn[h] # 0
        PROVE  h \in rs[kn[h]].handles
    <3>1. h \in 1 .. MaxHandle /\ kn[h] = known[h]
      BY <1>15, <2>4
    <3>2. h \in recs[known[h]].handles
      BY <1>5, <1>6, <2>4, <3>1 DEF Tables
    <3>3. known[h] \in DOMAIN recs
      BY <1>6, <2>4, <3>1
    <3> QED BY <1>13, <3>1, <3>2, <3>3
  <2> QED BY <1>6, <1>13, <1>14, <2>1, <2>2, <2>3, <2>4 DEF Tables
<1>17. Holds(held, overlapped', rs, svcs, kn, nextHandle)
  <2>1. overlapped \subseteq overlapped' /\ overlapped' \subseteq Key
    BY <1>3, <1>5 DEF Holds
  <2>2. ASSUME NEW e \in held, e.epoch = epoch
        PROVE  e.handle < nextHandle /\ e.rec \in DOMAIN rs /\ rs[e.rec].key = e.key
    <3>1. e.handle < nextHandle /\ e.rec \in DOMAIN recs /\ recs[e.rec].key = e.key
      BY <1>5, <2>2 DEF Holds
    <3> QED BY <1>13, <3>1
  <2>3. ASSUME NEW h \in DOMAIN kn, kn[h] # 0, svcs[rs[kn[h]].key] # kn[h]
        PROVE  rs[kn[h]].key \in overlapped'
    <3>1. h \in 1 .. MaxHandle /\ kn[h] = known[h]
      BY <1>15, <2>3
    <3>2. h \in DOMAIN known /\ known[h] \in DOMAIN recs
      BY <1>6, <2>3, <3>1
    <3>3. PICK j \in Key : j = recs[known[h]].key /\ j = rs[kn[h]].key
      <4>1. recs[known[h]] \in ServiceRec
        BY <1>6, <3>2
      <4>2. recs[known[h]].key \in Key
        BY <4>1 DEF ServiceRec
      <4> QED BY <1>13, <3>1, <3>2, <4>2
    <3>4. CASE services[j] # known[h]
      <4>1. j \in overlapped
        BY <1>5, <2>3, <3>1, <3>2, <3>3, <3>4 DEF Holds
      <4> QED BY <2>1, <3>3, <4>1
    <3>5. CASE services[j] = known[h]
      <4>1. j = k
        BY <1>14, <2>3, <3>1, <3>3, <3>5
      <4>2. services[k] # 0
        BY <2>3, <3>1, <3>5, <4>1
      <4> QED BY <1>3, <3>3, <4>1, <4>2
    <3> QED BY <3>4, <3>5
  <2> QED BY <1>5, <2>1, <2>2, <2>3 DEF Holds
<1>18. Serves(held, overlapped', svcs, kn)
  <2> SUFFICES ASSUME NEW e \in held \ taken, e.epoch = epoch, e.key \notin overlapped'
               PROVE  kn[e.handle] = e.rec /\ svcs[e.key] = e.rec
    BY DEF Serves
  <2>1. e.key \notin overlapped
    BY <1>3
  <2>2. known[e.handle] = e.rec /\ services[e.key] = e.rec
    BY <1>5, <2>1 DEF Serves
  <2>3. e.handle \in 1 .. MaxHandle /\ e.key \in Key
    BY <1>5 DEF Holds
  <2>4. e.rec \in DOMAIN recs /\ recs[e.rec].key = e.key
    BY <1>5 DEF Holds
  <2>5. e.rec # 0
    BY <1>6, <2>4
  <2>6. e.key # k
    BY <1>3, <2>2, <2>5
  <2>7. ASSUME services[k] # 0, e.handle \in recs[services[k]].handles PROVE FALSE
    <3>1. known[e.handle] = services[k] /\ recs[services[k]].key = k
      BY <1>5, <2>7 DEF Tables
    <3> QED BY <2>2, <2>4, <2>6, <3>1
  <2> QED BY <1>14, <1>15, <2>2, <2>3, <2>6, <2>7
<1>19. RecsOK' /\ HeldOK' /\ HeldIsServed'
  <2>1. svcs[k] # 0 /\ GiveHandle(k, svcs[k], svcs, rs, kn)
    BY <1>11, <1>14
  <2> QED BY <1>3, <1>6, <1>16, <1>17, <1>18, <2>1, GiveHandleKeeps
<1> QED BY <1>4, <1>19, ElseKept

(* A release of handle h, which leads to record r: the tables after it.    *)
Freed(h, r, k, hs, m, rs2, svcs2, kn2) ==
    /\ h \in 1 .. MaxHandle /\ r = known[h] /\ r # 0 /\ k = recs[r].key
    /\ hs = recs[r].handles \ {h} /\ m = recs[r].refs - 1
    /\ rs2 = [recs EXCEPT ![r] = Changed(recs[r], hs, m)]
    /\ svcs2 = IF m = 0 THEN [services EXCEPT ![k] = 0] ELSE services
    /\ kn2 \in [1 .. MaxHandle -> 0 .. Len(recs)]
    /\ \A g \in 1 .. MaxHandle :
         kn2[g] = IF g = h \/ (m = 0 /\ services[k] # 0 /\ g \in recs[services[k]].handles)
                    THEN 0 ELSE known[g]

LEMMA FreedFacts ==
    ASSUME WorkerInv, NEW h, NEW r, NEW k, NEW hs, NEW m, NEW rs2, NEW svcs2, NEW kn2,
           Freed(h, r, k, hs, m, rs2, svcs2, kn2)
    PROVE  /\ recs \in Seq(ServiceRec) /\ services \in [Key -> 0 .. Len(recs)]
           /\ known \in [1 .. MaxHandle -> 0 .. Len(recs)] /\ Len(recs) \in Nat /\ MaxHandle \in Nat
           /\ r \in DOMAIN recs /\ h \in recs[r].handles /\ recs[r].key \in Key
           /\ m \in Nat /\ m = Cardinality(hs) /\ recs[r].handles \subseteq 1 .. nextHandle - 1
           /\ m = 0 => recs[r].handles = {h}
           /\ rs2 \in Seq(ServiceRec) /\ Len(rs2) = Len(recs) /\ DOMAIN rs2 = DOMAIN recs
           /\ k \in Key /\ k = recs[r].key /\ rs2[r] \in ServiceRec /\ rs2[r].key = k /\ rs2[r].handles = hs /\ rs2[r].refs = m
           /\ \A i \in DOMAIN recs : (i # r => rs2[i] = recs[i]) /\ rs2[i].key = recs[i].key
           /\ svcs2 \in [Key -> 0 .. Len(recs)]
           /\ \A j \in Key : svcs2[j] = IF m = 0 /\ j = k THEN 0 ELSE services[j]
<1>1. Tables(recs, services, known, nextHandle, None)
  BY HeldServed
<1>2. /\ recs \in Seq(ServiceRec) /\ services \in [Key -> 0 .. Len(recs)]
      /\ known \in [1 .. MaxHandle -> 0 .. Len(recs)] /\ nextHandle \in 1 .. MaxHandle + 1
      /\ Len(recs) \in Nat /\ MaxHandle \in Nat
  BY <1>1, WorkerAssumption DEF Tables
<1>3. h \in 1 .. MaxHandle /\ r = known[h] /\ r # 0
  BY DEF Freed
<1>4. r \in DOMAIN recs /\ r \in Nat
  BY <1>2, <1>3
<1>5. h \in recs[r].handles /\ Counted(recs[r], nextHandle)
  BY <1>1, <1>2, <1>3, <1>4 DEF Tables
<1>6. PICK x : x = recs[r] /\ x \in ServiceRec
  BY <1>2, <1>4
<1>7. /\ x.key \in Key /\ x.handles \subseteq 1 .. MaxHandle /\ x.refs \in Nat
      /\ x.handles \subseteq 1 .. nextHandle - 1 /\ x.refs = Cardinality(x.handles)
  BY <1>5, <1>6 DEF Counted, ServiceRec
<1>8. hs = x.handles \ {h} /\ m = x.refs - 1
  BY <1>6 DEF Freed
<1>9. IsFiniteSet(x.handles)
  <2>1. IsFiniteSet(1 .. MaxHandle)
    BY <1>2, FS_Interval
  <2> QED BY <1>7, <2>1, FS_Subset
<1>10. Cardinality(hs) = Cardinality(x.handles) - 1 /\ IsFiniteSet(hs) /\ Cardinality(hs) \in Nat
  <2>1. h \in x.handles
    BY <1>5, <1>6
  <2>2. IsFiniteSet(hs) /\ Cardinality(hs) = Cardinality(x.handles) - 1
    BY <1>8, <1>9, <2>1, FS_RemoveElement
  <2> QED BY <2>2, FS_CardinalityType
<1>11. m \in Nat /\ m = Cardinality(hs)
  BY <1>7, <1>8, <1>10
<1>12. m = 0 => x.handles = {h}
  <2>1. m = 0 => hs = {}
    BY <1>10, <1>11, FS_EmptySet
  <2> QED BY <1>5, <1>6, <1>8, <2>1
<1>13. PICK y : y = Changed(x, hs, m)
  OBVIOUS
<1>14. y \in ServiceRec /\ y.key = x.key /\ y.handles = hs /\ y.refs = m
  BY <1>7, <1>8, <1>11, <1>13 DEF Changed, ServiceRec
<1>15. rs2 = [recs EXCEPT ![r] = y]
  BY <1>6, <1>13, Zenon DEF Freed
<1>16. /\ rs2 \in Seq(ServiceRec) /\ Len(rs2) = Len(recs) /\ DOMAIN rs2 = DOMAIN recs
       /\ rs2[r] = y /\ \A i \in DOMAIN recs : i # r => rs2[i] = recs[i]
  BY <1>2, <1>4, <1>14, <1>15
<1>17. k \in Key /\ k = x.key
  BY <1>6, <1>7 DEF Freed
<1>18. svcs2 = IF m = 0 THEN [services EXCEPT ![k] = 0] ELSE services
  BY DEF Freed
<1>19. svcs2 \in [Key -> 0 .. Len(recs)] /\ \A j \in Key : svcs2[j] = IF m = 0 /\ j = k THEN 0 ELSE services[j]
  <2>1. CASE m = 0
    <3>1. svcs2 = [services EXCEPT ![k] = 0]
      BY <1>18, <2>1
    <3> QED BY <1>2, <1>17, <2>1, <3>1
  <2>2. CASE m # 0
    <3>1. svcs2 = services
      BY <1>18, <2>2
    <3> QED BY <1>2, <2>2, <3>1
  <2> QED BY <2>1, <2>2
<1> QED BY <1>2, <1>4, <1>5, <1>6, <1>7, <1>11, <1>12, <1>14, <1>16, <1>17, <1>19

LEMMA FreedTables ==
    ASSUME WorkerInv, NEW h, NEW r, NEW k, NEW hs, NEW m, NEW rs2, NEW svcs2, NEW kn2,
           Freed(h, r, k, hs, m, rs2, svcs2, kn2)
    PROVE  Tables(rs2, svcs2, kn2, nextHandle, None)
<1>1. Tables(recs, services, known, nextHandle, None)
  BY HeldServed
<1>2. k \in Key /\ k = recs[r].key
  BY FreedFacts
<1>3. /\ recs \in Seq(ServiceRec) /\ services \in [Key -> 0 .. Len(recs)]
      /\ known \in [1 .. MaxHandle -> 0 .. Len(recs)] /\ Len(recs) \in Nat /\ MaxHandle \in Nat
      /\ r \in DOMAIN recs /\ h \in recs[r].handles
      /\ m \in Nat /\ m = Cardinality(hs) /\ recs[r].handles \subseteq 1 .. nextHandle - 1
      /\ m = 0 => recs[r].handles = {h}
  BY FreedFacts
<1>4. /\ rs2 \in Seq(ServiceRec) /\ Len(rs2) = Len(recs) /\ DOMAIN rs2 = DOMAIN recs
      /\ rs2[r] \in ServiceRec /\ rs2[r].key = k /\ rs2[r].handles = hs /\ rs2[r].refs = m
      /\ \A i \in DOMAIN recs : (i # r => rs2[i] = recs[i])
  BY <1>2, FreedFacts
<1>5. svcs2 \in [Key -> 0 .. Len(recs)] /\ \A j \in Key : svcs2[j] = IF m = 0 /\ j = k THEN 0 ELSE services[j]
  BY <1>2, FreedFacts
<1>6. /\ h \in 1 .. MaxHandle /\ r = known[h] /\ r # 0 /\ hs = recs[r].handles \ {h}
      /\ kn2 \in [1 .. MaxHandle -> 0 .. Len(recs)]
      /\ \A g \in 1 .. MaxHandle :
           kn2[g] = IF g = h \/ (m = 0 /\ services[k] # 0 /\ g \in recs[services[k]].handles)
                      THEN 0 ELSE known[g]
  BY <1>2, <1>3 DEF Freed
<1>7. ASSUME NEW i \in DOMAIN rs2 PROVE Counted(rs2[i], nextHandle)
  <2>1. CASE i = r
    <3>1. hs \subseteq 1 .. nextHandle - 1
      BY <1>3, <1>6
    <3> QED BY <1>3, <1>4, <2>1, <3>1 DEF Counted
  <2>2. CASE i # r
    BY <1>1, <1>4, <2>2 DEF Tables
  <2> QED BY <2>1, <2>2
<1>8. ASSUME NEW j \in Key, services[j] # 0
      PROVE  /\ services[j] \in DOMAIN recs /\ recs[services[j]].key = j /\ recs[services[j]].refs > 0
             /\ \A g \in recs[services[j]].handles : g \in 1 .. MaxHandle /\ known[g] = services[j]
  <2>1. services[j] \in DOMAIN recs /\ j # None
    BY <1>3, <1>8, WorkerAssumption
  <2>2. recs[services[j]] \in ServiceRec
    BY <1>3, <2>1
  <2>3. \A g \in recs[services[j]].handles : g \in 1 .. MaxHandle
    BY <2>2 DEF ServiceRec
  <2> QED BY <1>1, <1>8, <2>1, <2>3 DEF Tables
<1>9. ASSUME NEW j \in Key, svcs2[j] # 0
      PROVE  /\ rs2[svcs2[j]].key = j /\ (j # None => rs2[svcs2[j]].refs > 0)
             /\ \A g \in rs2[svcs2[j]].handles : kn2[g] = svcs2[j]
  <2>1. svcs2[j] = services[j] /\ services[j] # 0 /\ ~(m = 0 /\ j = k)
    BY <1>5, <1>9
  <2>2. /\ services[j] \in DOMAIN recs /\ recs[services[j]].key = j /\ recs[services[j]].refs > 0
        /\ \A g \in recs[services[j]].handles : g \in 1 .. MaxHandle /\ known[g] = services[j]
    BY <1>8, <2>1
  <2>3. CASE services[j] = r
    <3>1. j = k /\ m # 0 /\ m > 0
      BY <1>2, <1>3, <2>1, <2>2, <2>3
    <3>2. \A g \in hs : g \in 1 .. MaxHandle /\ g # h /\ known[g] = r
      BY <1>6, <2>2, <2>3
    <3>3. \A g \in hs : kn2[g] = r
      BY <1>6, <3>1, <3>2
    <3> QED BY <1>4, <2>1, <2>3, <3>1, <3>3
  <2>4. CASE services[j] # r
    <3>1. rs2[services[j]] = recs[services[j]]
      BY <1>4, <2>2, <2>4
    <3>2. ASSUME NEW g \in recs[services[j]].handles PROVE kn2[g] = services[j]
      <4>1. g \in 1 .. MaxHandle /\ known[g] = services[j] /\ g # h
        BY <1>6, <2>2, <2>4
      <4>2. ASSUME m = 0, services[k] # 0, g \in recs[services[k]].handles PROVE FALSE
        <5>1. known[g] = services[k] /\ recs[services[k]].key = k
          BY <1>2, <1>8, <4>2
        <5> QED BY <2>1, <2>2, <4>1, <4>2, <5>1
      <4> QED BY <1>6, <4>1, <4>2
    <3> QED BY <2>1, <2>2, <3>1, <3>2
  <2> QED BY <2>3, <2>4
<1>10. ASSUME NEW g \in DOMAIN kn2, kn2[g] # 0
       PROVE  g \in rs2[kn2[g]].handles
  <2>1. g \in 1 .. MaxHandle /\ g # h /\ kn2[g] = known[g]
    BY <1>6, <1>10
  <2>2. g \in recs[known[g]].handles /\ known[g] \in DOMAIN recs
    BY <1>1, <1>3, <1>10, <2>1 DEF Tables
  <2>3. CASE known[g] = r
    BY <1>4, <1>6, <2>1, <2>2, <2>3
  <2>4. CASE known[g] # r
    BY <1>4, <2>1, <2>2, <2>4
  <2> QED BY <2>3, <2>4
<1>11. nextHandle \in 1 .. MaxHandle + 1
  BY <1>1 DEF Tables
<1> QED BY <1>4, <1>5, <1>6, <1>7, <1>9, <1>10, <1>11 DEF Tables

LEMMA FreedHolds ==
    ASSUME WorkerInv, NEW h, NEW r, NEW k, NEW hs, NEW m, NEW rs2, NEW svcs2, NEW kn2,
           Freed(h, r, k, hs, m, rs2, svcs2, kn2), NEW hd \in SUBSET held
    PROVE  Holds(hd, overlapped, rs2, svcs2, kn2, nextHandle)
<1>1. /\ Tables(recs, services, known, nextHandle, None)
      /\ Holds(held, overlapped, recs, services, known, nextHandle)
  BY HeldServed
<1>2. k \in Key /\ k = recs[r].key
  BY FreedFacts
<1>3. /\ recs \in Seq(ServiceRec) /\ services \in [Key -> 0 .. Len(recs)]
      /\ known \in [1 .. MaxHandle -> 0 .. Len(recs)] /\ Len(recs) \in Nat /\ m \in Nat
      /\ DOMAIN rs2 = DOMAIN recs /\ \A i \in DOMAIN recs : rs2[i].key = recs[i].key
  BY FreedFacts
<1>4. \A j \in Key : svcs2[j] = IF m = 0 /\ j = k THEN 0 ELSE services[j]
  BY <1>2, FreedFacts
<1>5. /\ kn2 \in [1 .. MaxHandle -> 0 .. Len(recs)]
      /\ \A g \in 1 .. MaxHandle :
           kn2[g] = IF g = h \/ (m = 0 /\ services[k] # 0 /\ g \in recs[services[k]].handles)
                      THEN 0 ELSE known[g]
  BY <1>2, <1>3 DEF Freed
<1>6. ASSUME NEW g \in DOMAIN kn2, kn2[g] # 0, svcs2[rs2[kn2[g]].key] # kn2[g]
      PROVE  rs2[kn2[g]].key \in overlapped
  <2>1. g \in DOMAIN known /\ kn2[g] = known[g] /\ g \in 1 .. MaxHandle
    BY <1>3, <1>5, <1>6
  <2>2. known[g] \in DOMAIN recs
    BY <1>3, <1>6, <2>1
  <2>3. recs[known[g]] \in ServiceRec
    BY <1>3, <2>2
  <2>4. PICK j \in Key : j = recs[known[g]].key /\ j = rs2[kn2[g]].key
    BY <1>3, <2>1, <2>2, <2>3 DEF ServiceRec
  <2>5. CASE services[j] # known[g]
    BY <1>1, <1>6, <2>1, <2>4, <2>5 DEF Holds
  <2>6. CASE services[j] = known[g]
    <3>1. m = 0 /\ j = k
      BY <1>4, <1>6, <2>1, <2>4, <2>6
    <3>2. g \in recs[known[g]].handles
      BY <1>1, <1>6, <2>1 DEF Tables
    <3>3. kn2[g] = 0
      BY <1>5, <1>6, <2>1, <2>6, <3>1, <3>2
    <3> QED BY <1>6, <3>3
  <2> QED BY <2>5, <2>6
<1>7. /\ hd \subseteq [handle : 1 .. MaxHandle, key : Key, rec : Nat, epoch : Nat]
      /\ overlapped \subseteq Key /\ \A e \in hd : e.epoch <= epoch
      /\ \A e \in hd : e.epoch = epoch =>
           e.handle < nextHandle /\ e.rec \in DOMAIN recs /\ recs[e.rec].key = e.key
      /\ \A e, f \in hd : e.epoch = epoch /\ f.epoch = epoch /\ e.handle = f.handle => e = f
  BY <1>1 DEF Holds
<1>8. \A e \in hd : e.epoch = epoch =>
           e.handle < nextHandle /\ e.rec \in DOMAIN rs2 /\ rs2[e.rec].key = e.key
  BY <1>3, <1>7
<1> QED BY <1>6, <1>7, <1>8 DEF Holds

(* Whoever holds another handle of this worker is served as before.        *)
LEMMA FreedServes ==
    ASSUME WorkerInv, NEW h, NEW r, NEW k, NEW hs, NEW m, NEW rs2, NEW svcs2, NEW kn2,
           Freed(h, r, k, hs, m, rs2, svcs2, kn2), NEW f \in held \ taken,
           f.handle # h, f.epoch = epoch, f.key \notin overlapped
    PROVE  kn2[f.handle] = f.rec /\ svcs2[f.key] = f.rec
<1>1. /\ Tables(recs, services, known, nextHandle, None)
      /\ Holds(held, overlapped, recs, services, known, nextHandle)
      /\ Serves(held, overlapped, services, known)
  BY HeldServed
<1>2. k \in Key /\ k = recs[r].key
  BY FreedFacts
<1>3. /\ known \in [1 .. MaxHandle -> 0 .. Len(recs)] /\ m \in Nat /\ (m = 0 => recs[r].handles = {h})
      /\ r \in DOMAIN recs /\ recs \in Seq(ServiceRec) /\ Len(recs) \in Nat
  BY FreedFacts
<1>4. \A j \in Key : svcs2[j] = IF m = 0 /\ j = k THEN 0 ELSE services[j]
  BY <1>2, FreedFacts
<1>5. /\ h \in 1 .. MaxHandle /\ r = known[h] /\ r # 0
      /\ \A g \in 1 .. MaxHandle :
           kn2[g] = IF g = h \/ (m = 0 /\ services[k] # 0 /\ g \in recs[services[k]].handles)
                      THEN 0 ELSE known[g]
  BY <1>2, <1>3 DEF Freed
<1>6. /\ f.handle \in 1 .. MaxHandle /\ f.key \in Key /\ f.rec \in DOMAIN recs /\ recs[f.rec].key = f.key
  BY <1>1 DEF Holds
<1>7. known[f.handle] = f.rec /\ services[f.key] = f.rec /\ f.rec # 0
  BY <1>1, <1>3, <1>6 DEF Serves
<1>8. f.handle \in recs[f.rec].handles
  BY <1>1, <1>3, <1>6, <1>7 DEF Tables
<1>9. ASSUME m = 0, f.key = k PROVE FALSE
  <2>1. CASE f.rec = r
    BY <1>3, <1>8, <1>9, <2>1
  <2>2. CASE f.rec # r
    <3>1. services[recs[known[h]].key] # known[h] /\ known[h] # 0 /\ h \in DOMAIN known
      BY <1>2, <1>3, <1>5, <1>7, <1>9, <2>2
    <3>2. recs[known[h]].key \in overlapped
      BY <1>1, <3>1 DEF Holds
    <3> QED BY <1>2, <1>5, <1>9, <3>2
  <2> QED BY <2>1, <2>2
<1>10. ASSUME m = 0, services[k] # 0, f.handle \in recs[services[k]].handles PROVE FALSE
  <2>1. known[f.handle] = services[k] /\ recs[services[k]].key = k
    BY <1>1, <1>2, <1>10 DEF Tables
  <2> QED BY <1>6, <1>7, <1>9, <1>10, <2>1
<1> QED BY <1>4, <1>5, <1>6, <1>7, <1>9, <1>10

LEMMA ReleaseCallKeeps ==
    ASSUME WorkerInv, NEW e \in held, ReleaseCall(e)
    PROVE  WorkerInv'
<1>1. CallsTyped /\ MarksOK /\ StoreTypes
  BY DEF WorkerInv
<1>2. UNCHANGED <<bytes, meta, calls, answers, nextHandle, instantiating, row, overlapped, epoch, left>>
  BY DEF ReleaseCall, dbVars
<1>3. CallsTyped' /\ MarksOK' /\ StoreTypes'
  <2>1. CallsTyped' /\ MarksOK'
    BY <1>1, <1>2, CallsSame
  <2>2. StoreTypes'
    BY <1>1, <1>2 DEF StoreTypes
  <2> QED BY <2>1, <2>2
<1>4. /\ Tables(recs, services, known, nextHandle, None)
      /\ Holds(held, overlapped, recs, services, known, nextHandle)
      /\ Serves(held, overlapped, services, known)
  BY HeldServed
<1>5. PICK h : h = e.handle
  OBVIOUS
<1>6. PICK r : r = known[h]
  OBVIOUS
<1>7. /\ recs \in Seq(ServiceRec) /\ services \in [Key -> 0 .. Len(recs)]
      /\ known \in [1 .. MaxHandle -> 0 .. Len(recs)] /\ h \in 1 .. MaxHandle
      /\ Len(recs) \in Nat
  BY <1>4, <1>5 DEF Tables, Holds
<1>8. PICK kn : kn = [known EXCEPT ![h] = 0]
  OBVIOUS
<1>9. /\ kn \in [1 .. MaxHandle -> 0 .. Len(recs)]
      /\ \A g \in 1 .. MaxHandle : kn[g] = IF g = h THEN 0 ELSE known[g]
  BY <1>7, <1>8
<1>10. /\ held' = held \ {e} /\ e \in held
       /\ taken' = IF e.epoch = epoch THEN taken
                     ELSE taken \cup {f \in held : f.epoch = epoch /\ f.handle = h}
  BY <1>5 DEF ReleaseCall
<1>11. /\ known' = IF LastHandle(r) THEN Forgotten(recs[r].key, kn) ELSE kn
       /\ services' = IF LastHandle(r) THEN [services EXCEPT ![recs[r].key] = 0] ELSE services
       /\ recs' = IF r = 0 THEN recs
                    ELSE [recs EXCEPT ![r].handles = @ \ {h}, ![r].refs = @ - 1]
  BY <1>5, <1>6, <1>8, Zenon DEF ReleaseCall
(* Who still holds a handle of this worker does not hold this number.      *)
<1>12. ASSUME NEW f \in held' \ taken', f.epoch = epoch
       PROVE  f \in held \ taken /\ f.handle # h
  <2>1. f \in held \ taken /\ f # e
    BY <1>10
  <2>2. CASE e.epoch = epoch
    <3>1. f.handle = e.handle => f = e
      BY <1>4, <1>12, <2>1, <2>2 DEF Holds
    <3> QED BY <1>5, <2>1, <3>1
  <2>3. CASE e.epoch # epoch
    BY <1>10, <1>12, <2>1, <2>3
  <2> QED BY <2>2, <2>3
<1>13. CASE r = 0
  <2>1. ~LastHandle(r)
    BY <1>13 DEF LastHandle
  <2>2. kn = known
    BY <1>6, <1>7, <1>8, <1>13
  <2>3. UNCHANGED <<recs, services, known, nextHandle, overlapped, epoch>> /\ held' \subseteq held
    BY <1>2, <1>10, <1>11, <1>13, <2>1, <2>2
  <2>4. RecsOK'
    BY <1>4, <2>3 DEF RecsOK
  <2>5. HeldOK'
    BY <1>4, <2>3 DEF HeldOK, Holds
  <2>6. HeldIsServed'
    BY <1>4, <1>12, <2>3 DEF HeldIsServed, Serves
  <2> QED BY <1>3, <2>4, <2>5, <2>6, ElseKept
<1>14. CASE r # 0
  <2>1. r \in DOMAIN recs /\ recs[r] \in ServiceRec
    BY <1>6, <1>7, <1>14
  <2>2. PICK k \in Key : k = recs[r].key
    BY <2>1 DEF ServiceRec
  <2>3. PICK hs : hs = recs[r].handles \ {h}
    OBVIOUS
  <2>4. PICK m : m = recs[r].refs - 1
    OBVIOUS
  <2>5. recs' = BothSet(recs, r, hs, m)
    BY <1>7, <1>11, <1>14, <2>1, <2>3, <2>4 DEF ServiceRec, BothSet
  <2>6. SetAtOnce(recs, r, hs, m)
    BY <1>7, <2>1, ChangedIs
  <2>7. recs' = [recs EXCEPT ![r] = Changed(recs[r], hs, m)]
    BY <2>5, <2>6, Zenon DEF SetAtOnce
  <2>8. LastHandle(r) <=> m = 0
    <3>1. h \in recs[r].handles /\ Counted(recs[r], nextHandle)
      BY <1>4, <1>6, <1>7, <1>14, <2>1 DEF Tables
    <3>2. IsFiniteSet(recs[r].handles)
      <4>1. IsFiniteSet(1 .. MaxHandle) /\ recs[r].handles \subseteq 1 .. MaxHandle
        BY <2>1, FS_Interval, WorkerAssumption DEF ServiceRec
      <4> QED BY <4>1, FS_Subset
    <3>3. Cardinality(recs[r].handles) # 0 /\ Cardinality(recs[r].handles) \in Nat
      BY <3>1, <3>2, FS_EmptySet, FS_CardinalityType
    <3>4. recs[r].refs \in Nat /\ recs[r].refs # 0
      BY <3>1, <3>3 DEF Counted
    <3> QED BY <1>14, <2>4, <3>4 DEF LastHandle
  <2>9. services' = IF m = 0 THEN [services EXCEPT ![k] = 0] ELSE services
    BY <1>11, <2>2, <2>8
  <2>10. known' = IF m = 0 THEN Forgotten(k, kn) ELSE kn
    BY <1>11, <2>2, <2>8
  <2>11. /\ known' \in [1 .. MaxHandle -> 0 .. Len(recs)]
         /\ \A g \in 1 .. MaxHandle :
              known'[g] = IF g = h \/ (m = 0 /\ services[k] # 0 /\ g \in recs[services[k]].handles)
                            THEN 0 ELSE known[g]
    <3>1. CASE m # 0 \/ services[k] = 0
      <4>1. known' = kn
        BY <2>10, <3>1, ForgottenNone
      <4> QED BY <1>9, <3>1, <4>1
    <3>2. CASE m = 0 /\ services[k] # 0
      <4>1. known' = Forgotten(k, kn)
        BY <2>10, <3>2
      <4>2. /\ Forgotten(k, kn) \in [1 .. MaxHandle -> 0 .. Len(recs)]
            /\ \A g \in 1 .. MaxHandle :
                 Forgotten(k, kn)[g] = IF g \in recs[services[k]].handles THEN 0 ELSE kn[g]
        BY <1>7, <1>9, <3>2, ForgottenIs
      <4> QED BY <1>9, <3>2, <4>1, <4>2
    <3> QED BY <3>1, <3>2
  <2>12. Freed(h, r, k, hs, m, recs', services', known')
    BY <1>6, <1>7, <1>14, <2>2, <2>3, <2>4, <2>7, <2>9, <2>11 DEF Freed
  <2>13. Tables(recs', services', known', nextHandle, None)
    BY <2>12, FreedTables
  <2>14. Holds(held', overlapped, recs', services', known', nextHandle)
    <3>1. held' \in SUBSET held
      BY <1>10
    <3> QED BY <2>12, <3>1, FreedHolds
  <2>15. RecsOK'
    BY <1>2, <2>13, Zenon DEF RecsOK
  <2>16. HeldOK'
    BY <1>2, <2>14 DEF HeldOK, Holds
  <2>17. HeldIsServed'
    <3>1. ASSUME NEW f \in held' \ taken', f.epoch = epoch, f.key \notin overlapped
          PROVE  known'[f.handle] = f.rec /\ services'[f.key] = f.rec
      BY <1>12, <2>12, <3>1, FreedServes
    <3> QED BY <1>2, <3>1 DEF HeldIsServed
  <2> QED BY <1>3, <2>15, <2>16, <2>17, ElseKept
<1> QED BY <1>13, <1>14

LEMMA ClearCallKeeps ==
    ASSUME WorkerInv, ClearCall
    PROVE  WorkerInv'
<1>1. CallsTyped /\ MarksOK /\ StoreTypes
  BY DEF WorkerInv
<1>2. PICK x : x = [Idle EXCEPT !.pc = "clear meta", !.what = "clear"]
  OBVIOUS
<1>3. Spend("clear") /\ Begin(x) /\ instantiating' = instantiating /\ UNCHANGED mapsHeld
      /\ UNCHANGED <<bytes, meta, answers, row, epoch>>
  BY <1>2 DEF ClearCall, dbVars, mapsHeld
<1>4. CallOK(x)
  <2>1. x \in CallRec /\ x.pc = "clear meta" /\ x.what = "clear"
    BY <1>2 DEF Idle, CallRec
  <2> QED BY <2>1 DEF CallOK
<1>5. PICK c \in Call : CallBecomes(c, x) /\ calls[c].pc = "idle"
  BY <1>3, <1>4, BeginBecomes
<1>6. ~(calls[c].pc \in {"compile", "init"})
  BY <1>5
<1>7. CallsTyped' /\ MarksOK'
  BY <1>1, <1>3, <1>5, <1>6, CallsStep, MarksStep
<1>8. StoreTypes'
  <2>1. "clear" \in Kinds
    BY DEF Kinds
  <2>2. left' \in [Kinds -> Nat]
    BY <1>1, <1>3, <2>1, SpendTypes DEF StoreTypes
  <2> QED BY <1>1, <1>3, <2>2 DEF StoreTypes
<1> QED BY <1>3, <1>7, <1>8, CallKept

(* Steps that change the rows alone, in the worker.                        *)
LEMMA RowsKeep ==
    ASSUME WorkerInv, row' \in [Key -> {"none", "fresh", "stale"}],
           UNCHANGED <<dbVars, calls, answers, mapVars, instantiating, holdVars, epoch, left>>
    PROVE  WorkerInv'
<1>1. CallsTyped /\ MarksOK /\ StoreTypes
  BY DEF WorkerInv
<1>2. CallsTyped' /\ MarksOK'
  BY <1>1, CallsSame
<1>3. StoreTypes'
  BY <1>1 DEF StoreTypes, dbVars
<1>4. UNCHANGED mapsHeld
  BY DEF mapsHeld
<1> QED BY <1>2, <1>3, <1>4, CallKept

LEMMA AgeKeeps ==
    ASSUME WorkerInv, NEW k \in Key, Age(k)
    PROVE  WorkerInv'
<1>1. row' \in [Key -> {"none", "fresh", "stale"}]
  BY DEF WorkerInv, StoreTypes, Age
<1> QED BY <1>1, RowsKeep DEF Age

LEMMA ReapKeeps ==
    ASSUME WorkerInv, Reap
    PROVE  WorkerInv'
<1>1. row' \in [Key -> {"none", "fresh", "stale"}]
  BY DEF WorkerInv, StoreTypes, Reap
<1> QED BY <1>1, RowsKeep DEF Reap

(* A worker that starts has nothing but its database.                      *)
LEMMA NewWorker ==
    ASSUME WorkerAssumption,
           NEW rs, rs = << >>, NEW svcs, svcs = [k \in Key |-> 0],
           NEW kn, kn = [h \in 1 .. MaxHandle |-> 0]
    PROVE  Tables(rs, svcs, kn, 1, None)
<1>1. rs \in Seq(ServiceRec) /\ Len(rs) = 0 /\ DOMAIN rs = {}
  OBVIOUS
<1>2. 1 \in 1 .. MaxHandle + 1
  BY WorkerAssumption
<1> QED BY <1>1, <1>2 DEF Tables

LEMMA NewCalls ==
    ASSUME NEW cs, cs = [c \in Call |-> Idle]
    PROVE  cs \in [Call -> CallRec] /\ \A c \in Call : CallOK(cs[c])
BY IdleOK DEF CallOK

LEMMA RestartKeeps ==
    ASSUME WorkerInv, Restart
    PROVE  WorkerInv'
<1>1. CallsTyped /\ StoreTypes
  BY DEF WorkerInv
<1>2. CallsTyped'
  BY NewCalls DEF Restart, CallsTyped
<1>3. MarksOK'
  BY DEF Restart, MarksOK
<1>4. StoreTypes'
  <2>1. \A c \in Call : calls[c].what = "fetch" => calls[c].page \in Page /\ calls[c].req \in Nat
    <3>1. \A c \in Call : CallOK(calls[c]) /\ calls[c] \in CallRec
      BY <1>1 DEF CallsTyped
    <3> QED BY <3>1 DEF CallOK, CallRec
  <2>2. answers' \subseteq [page : Page, req : Nat, result : {"hit", "miss", "error"}]
    <3>1. PICK new : new = {[page |-> calls[c].page, req |-> calls[c].req, result |-> "error"] :
                              c \in {d \in Call : calls[d].what = "fetch"}}
      OBVIOUS
    <3>2. new \subseteq [page : Page, req : Nat, result : {"hit", "miss", "error"}]
      BY <2>1, <3>1
    <3>3. answers' = answers \cup new
      BY <3>1, Zenon DEF Restart
    <3> QED BY <1>1, <3>2, <3>3 DEF StoreTypes
  <2>3. "restart" \in Kinds /\ Spend("restart")
    BY DEF Kinds, Restart
  <2>4. left' \in [Kinds -> Nat]
    BY <1>1, <2>3, SpendTypes DEF StoreTypes
  <2>5. row' \in [Key -> {"none", "fresh", "stale"}] /\ epoch' \in Nat /\ UNCHANGED <<bytes, meta>>
    BY <1>1 DEF Restart, StoreTypes, dbVars
  <2> QED BY <1>1, <2>2, <2>4, <2>5 DEF StoreTypes
<1>5. RecsOK'
  <2>1. /\ recs' = << >> /\ services' = [k \in Key |-> 0] /\ known' = [h \in 1 .. MaxHandle |-> 0]
        /\ nextHandle' = 1
    BY DEF Restart
  <2>2. Tables(recs', services', known', 1, None)
    BY <2>1, NewWorker, WorkerAssumption
  <2> QED BY <2>1, <2>2, Zenon DEF RecsOK
<1>6. \A e \in held' : e.epoch <= epoch /\ e.epoch \in Nat /\ epoch \in Nat /\ epoch' = epoch + 1
  <2>1. Holds(held, overlapped, recs, services, known, nextHandle)
    BY HeldServed
  <2> QED BY <1>1, <2>1 DEF Holds, Restart, StoreTypes
<1>7. HeldOK'
  <2>1. held' \subseteq [handle : 1 .. MaxHandle, key : Key, rec : Nat, epoch : Nat]
    BY HeldServed DEF Holds, Restart
  <2>2. overlapped' = {} /\ \A h \in DOMAIN known' : known'[h] = 0
    BY DEF Restart
  <2>3. \A e \in held' : e.epoch <= epoch' /\ e.epoch # epoch'
    BY <1>6
  <2> QED BY <2>1, <2>2, <2>3 DEF HeldOK, Holds
<1>8. HeldIsServed'
  BY <1>6 DEF HeldIsServed
<1> QED BY <1>2, <1>3, <1>4, <1>5, <1>7, <1>8, ElseKept

LEMMA WorkerInitKeeps ==
    ASSUME WorkerInit
    PROVE  WorkerInv
<1>1. CallsTyped
  BY NewCalls DEF WorkerInit, CallsTyped
<1>2. MarksOK
  BY DEF WorkerInit, MarksOK
<1>3. StoreTypes
  <2>1. left \in [Kinds -> Nat]
    BY WorkerAssumption DEF WorkerInit
  <2>2. meta \subseteq Hash
    BY DEF WorkerInit
  <2> QED BY <2>1, <2>2 DEF WorkerInit, StoreTypes
<1>4. RecsOK
  BY NewWorker, WorkerAssumption DEF WorkerInit, RecsOK
<1>5. HeldOK
  <2>1. held = {} /\ overlapped = {} /\ \A h \in DOMAIN known : known[h] = 0
    BY DEF WorkerInit
  <2> QED BY <2>1 DEF HeldOK, Holds
<1>6. HeldIsServed
  BY DEF WorkerInit, HeldIsServed
<1> QED BY <1>1, <1>2, <1>3, <1>4, <1>5, <1>6 DEF WorkerInv

LEMMA WorkerStepKeeps ==
    ASSUME WorkerInv, WorkerStep
    PROVE  WorkerInv'
<1>1. ASSUME NEW c \in Call, CallStep(c) PROVE WorkerInv'
  BY <1>1, CacheFetchKeeps, StoreLookKeeps, StorePutKeeps, ClearKeeps, JoinBytesKeeps,
     JoinFetchedKeeps, JoinCompiledKeeps, JoinFailsKeeps, JoinInitKeeps DEF CallStep
<1>2. ASSUME NEW k \in Key, JoinCall(k) \/ Age(k) PROVE WorkerInv'
  BY <1>2, JoinCallKeeps, AgeKeeps
<1>3. ASSUME NEW e \in held, ReleaseCall(e) PROVE WorkerInv'
  BY <1>3, ReleaseCallKeeps
<1> QED BY <1>1, <1>2, <1>3, ClearCallKeeps, ReapKeeps, RestartKeeps DEF WorkerStep

-----------------------------------------------------------------------------
(* The pages: the services a page hosts and the handles to them.           *)

SvcStates == {"none", "pending", "ready", "failed"}
SvcRec    == [state : SvcStates, refs : Nat, inst : Nat]
HandleRec == [id : Nat, key : Key, inst : Nat]

HandlesTo(hs, k) == {x \in hs : x.key = k}

(* Service s, of those handles.                                            *)
CountedBy(s, hs) ==
    /\ s.refs = Cardinality(hs) /\ (s.state = "ready" <=> hs # {})
    /\ \A x \in hs : x.inst = s.inst

(* The services and handles of a page that made n numbers.                 *)
HostOK(ss, hs, n) ==
    /\ ss \in [Key -> SvcRec] /\ hs \subseteq HandleRec /\ IsFiniteSet(hs) /\ n \in Nat
    /\ \A x \in hs : x.id <= n
    /\ \A k \in Key : CountedBy(ss[k], HandlesTo(hs, k))

(* One more handle, to a service that is there or is made for it.          *)
LEMMA HostJoins ==
    ASSUME NEW ss, NEW hs, NEW n, HostOK(ss, hs, n), NEW k \in Key, NEW s \in SvcRec,
           s.refs = ss[k].refs + 1, s.state = "ready",
           ss[k].state = "ready" => s.inst = ss[k].inst,
           NEW x \in HandleRec, x.id = n + 1, x.key = k, x.inst = s.inst
    PROVE  HostOK([ss EXCEPT ![k] = s], hs \cup {x}, n + 1)
<1>1. ss \in [Key -> SvcRec] /\ hs \subseteq HandleRec /\ IsFiniteSet(hs) /\ n \in Nat
  BY DEF HostOK
<1>2. PICK ss2 : ss2 = [ss EXCEPT ![k] = s]
  OBVIOUS
<1>3. ss2 \in [Key -> SvcRec] /\ ss2[k] = s /\ \A j \in Key : j # k => ss2[j] = ss[j]
  BY <1>1, <1>2
<1>4. IsFiniteSet(hs \cup {x})
  BY <1>1, FS_AddElement
<1>5. x \notin hs /\ \A y \in hs \cup {x} : y.id <= n + 1
  <2>1. \A y \in hs : y.id <= n /\ y.id \in Nat
    BY <1>1 DEF HostOK, HandleRec
  <2> QED BY <1>1, <2>1
<1>6. ASSUME NEW j \in Key PROVE CountedBy(ss2[j], HandlesTo(hs \cup {x}, j))
  <2>1. CountedBy(ss[j], HandlesTo(hs, j))
    BY DEF HostOK
  <2>2. CASE j # k
    <3>1. HandlesTo(hs \cup {x}, j) = HandlesTo(hs, j)
      BY <2>2 DEF HandlesTo
    <3> QED BY <1>3, <2>1, <2>2, <3>1
  <2>3. CASE j = k
    <3>1. HandlesTo(hs \cup {x}, j) = HandlesTo(hs, j) \cup {x}
      BY <2>3 DEF HandlesTo
    <3>2. IsFiniteSet(HandlesTo(hs, j)) /\ x \notin HandlesTo(hs, j)
      <4>1. HandlesTo(hs, j) \subseteq hs
        BY DEF HandlesTo
      <4> QED BY <1>1, <1>5, <4>1, FS_Subset
    <3>3. Cardinality(HandlesTo(hs, j) \cup {x}) = Cardinality(HandlesTo(hs, j)) + 1
      BY <3>2, FS_AddElement
    <3>4. \A y \in HandlesTo(hs, j) : y.inst = s.inst
      <4>1. HandlesTo(hs, j) # {} => ss[k].state = "ready"
        BY <2>1, <2>3 DEF CountedBy
      <4> QED BY <2>1, <2>3, <4>1 DEF CountedBy
    <3>5. s.refs = Cardinality(HandlesTo(hs, j) \cup {x})
      BY <2>1, <2>3, <3>3 DEF CountedBy
    <3> QED BY <1>3, <2>3, <3>1, <3>4, <3>5 DEF CountedBy
  <2> QED BY <2>2, <2>3
<1>7. hs \cup {x} \subseteq HandleRec /\ n + 1 \in Nat
  BY <1>1
<1>8. HostOK(ss2, hs \cup {x}, n + 1)
  BY <1>3, <1>4, <1>5, <1>6, <1>7 DEF HostOK
<1> QED BY <1>2, <1>8

(* Services that are not ready become others that are not.                 *)
LEMMA HostIdle ==
    ASSUME NEW ss, NEW hs, NEW n, HostOK(ss, hs, n), NEW ss2 \in [Key -> SvcRec],
           NEW n2 \in Nat, n <= n2,
           \A k \in Key : \/ ss2[k] = ss[k]
                          \/ ss[k].state # "ready" /\ ss2[k].state # "ready" /\ ss2[k].refs = 0
    PROVE  HostOK(ss2, hs, n2)
<1>1. ss \in [Key -> SvcRec] /\ hs \subseteq HandleRec /\ IsFiniteSet(hs) /\ n \in Nat
  BY DEF HostOK
<1>2. \A x \in hs : x.id <= n2
  <2>1. \A x \in hs : x.id <= n /\ x.id \in Nat
    BY <1>1 DEF HostOK, HandleRec
  <2> QED BY <1>1, <2>1
<1>3. ASSUME NEW k \in Key PROVE CountedBy(ss2[k], HandlesTo(hs, k))
  <2>1. CountedBy(ss[k], HandlesTo(hs, k))
    BY DEF HostOK
  <2>2. CASE ss2[k] = ss[k]
    BY <2>1, <2>2
  <2>3. CASE ss[k].state # "ready" /\ ss2[k].state # "ready" /\ ss2[k].refs = 0
    <3>1. HandlesTo(hs, k) = {} /\ Cardinality({}) = 0
      BY <2>1, <2>3, FS_EmptySet DEF CountedBy
    <3> QED BY <2>3, <3>1 DEF CountedBy
  <2> QED BY <2>2, <2>3
<1> QED BY <1>1, <1>2, <1>3 DEF HostOK

(* One handle less.                                                        *)
LEMMA HostReleases ==
    ASSUME NEW ss, NEW hs, NEW n, HostOK(ss, hs, n), NEW x \in hs, NEW s \in SvcRec,
           IF ss[x.key].refs <= 1 THEN s = NoSvc
             ELSE s.state = "ready" /\ s.refs = ss[x.key].refs - 1 /\ s.inst = ss[x.key].inst
    PROVE  HostOK([ss EXCEPT ![x.key] = s], hs \ {x}, n) /\ ss[x.key].state = "ready"
<1>1. ss \in [Key -> SvcRec] /\ hs \subseteq HandleRec /\ IsFiniteSet(hs) /\ n \in Nat
  BY DEF HostOK
<1>2. PICK k \in Key : k = x.key
  BY <1>1 DEF HandleRec
<1>3. PICK ss2 : ss2 = [ss EXCEPT ![k] = s]
  OBVIOUS
<1>4. ss2 \in [Key -> SvcRec] /\ ss2[k] = s /\ \A j \in Key : j # k => ss2[j] = ss[j]
  BY <1>1, <1>2, <1>3
<1>5. IsFiniteSet(hs \ {x})
  BY <1>1, FS_RemoveElement
<1>6. CountedBy(ss[k], HandlesTo(hs, k)) /\ x \in HandlesTo(hs, k)
  BY <1>2 DEF HostOK, HandlesTo
<1>7. ss[k].state = "ready"
  BY <1>6 DEF CountedBy
<1>8. ASSUME NEW j \in Key PROVE CountedBy(ss2[j], HandlesTo(hs \ {x}, j))
  <2>1. CASE j # k
    <3>1. HandlesTo(hs \ {x}, j) = HandlesTo(hs, j)
      BY <1>2, <2>1 DEF HandlesTo
    <3> QED BY <1>4, <2>1, <3>1 DEF HostOK
  <2>2. CASE j = k
    <3>1. PICK of : of = HandlesTo(hs, k) /\ HandlesTo(hs \ {x}, j) = of \ {x}
      BY <2>2 DEF HandlesTo
    <3>2. IsFiniteSet(of) /\ x \in of
      <4>1. of \subseteq hs
        BY <3>1 DEF HandlesTo
      <4> QED BY <1>1, <1>6, <3>1, <4>1, FS_Subset
    <3>3. /\ Cardinality(of \ {x}) = Cardinality(of) - 1 /\ IsFiniteSet(of \ {x})
          /\ Cardinality(of \ {x}) \in Nat /\ Cardinality(of) \in Nat
      <4>1. Cardinality(of \ {x}) = Cardinality(of) - 1 /\ IsFiniteSet(of \ {x})
        BY <3>2, FS_RemoveElement
      <4> QED BY <3>2, <4>1, FS_CardinalityType
    <3>4. ss[k].refs = Cardinality(of) /\ \A y \in of : y.inst = ss[k].inst
      BY <1>6, <3>1 DEF CountedBy
    <3>5. CASE ss[k].refs <= 1
      <4>1. s = NoSvc /\ s.state = "none" /\ s.refs = 0
        BY <1>2, <3>5 DEF NoSvc
      <4>2. Cardinality(of \ {x}) = 0
        BY <3>3, <3>4, <3>5
      <4>3. of \ {x} = {}
        BY <3>3, <4>2, FS_EmptySet
      <4> QED BY <1>4, <2>2, <3>1, <4>1, <4>2, <4>3 DEF CountedBy
    <3>6. CASE ~(ss[k].refs <= 1)
      <4>1. s.state = "ready" /\ s.refs = ss[k].refs - 1 /\ s.inst = ss[k].inst
        BY <1>2, <3>6
      <4>2. Cardinality(of \ {x}) # 0
        BY <3>3, <3>4, <3>6
      <4>3. of \ {x} # {}
        BY <4>2, FS_EmptySet
      <4> QED BY <1>4, <2>2, <3>1, <3>3, <3>4, <4>1, <4>3 DEF CountedBy
    <3> QED BY <3>5, <3>6
  <2> QED BY <2>1, <2>2
<1>9. hs \ {x} \subseteq HandleRec /\ \A y \in hs \ {x} : y.id <= n
  BY <1>1 DEF HostOK
<1>10. HostOK(ss2, hs \ {x}, n)
  BY <1>1, <1>4, <1>5, <1>8, <1>9 DEF HostOK
<1> QED BY <1>2, <1>3, <1>7, <1>10

(* A page of its own.                                                      *)
LEMMA HostNew ==
    ASSUME NEW n \in Nat
    PROVE  HostOK([k \in Key |-> NoSvc], {}, n)
<1>1. NoSvc \in SvcRec /\ NoSvc.refs = 0 /\ NoSvc.state = "none"
  BY DEF NoSvc, SvcRec, SvcStates
<1>2. IsFiniteSet({}) /\ Cardinality({}) = 0
  BY FS_EmptySet
<1>3. \A k \in Key : HandlesTo({}, k) = {}
  BY DEF HandlesTo
<1> QED BY <1>1, <1>2, <1>3 DEF HostOK, CountedBy

Hosting ==
    /\ open \in [Page -> BOOLEAN] /\ svc \in [Page -> [Key -> SvcRec]]
    /\ handles \in [Page -> SUBSET HandleRec] /\ made \in [Page -> Nat]
    /\ \A p \in Page : open[p] => HostOK(svc[p], handles[p], made[p])

LEMMA HostingSame ==
    ASSUME Hosting, UNCHANGED <<open, svc, handles, made>>
    PROVE  Hosting'
BY DEF Hosting

LEMMA HostStep ==
    ASSUME Hosting, NEW p \in Page, NEW ss, NEW hs, NEW n, HostOK(ss, hs, n), open' = open,
           svc' = [svc EXCEPT ![p] = ss], handles' = [handles EXCEPT ![p] = hs],
           made' = [made EXCEPT ![p] = n]
    PROVE  Hosting'
<1>1. ss \in [Key -> SvcRec] /\ hs \in SUBSET HandleRec /\ n \in Nat
  BY DEF HostOK
<1>2. svc' \in [Page -> [Key -> SvcRec]] /\ \A q \in Page : svc'[q] = IF q = p THEN ss ELSE svc[q]
  BY <1>1 DEF Hosting
<1>3. handles' \in [Page -> SUBSET HandleRec] /\ \A q \in Page : handles'[q] = IF q = p THEN hs ELSE handles[q]
  BY <1>1 DEF Hosting
<1>4. made' \in [Page -> Nat] /\ \A q \in Page : made'[q] = IF q = p THEN n ELSE made[q]
  BY <1>1 DEF Hosting
<1>5. \A q \in Page : open[q] => HostOK(svc'[q], handles'[q], made'[q])
  <2> SUFFICES ASSUME NEW q \in Page, open[q] PROVE HostOK(svc'[q], handles'[q], made'[q])
    OBVIOUS
  <2>1. CASE q = p
    <3>1. svc'[q] = ss /\ handles'[q] = hs /\ made'[q] = n
      BY <1>2, <1>3, <1>4, <2>1
    <3> QED BY <3>1
  <2>2. CASE q # p
    <3>1. svc'[q] = svc[q] /\ handles'[q] = handles[q] /\ made'[q] = made[q]
      BY <1>2, <1>3, <1>4, <2>2
    <3> QED BY <3>1 DEF Hosting
  <2> QED BY <2>1, <2>2
<1> QED BY <1>2, <1>3, <1>4, <1>5 DEF Hosting

LEMMA ServiceIs ==
    ASSUME Hosting, NEW p \in Page, NEW k \in Key, NEW s, Service(p, k, s)
    PROVE  svc' = [svc EXCEPT ![p] = [svc[p] EXCEPT ![k] = s]]
BY DEF Service

LEMMA SameHandles ==
    ASSUME Hosting, NEW p \in Page
    PROVE  handles = [handles EXCEPT ![p] = handles[p]] /\ made = [made EXCEPT ![p] = made[p]]
           /\ svc = [svc EXCEPT ![p] = svc[p]]
BY DEF Hosting

LEMMA PageIs ==
    ASSUME Hosting, NEW p \in Page
    PROVE  /\ svc[p] \in [Key -> SvcRec] /\ handles[p] \subseteq HandleRec /\ made[p] \in Nat
           /\ open[p] => HostOK(svc[p], handles[p], made[p])
BY DEF Hosting

(* A handle given to service k, which is now s.                            *)
LEMMA JoinHosts ==
    ASSUME Hosting, NEW p \in Page, NEW k \in Key, open[p], NEW s \in SvcRec,
           s.refs = svc[p][k].refs + 1, s.state = "ready",
           svc[p][k].state = "ready" => s.inst = svc[p][k].inst,
           Service(p, k, s), open' = open,
           handles' = [handles EXCEPT ![p] =
             @ \cup {[id |-> made[p] + 1, key |-> k, inst |-> s.inst]}],
           made' = [made EXCEPT ![p] = @ + 1]
    PROVE  Hosting'
<1>1. PICK x : x = [id |-> made[p] + 1, key |-> k, inst |-> s.inst]
  OBVIOUS
<1>2. x \in HandleRec /\ x.id = made[p] + 1 /\ x.key = k /\ x.inst = s.inst
  BY <1>1, PageIs DEF HandleRec, SvcRec
<1>3. HostOK([svc[p] EXCEPT ![k] = s], handles[p] \cup {x}, made[p] + 1)
  BY <1>2, PageIs, HostJoins
<1>4. svc' = [svc EXCEPT ![p] = [svc[p] EXCEPT ![k] = s]]
  BY ServiceIs
<1>5. handles' = [handles EXCEPT ![p] = handles[p] \cup {x}] /\ made' = [made EXCEPT ![p] = made[p] + 1]
  BY <1>1
<1>6. PICK ss, hs, n : /\ ss = [svc[p] EXCEPT ![k] = s] /\ hs = handles[p] \cup {x}
                       /\ n = made[p] + 1
  OBVIOUS
<1>7. /\ HostOK(ss, hs, n) /\ svc' = [svc EXCEPT ![p] = ss]
      /\ handles' = [handles EXCEPT ![p] = hs] /\ made' = [made EXCEPT ![p] = n]
  BY <1>3, <1>4, <1>5, <1>6, Zenon
<1> QED BY <1>7, HostStep

(* A service that is not ready changes.                                    *)
LEMMA IdleHosts ==
    ASSUME Hosting, NEW p \in Page, NEW k \in Key, open[p], NEW s \in SvcRec,
           svc[p][k].state # "ready", s.state # "ready", s.refs = 0,
           Service(p, k, s), open' = open, handles' = handles,
           made' = made \/ made' = [made EXCEPT ![p] = @ + 1]
    PROVE  Hosting'
<1>1. PICK ss : ss = [svc[p] EXCEPT ![k] = s]
  OBVIOUS
<1>2. /\ ss \in [Key -> SvcRec]
      /\ \A j \in Key : \/ ss[j] = svc[p][j]
                        \/ svc[p][j].state # "ready" /\ ss[j].state # "ready" /\ ss[j].refs = 0
  BY <1>1, PageIs
<1>3. PICK n \in Nat : made' = [made EXCEPT ![p] = n] /\ made[p] <= n
  BY PageIs, SameHandles
<1>4. HostOK(ss, handles[p], n)
  BY <1>2, <1>3, PageIs, HostIdle
<1>5. svc' = [svc EXCEPT ![p] = ss] /\ handles' = [handles EXCEPT ![p] = handles[p]]
  BY <1>1, ServiceIs, SameHandles
<1> QED BY <1>3, <1>4, <1>5, HostStep

LEMMA JoinReadyHosts ==
    ASSUME Hosting, NEW p \in Page, NEW k \in Key, JoinReady(p, k)
    PROVE  Hosting'
<1>1. PICK s : s = [svc[p][k] EXCEPT !.refs = svc[p][k].refs + 1]
  OBVIOUS
<1>2. svc[p][k] \in SvcRec
  BY PageIs
<1>3. s \in SvcRec /\ s.refs = svc[p][k].refs + 1 /\ s.state = svc[p][k].state /\ s.inst = svc[p][k].inst
  BY <1>1, <1>2 DEF SvcRec
<1>4. /\ Service(p, k, s) /\ open[p] /\ open' = open /\ svc[p][k].state = "ready"
      /\ handles' = [handles EXCEPT ![p] =
             @ \cup {[id |-> made[p] + 1, key |-> k, inst |-> s.inst]}]
      /\ made' = [made EXCEPT ![p] = @ + 1]
  BY <1>1, <1>3 DEF JoinReady
<1> QED BY <1>3, <1>4, JoinHosts

LEMMA JoinInstantiatesHosts ==
    ASSUME Hosting, NEW p \in Page, NEW k \in Key, JoinInstantiates(p, k)
    PROVE  Hosting'
<1>1. PICK s : s = [state |-> "ready", refs |-> 1, inst |-> made[p] + 1]
  OBVIOUS
<1>2. s \in SvcRec /\ s.refs = 1 /\ s.state = "ready" /\ s.inst = made[p] + 1
  BY <1>1, PageIs DEF SvcRec, SvcStates
<1>3. /\ Service(p, k, s) /\ open[p] /\ open' = open /\ svc[p][k].state = "none"
      /\ handles' = [handles EXCEPT ![p] =
             @ \cup {[id |-> made[p] + 1, key |-> k, inst |-> s.inst]}]
      /\ made' = [made EXCEPT ![p] = @ + 1]
  BY <1>1, <1>2 DEF JoinInstantiates
<1>4. svc[p][k].refs = 0
  <2>1. CountedBy(svc[p][k], HandlesTo(handles[p], k))
    BY <1>3, PageIs DEF HostOK
  <2>2. HandlesTo(handles[p], k) = {} /\ Cardinality({}) = 0
    BY <1>3, <2>1, FS_EmptySet DEF CountedBy
  <2> QED BY <2>1, <2>2 DEF CountedBy
<1>5. s.refs = svc[p][k].refs + 1 /\ svc[p][k].state # "ready"
  BY <1>2, <1>3, <1>4
<1> QED BY <1>2, <1>3, <1>5, JoinHosts

LEMMA InStateIs ==
    ASSUME NEW state \in SvcStates
    PROVE  InState(state) \in SvcRec /\ InState(state).state = state /\ InState(state).refs = 0
BY DEF InState, NoSvc, SvcRec

LEMMA NoSvcIs == NoSvc \in SvcRec /\ NoSvc.state = "none" /\ NoSvc.refs = 0
BY DEF NoSvc, SvcRec, SvcStates

LEMMA WaitingHosts ==
    ASSUME Hosting, NEW p \in Page, NEW k \in Key,
           JoinFailed(p, k) \/ JoinPending(p, k) \/ JoinFetches(p, k)
    PROVE  Hosting'
<1>1. InState("pending") \in SvcRec /\ InState("pending").state # "ready" /\ InState("pending").refs = 0
  BY InStateIs DEF SvcStates
<1>2. PICK s \in {NoSvc, InState("pending")} :
        /\ Service(p, k, s) /\ open[p] /\ svc[p][k].state # "ready" /\ open' = open /\ handles' = handles
        /\ made' = made \/ made' = [made EXCEPT ![p] = @ + 1]
  BY DEF JoinFailed, JoinPending, JoinFetches, StartFetch
<1> QED BY <1>1, <1>2, NoSvcIs, IdleHosts

LEMMA PrefetchHosts ==
    ASSUME Hosting, NEW p \in Page, NEW h \in Hash, Prefetch(p, h)
    PROVE  Hosting'
<1>1. open[p] /\ open' = open /\ svc' = svc /\ handles' = handles /\ made' = [made EXCEPT ![p] = made[p] + 1]
  BY DEF Prefetch, StartFetch
<1>2. HostOK(svc[p], handles[p], made[p] + 1)
  BY <1>1, PageIs, HostIdle
<1> QED BY <1>1, <1>2, SameHandles, HostStep

LEMMA ReleaseHosts ==
    ASSUME Hosting, NEW p \in Page, NEW x \in handles[p], Release(p, x)
    PROVE  Hosting' /\ x.key \in Key /\ svc[p][x.key].state = "ready"
<1>1. x.key \in Key /\ open[p] /\ open' = open /\ made' = made /\ handles' = [handles EXCEPT ![p] = handles[p] \ {x}]
  BY PageIs DEF Release, HandleRec
<1>2. PICK t : t = svc[p][x.key] /\ t \in SvcRec
  BY <1>1, PageIs
<1>3. HostOK(svc[p], handles[p], made[p])
  BY <1>1, PageIs
<1>4. t.state = "ready"
  <2>1. CountedBy(svc[p][x.key], HandlesTo(handles[p], x.key)) /\ x \in HandlesTo(handles[p], x.key)
    BY <1>1, <1>3 DEF HostOK, HandlesTo
  <2> QED BY <1>2, <2>1 DEF CountedBy
<1>5. PICK s : s = IF t.refs <= 1 THEN NoSvc ELSE [t EXCEPT !.refs = t.refs - 1]
  OBVIOUS
<1>6. Service(p, x.key, s)
  <2>1. Service(p, x.key, IF t.state = "ready" /\ LastRef(t) THEN NoSvc
                             ELSE IF t.state = "ready" THEN [t EXCEPT !.refs = t.refs - 1]
                             ELSE t)
    BY <1>2 DEF Release
  <2> QED BY <1>4, <1>5, <2>1 DEF LastRef
<1>7. /\ s \in SvcRec
      /\ IF t.refs <= 1 THEN s = NoSvc
           ELSE s.state = "ready" /\ s.refs = t.refs - 1 /\ s.inst = t.inst
  <2>1. CASE t.refs <= 1
    BY <1>5, <2>1, NoSvcIs
  <2>2. CASE ~(t.refs <= 1)
    <3>1. t.refs - 1 \in Nat /\ s = [t EXCEPT !.refs = t.refs - 1]
      BY <1>2, <1>5, <2>2 DEF SvcRec
    <3> QED BY <1>2, <1>4, <2>2, <3>1 DEF SvcRec
  <2> QED BY <2>1, <2>2
<1>8. HostOK([svc[p] EXCEPT ![x.key] = s], handles[p] \ {x}, made[p])
  BY <1>2, <1>3, <1>7, HostReleases
<1>9. svc' = [svc EXCEPT ![p] = [svc[p] EXCEPT ![x.key] = s]] /\ made' = [made EXCEPT ![p] = made[p]]
  BY <1>1, <1>6, ServiceIs, SameHandles
<1>10. Hosting'
  BY <1>1, <1>8, <1>9, HostStep
<1> QED BY <1>1, <1>2, <1>4, <1>10

(* The fetch of a page that waits for it ends.                             *)
LEMMA SettleHosts ==
    ASSUME Hosting, NEW f, f.page \in Page, open[f.page], NEW s \in SvcRec,
           s.state # "ready", s.refs = 0, Settle(f, s), UNCHANGED <<open, handles, made>>
    PROVE  Hosting'
<1>1. PICK p \in Page : p = f.page
  OBVIOUS
<1>2. PICK t : t = svc[p]
  OBVIOUS
<1>3. PICK ss : ss = [k \in Key |-> IF k = f.for /\ t[k].state = "pending" THEN s ELSE t[k]]
  OBVIOUS
<1>4. svc' = [svc EXCEPT ![p] = ss]
  BY <1>1, <1>2, <1>3 DEF Settle
<1>5. t \in [Key -> SvcRec] /\ HostOK(t, handles[p], made[p]) /\ made[p] \in Nat
  BY <1>1, <1>2, PageIs
<1>6. /\ ss \in [Key -> SvcRec]
      /\ \A j \in Key : \/ ss[j] = t[j]
                        \/ t[j].state # "ready" /\ ss[j].state # "ready" /\ ss[j].refs = 0
  BY <1>3, <1>5
<1>7. HostOK(ss, handles[p], made[p])
  BY <1>5, <1>6, HostIdle
<1>8. handles' = [handles EXCEPT ![p] = handles[p]] /\ made' = [made EXCEPT ![p] = made[p]]
      /\ open' = open
  BY SameHandles
<1>9. PICK hs, n : hs = handles[p] /\ n = made[p]
  OBVIOUS
<1>10. /\ HostOK(ss, hs, n) /\ handles' = [handles EXCEPT ![p] = hs]
       /\ made' = [made EXCEPT ![p] = n] /\ open' = open
  BY <1>7, <1>8, <1>9, Zenon
<1> QED BY <1>4, <1>10, HostStep

LEMMA CloseHosts ==
    ASSUME Hosting, NEW p \in Page, Close(p)
    PROVE  Hosting'
<1>1. PICK none : none = [k \in Key |-> NoSvc]
  OBVIOUS
<1>2. HostOK(none, {}, made[p]) /\ none \in [Key -> SvcRec]
  BY <1>1, NoSvcIs, PageIs, HostNew
<1>3. /\ open' = [open EXCEPT ![p] = FALSE] /\ svc' = [svc EXCEPT ![p] = none]
      /\ handles' = [handles EXCEPT ![p] = {}] /\ made' = made
  BY <1>1 DEF Close
<1>4. /\ open' \in [Page -> BOOLEAN] /\ svc' \in [Page -> [Key -> SvcRec]]
      /\ handles' \in [Page -> SUBSET HandleRec] /\ made' \in [Page -> Nat]
  BY <1>2, <1>3 DEF Hosting
<1>5. ASSUME NEW q \in Page, open'[q] PROVE HostOK(svc'[q], handles'[q], made'[q])
  <2>1. q # p /\ open[q]
    BY <1>3, <1>5 DEF Hosting
  <2>2. svc'[q] = svc[q] /\ handles'[q] = handles[q] /\ made'[q] = made[q]
    BY <1>3, <2>1 DEF Hosting
  <2> QED BY <2>1, <2>2 DEF Hosting
<1> QED BY <1>4, <1>5 DEF Hosting

(* The modules a page fetches.                                             *)
FetchPcs == {"asked", "network", "compile"}
FetchRec == [page : Page, hash : Hash, for : Key \cup {None}, pc : FetchPcs, req : Nat]

FetchedBy(f, p, h) == f.page = p /\ f.hash = h

Fetching ==
    /\ cache \in [Page -> [Hash -> SvcStates]] /\ fetches \subseteq FetchRec
    /\ \A f \in fetches : open[f.page] /\ cache[f.page][f.hash] = "pending"
    /\ \A f, g \in fetches : f.page = g.page /\ f.hash = g.hash => f = g
    /\ \A p \in Page, h \in Hash :
         open[p] /\ cache[p][h] = "pending" => \E f \in fetches : FetchedBy(f, p, h)

LEMMA FetchingSame ==
    ASSUME Fetching, UNCHANGED <<open, cache, fetches>>
    PROVE  Fetching'
BY DEF Fetching

LEMMA CacheIs ==
    ASSUME cache \in [Page -> [Hash -> SvcStates]], NEW p \in Page, NEW h \in Hash,
           NEW state \in SvcStates, Cache(p, h, state)
    PROVE  /\ cache' \in [Page -> [Hash -> SvcStates]]
           /\ \A q \in Page, g \in Hash :
                cache'[q][g] = IF q = p /\ g = h THEN state ELSE cache[q][g]
BY DEF Cache

LEMMA StartFetches ==
    ASSUME Fetching, NEW p \in Page, NEW h \in Hash, NEW for \in Key \cup {None},
           cache[p][h] \in {"none", "failed"}, open[p], made[p] \in Nat, open' = open,
           StartFetch(p, h, for)
    PROVE  Fetching'
<1>1. PICK f : f = [page |-> p, hash |-> h, for |-> for, pc |-> "asked", req |-> made[p] + 1]
  OBVIOUS
<1>2. f \in FetchRec /\ f.page = p /\ f.hash = h
  BY <1>1 DEF FetchRec, FetchPcs
<1>3. fetches' = fetches \cup {f} /\ Cache(p, h, "pending")
  BY <1>1 DEF StartFetch
<1>4. /\ cache' \in [Page -> [Hash -> SvcStates]]
      /\ \A q \in Page, g \in Hash :
           cache'[q][g] = IF q = p /\ g = h THEN "pending" ELSE cache[q][g]
  BY <1>3, CacheIs DEF Fetching, SvcStates
<1>5. \A g \in fetches : /\ g.page \in Page /\ g.hash \in Hash /\ open[g.page]
                         /\ cache[g.page][g.hash] = "pending" /\ ~(g.page = p /\ g.hash = h)
  BY DEF Fetching, FetchRec
<1>6. \A g \in fetches' : open'[g.page] /\ cache'[g.page][g.hash] = "pending"
  BY <1>2, <1>3, <1>4, <1>5
<1>7. \A a, b \in fetches' : a.page = b.page /\ a.hash = b.hash => a = b
  BY <1>2, <1>3, <1>5 DEF Fetching
<1>8. ASSUME NEW q \in Page, NEW g \in Hash, open'[q], cache'[q][g] = "pending"
      PROVE  \E x \in fetches' : FetchedBy(x, q, g)
  <2>1. CASE q = p /\ g = h
    BY <1>2, <1>3, <2>1 DEF FetchedBy
  <2>2. CASE ~(q = p /\ g = h)
    <3>1. cache[q][g] = "pending"
      BY <1>4, <1>8, <2>2
    <3> QED BY <1>3, <1>8, <3>1 DEF Fetching
  <2> QED BY <2>1, <2>2
<1>9. fetches' \subseteq FetchRec
  BY <1>2, <1>3 DEF Fetching
<1> QED BY <1>4, <1>6, <1>7, <1>8, <1>9 DEF Fetching

LEMMA GoesOnFetching ==
    ASSUME Fetching, NEW f \in fetches, NEW pc \in FetchPcs, Becomes(f, pc),
           UNCHANGED <<open, cache>>
    PROVE  Fetching'
<1>1. PICK g : g = [f EXCEPT !.pc = pc]
  OBVIOUS
<1>2. f \in FetchRec
  BY DEF Fetching
<1>3. g \in FetchRec /\ g.page = f.page /\ g.hash = f.hash
  BY <1>1, <1>2 DEF FetchRec
<1>4. fetches' = (fetches \ {f}) \cup {g}
  BY <1>1 DEF Becomes
<1>5. \A x \in fetches' : open'[x.page] /\ cache'[x.page][x.hash] = "pending"
  BY <1>3, <1>4 DEF Fetching
<1>6. \A a, b \in fetches' : a.page = b.page /\ a.hash = b.hash => a = b
  <2>1. \A a \in fetches \ {f} : ~(a.page = g.page /\ a.hash = g.hash)
    BY <1>3 DEF Fetching
  <2>2. \A a, b \in fetches \ {f} : a.page = b.page /\ a.hash = b.hash => a = b
    BY DEF Fetching
  <2> QED BY <1>4, <2>1, <2>2
<1>7. ASSUME NEW q \in Page, NEW h \in Hash, open'[q], cache'[q][h] = "pending"
      PROVE  \E x \in fetches' : FetchedBy(x, q, h)
  <2>1. PICK x \in fetches : FetchedBy(x, q, h)
    BY <1>7 DEF Fetching
  <2>2. CASE x = f
    BY <1>3, <1>4, <2>1, <2>2 DEF FetchedBy
  <2>3. CASE x # f
    BY <1>4, <2>1, <2>3
  <2> QED BY <2>2, <2>3
<1>8. fetches' \subseteq FetchRec
  BY <1>3, <1>4 DEF Fetching
<1> QED BY <1>5, <1>6, <1>7, <1>8 DEF Fetching

LEMMA EndsFetching ==
    ASSUME Fetching, NEW f \in fetches, NEW state \in SvcStates, state # "pending",
           fetches' = fetches \ {f}, Cache(f.page, f.hash, state), open' = open
    PROVE  Fetching'
<1>1. f.page \in Page /\ f.hash \in Hash
  BY DEF Fetching, FetchRec
<1>2. /\ cache' \in [Page -> [Hash -> SvcStates]]
      /\ \A q \in Page, g \in Hash :
           cache'[q][g] = IF q = f.page /\ g = f.hash THEN state ELSE cache[q][g]
  BY <1>1, CacheIs DEF Fetching
<1>3. \A x \in fetches' : /\ x \in fetches /\ x.page \in Page /\ x.hash \in Hash
                          /\ ~(x.page = f.page /\ x.hash = f.hash)
  BY DEF Fetching, FetchRec
<1>4. \A x \in fetches' : open'[x.page] /\ cache'[x.page][x.hash] = "pending"
  BY <1>2, <1>3 DEF Fetching
<1>5. ASSUME NEW q \in Page, NEW h \in Hash, open'[q], cache'[q][h] = "pending"
      PROVE  \E x \in fetches' : FetchedBy(x, q, h)
  <2>1. ~(q = f.page /\ h = f.hash) /\ cache[q][h] = "pending"
    BY <1>2, <1>5
  <2>2. PICK x \in fetches : FetchedBy(x, q, h)
    BY <1>5, <2>1 DEF Fetching
  <2>3. x # f
    BY <2>1, <2>2 DEF FetchedBy
  <2> QED BY <2>2, <2>3
<1> QED BY <1>2, <1>3, <1>4, <1>5 DEF Fetching

LEMMA CloseFetches ==
    ASSUME Fetching, open \in [Page -> BOOLEAN], NEW p \in Page, Close(p)
    PROVE  Fetching'
<1>1. /\ open' = [open EXCEPT ![p] = FALSE] /\ cache' = cache
      /\ fetches' = {f \in fetches : f.page # p}
  BY DEF Close
<1>2. \A q \in Page : open'[q] <=> (open[q] /\ q # p)
  BY <1>1
<1>3. \A f \in fetches' : f \in fetches /\ f.page \in Page /\ f.page # p
  BY <1>1 DEF Fetching, FetchRec
<1>4. \A f \in fetches' : open'[f.page] /\ cache'[f.page][f.hash] = "pending"
  BY <1>1, <1>2, <1>3 DEF Fetching
<1>5. ASSUME NEW q \in Page, NEW h \in Hash, open'[q], cache'[q][h] = "pending"
      PROVE  \E x \in fetches' : FetchedBy(x, q, h)
  <2>1. PICK x \in fetches : FetchedBy(x, q, h)
    BY <1>1, <1>2, <1>5 DEF Fetching
  <2> QED BY <1>1, <1>2, <1>5, <2>1 DEF FetchedBy
<1> QED BY <1>1, <1>3, <1>4, <1>5 DEF Fetching

-----------------------------------------------------------------------------
(* What a page says to the worker, and the worker's part of its steps.     *)

Saying ==
    /\ beat \in [Page -> BOOLEAN] /\ out \in [Page -> Seq(Messages)]
    /\ orphans \subseteq Page \X Key

LEMMA SayingSame ==
    ASSUME Saying, UNCHANGED <<beat, out, orphans>>
    PROVE  Saying'
BY DEF Saying

LEMMA Posts ==
    ASSUME Saying, NEW p \in Page, NEW m \in Messages, Post(p, m),
           beat' \in [Page -> BOOLEAN], orphans' \subseteq Page \X Key
    PROVE  Saying'
<1>1. out[p] \in Seq(Messages)
  BY DEF Saying
<1>2. PICK q : q = Append(out[p], m) /\ q \in Seq(Messages)
  <2>1. Append(out[p], m) \in Seq(Messages)
    BY <1>1
  <2> QED BY <2>1
<1>3. out' = [out EXCEPT ![p] = q]
  BY <1>2 DEF Post
<1> QED BY <1>2, <1>3 DEF Saying

LEMMA MessageIs ==
    /\ \A k \in Key, type \in {"announce", "withdraw"} : Message(type, k) \in Messages
    /\ \A h \in Hash, type \in {"fetch", "store"} : Message(type, h) \in Messages
    /\ \A h \in Hash, n \in Nat : [Message("fetch", h) EXCEPT !.req = n] \in Messages
BY DEF Message, Messages

(* One beat announces what is ready, in some order.                        *)
LEMMA BeatSays ==
    ASSUME Saying, NEW p \in Page, open[p], HostOK(svc[p], handles[p], made[p]), Beat(p)
    PROVE  Saying'
<1>1. CASE Ready(p) = {}
  BY <1>1 DEF Beat, Saying
<1>2. CASE Ready(p) # {}
  <2>1. IsFiniteSet(Ready(p))
    <3>1. PICK hs : hs = handles[p] /\ IsFiniteSet(hs) /\ hs \subseteq HandleRec
      BY DEF HostOK
    <3>2. PICK T : T = {x.key : x \in hs}
      OBVIOUS
    <3>3. PICK f : f = [x \in hs |-> x.key]
      OBVIOUS
    <3>4. f \in Surjection(hs, T)
      BY <3>2, <3>3 DEF Surjection
    <3>5. IsFiniteSet(T)
      BY <3>1, <3>4, FS_Surjection
    <3>6. Ready(p) \subseteq T
      <4> SUFFICES ASSUME NEW k \in Ready(p) PROVE k \in T
        OBVIOUS
      <4>1. k \in Key /\ svc[p][k].state = "ready"
        BY DEF Ready
      <4>2. HandlesTo(hs, k) # {}
        BY <3>1, <4>1 DEF HostOK, CountedBy
      <4> QED BY <3>2, <4>2 DEF HandlesTo
    <3> QED BY <3>5, <3>6, FS_Subset
  <2>2. Cardinality(Ready(p)) \in Nat
    BY <2>1, FS_CardinalityType
  <2>3. PICK q \in Beats(p) : out' = [out EXCEPT ![p] = q]
    BY <1>2 DEF Beat
  <2>4. q \in Seq(Messages)
    <3>1. PICK n \in Nat : n = Cardinality(Ready(p))
      BY <2>2
    <3>2. {Message("announce", k) : k \in Ready(p)} \subseteq Messages
      BY MessageIs DEF Ready
    <3>3. q \in [1 .. n -> Messages]
      BY <2>3, <3>1, <3>2 DEF Beats
    <3> QED BY <3>3
  <2> QED BY <1>2, <2>3, <2>4 DEF Beat, Saying
<1> QED BY <1>1, <1>2

(* A step of a page that may answer less and spend.                        *)
LEMMA WorkerLeft ==
    ASSUME WorkerInv, UNCHANGED workerOnly, row' = row, answers' \subseteq answers,
           left' \in [Kinds -> Nat]
    PROVE  WorkerInv'
<1>1. CallsTyped /\ MarksOK /\ StoreTypes
  BY DEF WorkerInv
<1>2. CallsTyped' /\ MarksOK'
  BY <1>1, CallsSame DEF workerOnly
<1>3. StoreTypes'
  BY <1>1 DEF StoreTypes, workerOnly, dbVars
<1>4. UNCHANGED mapsHeld
  BY DEF mapsHeld, workerOnly
<1> QED BY <1>2, <1>3, <1>4, CallKept

LEMMA WorkerSame ==
    ASSUME WorkerInv, UNCHANGED workerVars
    PROVE  WorkerInv'
<1>1. left \in [Kinds -> Nat]
  BY DEF WorkerInv, StoreTypes
<1>2. UNCHANGED workerOnly /\ row' = row /\ answers' \subseteq answers /\ left' \in [Kinds -> Nat]
  BY <1>1 DEF workerVars, workerOnly, dbVars, mapVars, holdVars
<1> QED BY <1>2, WorkerLeft

LEMMA WorkerSpends ==
    ASSUME WorkerInv, NEW kind \in Kinds, Spend(kind), UNCHANGED <<workerOnly, answers, row>>
    PROVE  WorkerInv'
<1>1. left' \in [Kinds -> Nat]
  BY SpendTypes DEF WorkerInv, StoreTypes
<1> QED BY <1>1, WorkerLeft

(* The dispatcher: a handler begins, or a row is set.                      *)
LEMMA ReceiveKeeps ==
    ASSUME WorkerInv, Saying, NEW p \in Page, Receive(p)
    PROVE  WorkerInv' /\ Saying'
<1>1. out[p] \in Seq(Messages) /\ out[p] # << >>
  BY DEF Saying, Receive
<1>2. PICK m : m = Head(out[p]) /\ m \in Messages
  <2>1. Head(out[p]) \in Messages
    BY <1>1
  <2> QED BY <2>1
<1>3. Saying'
  <2>1. PICK q : q = Tail(out[p]) /\ q \in Seq(Messages)
    <3>1. Tail(out[p]) \in Seq(Messages)
      BY <1>1
    <3> QED BY <3>1
  <2>2. out' = [out EXCEPT ![p] = q] /\ beat' = beat /\ orphans' = orphans
    BY <2>1 DEF Receive
  <2> QED BY <2>1, <2>2 DEF Saying
<1>4. CallsTyped /\ MarksOK /\ StoreTypes
  BY DEF WorkerInv
<1>5. UNCHANGED <<dbVars, answers, mapVars, instantiating, holdVars, epoch, left>>
  BY DEF Receive
<1>6. UNCHANGED mapsHeld
  BY <1>5 DEF mapsHeld
<1>7. ASSUME row' = row, NEW x, CallOK(x), Begin(x)
      PROVE  WorkerInv'
  <2>1. PICK c \in Call : CallBecomes(c, x) /\ calls[c].pc = "idle"
    BY <1>7, BeginBecomes
  <2>2. ~(calls[c].pc \in {"compile", "init"})
    BY <2>1
  <2>3. CallsTyped' /\ MarksOK'
    BY <1>4, <1>5, <2>1, <2>2, CallsStep, MarksStep
  <2>4. StoreTypes'
    BY <1>4, <1>5, <1>7 DEF StoreTypes, dbVars
  <2> QED BY <1>6, <2>3, <2>4, CallKept
<1>8. PICK call : call = [Idle EXCEPT !.page = p, !.hash = m.of, !.req = m.req]
  OBVIOUS
<1>9. \/ /\ m.type = "fetch" /\ row' = row
         /\ Begin([call EXCEPT !.what = "fetch", !.pc = "read"])
      \/ /\ m.type = "store" /\ row' = row
         /\ Begin([call EXCEPT !.what = "store", !.pc = "look"])
      \/ m.type = "announce" /\ Announce(m.of) /\ calls' = calls
      \/ m.type = "withdraw" /\ Withdraw(m.of) /\ calls' = calls
  BY <1>2, <1>8 DEF Receive
<1>10. m.type \in {"fetch", "store"} => m.of \in Hash /\ m.req \in Nat
  BY <1>2 DEF Messages
<1>11. m.type \in {"announce", "withdraw"} => m.of \in Key
  BY <1>2 DEF Messages
<1>12. CASE /\ m.type = "fetch" /\ row' = row
            /\ Begin([call EXCEPT !.what = "fetch", !.pc = "read"])
  <2>1. PICK x : x = [call EXCEPT !.what = "fetch", !.pc = "read"]
    OBVIOUS
  <2>2. x = [pc |-> "read", what |-> "fetch", page |-> p, hash |-> m.of, key |-> None, req |-> m.req]
    BY <1>8, <2>1 DEF Idle
  <2>3. CallOK(x)
    <3>1. x \in CallRec /\ x.pc = "read" /\ x.what = "fetch" /\ x.page = p /\ x.hash = m.of
      BY <1>10, <1>12, <2>2 DEF CallRec
    <3> QED BY <1>10, <1>12, <3>1 DEF CallOK
  <2>4. Begin(x)
    BY <1>12, <2>1, Zenon
  <2> QED BY <1>3, <1>7, <1>12, <2>3, <2>4
<1>13. CASE /\ m.type = "store" /\ row' = row
            /\ Begin([call EXCEPT !.what = "store", !.pc = "look"])
  <2>1. PICK x : x = [call EXCEPT !.what = "store", !.pc = "look"]
    OBVIOUS
  <2>2. x = [pc |-> "look", what |-> "store", page |-> p, hash |-> m.of, key |-> None, req |-> m.req]
    BY <1>8, <2>1 DEF Idle
  <2>3. CallOK(x)
    <3>1. x \in CallRec /\ x.pc = "look" /\ x.what = "store" /\ x.page = p /\ x.hash = m.of
      BY <1>10, <1>13, <2>2 DEF CallRec
    <3> QED BY <1>10, <1>13, <3>1 DEF CallOK
  <2>4. Begin(x)
    BY <1>13, <2>1, Zenon
  <2> QED BY <1>3, <1>7, <1>13, <2>3, <2>4
<1>14. ASSUME m.type \in {"announce", "withdraw"}, Announce(m.of) \/ Withdraw(m.of), calls' = calls
       PROVE  WorkerInv'
  <2>1. row' \in [Key -> {"none", "fresh", "stale"}]
    BY <1>4, <1>11, <1>14 DEF Announce, Withdraw, StoreTypes
  <2> QED BY <1>5, <1>14, <2>1, RowsKeep
<1> QED BY <1>3, <1>9, <1>12, <1>13, <1>14

-----------------------------------------------------------------------------
(* Linking, all of it.                                                     *)

LinkInv == WorkerInv /\ Hosting /\ Fetching /\ Saying

LEMMA LinkKept ==
    ASSUME WorkerInv', Hosting', Fetching', Saying'
    PROVE  LinkInv'
BY DEF LinkInv

(* The joins of a page, and its prefetches.                                *)
LEMMA JoinsKeep ==
    ASSUME LinkInv, NEW p \in Page, NEW k \in Key,
           JoinReady(p, k) \/ JoinInstantiates(p, k) \/ JoinPending(p, k) \/ JoinFailed(p, k)
    PROVE  LinkInv'
<1>1. WorkerInv /\ Hosting /\ Fetching /\ Saying
  BY DEF LinkInv
<1>2. Hosting'
  BY <1>1, JoinReadyHosts, JoinInstantiatesHosts, WaitingHosts
<1>3. Fetching'
  BY <1>1, FetchingSame DEF JoinReady, JoinInstantiates, JoinPending, JoinFailed
<1>4. WorkerInv'
  <2>1. CASE JoinFailed(p, k)
    BY <1>1, <2>1, WorkerSame DEF JoinFailed
  <2>2. CASE JoinReady(p, k) \/ JoinInstantiates(p, k) \/ JoinPending(p, k)
    <3>1. "join" \in Kinds /\ Spend("join") /\ UNCHANGED <<workerOnly, answers, row>>
      BY <2>2 DEF JoinReady, JoinInstantiates, JoinPending, Kinds
    <3> QED BY <1>1, <3>1, WorkerSpends
  <2> QED BY <2>1, <2>2
<1>5. Saying'
  <2>1. CASE JoinReady(p, k) \/ JoinInstantiates(p, k)
    <3>1. /\ Post(p, Message("announce", k)) /\ beat' \in [Page -> BOOLEAN] /\ orphans' = orphans
      BY <1>1, <2>1 DEF JoinReady, JoinInstantiates, Saying
    <3>2. PICK m \in Messages : m = Message("announce", k)
      BY MessageIs
    <3>3. orphans' \subseteq Page \X Key
      BY <1>1, <3>1 DEF Saying
    <3> QED BY <1>1, <3>1, <3>2, <3>3, Posts
  <2>2. CASE JoinPending(p, k)
    BY <1>1, <2>2 DEF JoinPending, Saying
  <2>3. CASE JoinFailed(p, k)
    BY <1>1, <2>3, SayingSame DEF JoinFailed
  <2> QED BY <2>1, <2>2, <2>3
<1> QED BY <1>2, <1>3, <1>4, <1>5, LinkKept

LEMMA FetchesBegin ==
    ASSUME LinkInv, NEW p \in Page, NEW h \in Hash, NEW for \in Key \cup {None}, Hosting',
           StartFetch(p, h, for), open[p], cache[p][h] \in {"none", "failed"},
           UNCHANGED <<workerOnly, answers, row, open, beat, orphans>>
    PROVE  LinkInv'
<1>1. WorkerInv /\ Hosting /\ Fetching /\ Saying /\ made[p] \in Nat
  BY DEF LinkInv, Hosting
<1>2. Fetching'
  BY <1>1, StartFetches
<1>3. WorkerInv'
  <2>1. "fetch" \in Kinds /\ Spend("fetch")
    BY DEF StartFetch, Kinds
  <2> QED BY <1>1, <2>1, WorkerSpends
<1>4. Saying'
  <2>1. PICK n \in Nat : n = made[p] + 1
    BY <1>1
  <2>2. PICK m \in Messages : m = [Message("fetch", h) EXCEPT !.req = n]
    BY MessageIs
  <2>3. Post(p, m)
    BY <2>1, <2>2, Zenon DEF StartFetch
  <2>4. beat' \in [Page -> BOOLEAN] /\ orphans' \subseteq Page \X Key
    BY <1>1 DEF Saying
  <2> QED BY <1>1, <2>3, <2>4, Posts
<1> QED BY <1>2, <1>3, <1>4, LinkKept

LEMMA FetchStartsKeep ==
    ASSUME LinkInv, NEW p \in Page,
           (\E k \in Key : JoinFetches(p, k)) \/ (\E h \in Hash : Prefetch(p, h))
    PROVE  LinkInv'
<1>1. Hosting
  BY DEF LinkInv
<1>2. ASSUME NEW k \in Key, JoinFetches(p, k) PROVE LinkInv'
  <2>1. HashOf[k] \in Hash
    BY WorkerAssumption
  <2>2. Hosting'
    BY <1>1, <1>2, WaitingHosts
  <2>3. /\ StartFetch(p, HashOf[k], k) /\ open[p] /\ cache[p][HashOf[k]] \in {"none", "failed"}
        /\ UNCHANGED <<workerOnly, answers, row, open, beat, orphans>>
    BY <1>2 DEF JoinFetches
  <2>4. PICK h \in Hash : h = HashOf[k]
    BY <2>1
  <2>5. PICK for \in Key \cup {None} : for = k
    OBVIOUS
  <2>6. StartFetch(p, h, for) /\ cache[p][h] \in {"none", "failed"}
    BY <2>3, <2>4, <2>5, Zenon
  <2> QED BY <2>2, <2>3, <2>6, FetchesBegin
<1>3. ASSUME NEW h \in Hash, Prefetch(p, h) PROVE LinkInv'
  <2>1. Hosting'
    BY <1>1, <1>3, PrefetchHosts
  <2>2. /\ StartFetch(p, h, None) /\ open[p] /\ cache[p][h] \in {"none", "failed"}
        /\ UNCHANGED <<workerOnly, answers, row, open, beat, orphans>>
    BY <1>3 DEF Prefetch
  <2>3. None \in Key \cup {None}
    OBVIOUS
  <2> QED BY <2>1, <2>2, <2>3, FetchesBegin
<1> QED BY <1>2, <1>3

LEMMA ReleaseKeeps ==
    ASSUME LinkInv, NEW p \in Page, NEW x \in handles[p], Release(p, x)
    PROVE  LinkInv'
<1>1. WorkerInv /\ Hosting /\ Fetching /\ Saying
  BY DEF LinkInv
<1>2. Hosting' /\ x.key \in Key
  BY <1>1, ReleaseHosts
<1>3. UNCHANGED <<workerVars, open, cache, fetches, beat, orphans>>
  BY DEF Release
<1>4. WorkerInv' /\ Fetching'
  BY <1>1, <1>3, WorkerSame, FetchingSame
<1>5. Saying'
  <2>1. CASE Post(p, Message("withdraw", x.key))
    <3>1. PICK m \in Messages : m = Message("withdraw", x.key)
      BY <1>2, MessageIs
    <3>2. beat' \in [Page -> BOOLEAN] /\ orphans' \subseteq Page \X Key /\ Post(p, m)
      BY <1>1, <1>3, <2>1, <3>1 DEF Saying
    <3> QED BY <1>1, <3>2, Posts
  <2>2. CASE UNCHANGED out
    BY <1>1, <1>3, <2>2, SayingSame
  <2>3. Post(p, Message("withdraw", x.key)) \/ UNCHANGED out
    BY DEF Release
  <2> QED BY <2>1, <2>2, <2>3
<1> QED BY <1>2, <1>4, <1>5, LinkKept

(* A fetch fails: its module and the join that waits for it.               *)
LEMMA FailsKeeps ==
    ASSUME Hosting, Fetching, NEW f \in fetches, Fails(f), UNCHANGED <<open, handles, made>>
    PROVE  Hosting' /\ Fetching'
<1>1. f.page \in Page /\ open[f.page]
  BY DEF Fetching, FetchRec
<1>2. PICK s \in SvcRec : s = InState("failed") /\ s.state # "ready" /\ s.refs = 0
  BY InStateIs DEF SvcStates
<1>3. Settle(f, s) /\ fetches' = fetches \ {f} /\ Cache(f.page, f.hash, "failed")
  BY <1>2 DEF Fails
<1>4. Hosting'
  BY <1>1, <1>2, <1>3, SettleHosts
<1>5. "failed" \in SvcStates
  BY DEF SvcStates
<1>6. Fetching'
  BY <1>3, <1>5, EndsFetching
<1> QED BY <1>4, <1>6

LEMMA FetchStepKeeps ==
    ASSUME LinkInv, FetchStep
    PROVE  LinkInv'
<1>1. WorkerInv /\ Hosting /\ Fetching /\ Saying
  BY DEF LinkInv
<1>2. PICK f \in fetches : TimesOut(f) \/ Network(f) \/ Compiled(f)
  BY DEF FetchStep
<1>3. /\ f.page \in Page /\ f.hash \in Hash /\ open[f.page]
      /\ {"network", "compile"} \subseteq FetchPcs
  BY <1>1 DEF Fetching, FetchRec, FetchPcs
<1>4. UNCHANGED <<workerVars, open, handles, beat, made, orphans>>
  BY <1>2 DEF TimesOut, Network, Compiled
<1>5. WorkerInv'
  BY <1>1, <1>4, WorkerSame
<1>6. CASE TimesOut(f)
  <2>1. Becomes(f, "network") /\ UNCHANGED <<open, cache, svc, out>>
    BY <1>6 DEF TimesOut
  <2>2. Fetching'
    BY <1>1, <1>3, <2>1, GoesOnFetching
  <2>3. Hosting' /\ Saying'
    BY <1>1, <1>4, <2>1, HostingSame, SayingSame
  <2> QED BY <1>5, <2>2, <2>3, LinkKept
<1>7. CASE Network(f)
  <2>1. CASE Becomes(f, "compile") /\ Post(f.page, Message("store", f.hash)) /\ UNCHANGED <<cache, svc>>
    <3>1. Fetching'
      BY <1>1, <1>3, <1>4, <2>1, GoesOnFetching
    <3>2. Hosting'
      BY <1>1, <1>4, <2>1, HostingSame
    <3>3. Saying'
      <4>1. PICK m \in Messages : m = Message("store", f.hash)
        BY <1>3, MessageIs
      <4>2. beat' \in [Page -> BOOLEAN] /\ orphans' \subseteq Page \X Key /\ Post(f.page, m)
        BY <1>1, <1>4, <2>1, <4>1 DEF Saying
      <4> QED BY <1>1, <1>3, <4>2, Posts
    <3> QED BY <1>5, <3>1, <3>2, <3>3, LinkKept
  <2>2. CASE Fails(f) /\ UNCHANGED out
    <3>1. Hosting' /\ Fetching'
      BY <1>1, <1>4, <2>2, FailsKeeps
    <3>2. Saying'
      BY <1>1, <1>4, <2>2, SayingSame
    <3> QED BY <1>5, <3>1, <3>2, LinkKept
  <2> QED BY <1>7, <2>1, <2>2 DEF Network
<1>8. CASE Compiled(f)
  <2>1. Saying'
    BY <1>1, <1>4, <1>8, SayingSame DEF Compiled
  <2>2. CASE /\ fetches' = fetches \ {f} /\ Cache(f.page, f.hash, "ready") /\ Settle(f, NoSvc)
    <3>1. "ready" \in SvcStates
      BY DEF SvcStates
    <3>2. Fetching'
      BY <1>1, <1>4, <2>2, <3>1, EndsFetching
    <3>3. Hosting'
      BY <1>1, <1>3, <1>4, <2>2, NoSvcIs, SettleHosts
    <3> QED BY <1>5, <2>1, <3>2, <3>3, LinkKept
  <2>3. CASE Fails(f)
    <3>1. Hosting' /\ Fetching'
      BY <1>1, <1>4, <2>3, FailsKeeps
    <3> QED BY <1>5, <2>1, <3>1, LinkKept
  <2> QED BY <1>8, <2>2, <2>3 DEF Compiled
<1> QED BY <1>2, <1>6, <1>7, <1>8

LEMMA ReplyKeeps ==
    ASSUME LinkInv, NEW a \in answers, Reply(a)
    PROVE  LinkInv'
<1>1. WorkerInv /\ Hosting /\ Fetching /\ Saying
  BY DEF LinkInv
<1>2. /\ answers' = answers \ {a} /\ UNCHANGED <<workerOnly, row, left>>
      /\ UNCHANGED <<open, handles, beat, out, made, orphans>>
  BY DEF Reply
<1>3. WorkerInv'
  <2>1. left' \in [Kinds -> Nat] /\ answers' \subseteq answers
    BY <1>1, <1>2 DEF WorkerInv, StoreTypes
  <2> QED BY <1>1, <1>2, <2>1, WorkerLeft
<1>4. Saying'
  BY <1>1, <1>2, SayingSame
<1>5. a.result \in {"hit", "miss", "error"}
  BY <1>1 DEF WorkerInv, StoreTypes
<1>6. CASE UNCHANGED <<cache, svc, fetches>>
  <2>1. Hosting' /\ Fetching'
    BY <1>1, <1>2, <1>6, HostingSame, FetchingSame
  <2> QED BY <1>3, <1>4, <2>1, LinkKept
<1>7. ASSUME NEW f \in fetches, NEW pc \in {"compile", "network"}, Becomes(f, pc), UNCHANGED <<cache, svc>>
      PROVE  LinkInv'
  <2>1. pc \in FetchPcs
    BY DEF FetchPcs
  <2>2. Fetching'
    BY <1>1, <1>2, <1>7, <2>1, GoesOnFetching
  <2>3. Hosting'
    BY <1>1, <1>2, <1>7, HostingSame
  <2> QED BY <1>3, <1>4, <2>2, <2>3, LinkKept
<1>8. ASSUME NEW f \in fetches, Fails(f) PROVE LinkInv'
  <2>1. Hosting' /\ Fetching'
    BY <1>1, <1>2, <1>8, FailsKeeps
  <2> QED BY <1>3, <1>4, <2>1, LinkKept
<1>9. \/ UNCHANGED <<cache, svc, fetches>>
      \/ \E f \in fetches : \/ Becomes(f, "compile") /\ UNCHANGED <<cache, svc>>
                            \/ Becomes(f, "network") /\ UNCHANGED <<cache, svc>>
                            \/ Fails(f)
  BY <1>5 DEF Reply
<1> QED BY <1>6, <1>7, <1>8, <1>9

(* A module handle leaves the table and is still counted.                  *)
LEMMA ClosesHandleKeeps ==
    ASSUME LinkInv, NEW p \in Page, NEW x \in handles[p], ClosesHandle(p, x)
    PROVE  LinkInv'
<1>1. WorkerInv /\ Hosting /\ Fetching /\ Saying
  BY DEF LinkInv
<1>2. /\ "fclose" \in Kinds /\ Spend("fclose") /\ UNCHANGED <<workerOnly, answers, row>>
      /\ UNCHANGED <<open, cache, svc, handles, fetches, beat, out, made, orphans>>
  BY DEF ClosesHandle, Kinds
<1>3. WorkerInv'
  BY <1>1, <1>2, WorkerSpends
<1> QED BY <1>1, <1>2, <1>3, HostingSame, FetchingSame, SayingSame, LinkKept

LEMMA PageEndsKeep ==
    ASSUME LinkInv, NEW p \in Page, Beat(p) \/ Receive(p) \/ Close(p)
    PROVE  LinkInv'
<1>1. WorkerInv /\ Hosting /\ Fetching /\ Saying
  BY DEF LinkInv
<1>2. CASE Beat(p)
  <2>1. UNCHANGED <<workerVars, open, cache, svc, handles, fetches, made, orphans>> /\ open[p]
    BY <1>2 DEF Beat
  <2>2. Saying'
    BY <1>1, <1>2, <2>1, PageIs, BeatSays
  <2> QED BY <1>1, <2>1, <2>2, WorkerSame, HostingSame, FetchingSame, LinkKept
<1>3. CASE Receive(p)
  <2>1. UNCHANGED <<open, cache, svc, handles, fetches, made>>
    BY <1>3 DEF Receive
  <2> QED BY <1>1, <1>3, <2>1, ReceiveKeeps, HostingSame, FetchingSame, LinkKept
<1>4. CASE Close(p)
  <2>1. Hosting' /\ Fetching'
    BY <1>1, <1>4, CloseHosts, CloseFetches DEF Hosting
  <2>2. "close" \in Kinds /\ Spend("close") /\ UNCHANGED <<workerOnly, answers, row>>
    BY <1>4 DEF Close, Kinds
  <2>3. WorkerInv'
    BY <1>1, <2>2, WorkerSpends
  <2>4. Saying'
    BY <1>1, <1>4 DEF Close, Saying
  <2> QED BY <2>1, <2>3, <2>4, LinkKept
<1> QED BY <1>2, <1>3, <1>4

LEMMA LinkStepKeeps ==
    ASSUME LinkInv, LinkStep
    PROVE  LinkInv'
<1>1. CASE WorkerStep /\ UNCHANGED pageVars
  <2>1. UNCHANGED <<open, cache, svc, handles, fetches, beat, out, made, orphans>>
    BY <1>1 DEF pageVars
  <2> QED BY <1>1, <2>1, WorkerStepKeeps, HostingSame, FetchingSame, SayingSame DEF LinkInv
<1>2. CASE PageStep
  <2>1. ASSUME NEW p \in Page, NEW k \in Key,
               JoinReady(p, k) \/ JoinFailed(p, k) \/ JoinInstantiates(p, k)
               \/ JoinPending(p, k) \/ JoinFetches(p, k)
        PROVE  LinkInv'
    BY <2>1, JoinsKeep, FetchStartsKeep
  <2>2. ASSUME NEW p \in Page, NEW h \in Hash, Prefetch(p, h) PROVE LinkInv'
    BY <2>2, FetchStartsKeep
  <2>3. ASSUME NEW p \in Page, NEW x \in handles[p], Release(p, x) PROVE LinkInv'
    BY <2>3, ReleaseKeeps
  <2>4. ASSUME NEW p \in Page, Beat(p) \/ Receive(p) \/ Close(p) PROVE LinkInv'
    BY <2>4, PageEndsKeep
  <2>5. ASSUME NEW a \in answers, Reply(a) PROVE LinkInv'
    BY <2>5, ReplyKeeps
  <2>6. CASE FetchStep
    BY <2>6, FetchStepKeeps
  <2>7. ASSUME NEW p \in Page, NEW x \in handles[p], ClosesHandle(p, x) PROVE LinkInv'
    BY <2>7, ClosesHandleKeeps
  <2> QED BY <1>2, <2>1, <2>2, <2>3, <2>4, <2>5, <2>6, <2>7, Zenon DEF PageStep
<1> QED BY <1>1, <1>2 DEF LinkStep

(* The handles that left the table are handles that were not released.     *)
ClosedHandles == closed \in [Page -> SUBSET HandleRec] /\ \A p \in Page : closed[p] \subseteq handles[p]

LEMMA ClosedKept ==
    ASSUME Hosting, ClosedHandles, LinkStep
    PROVE  ClosedHandles'
<1>1. handles \in [Page -> SUBSET HandleRec] /\ closed \in [Page -> SUBSET HandleRec]
  BY DEF Hosting, ClosedHandles
<1>2. CASE UNCHANGED <<handles, closed>>
  BY <1>2 DEF ClosedHandles
<1>3. ASSUME NEW p \in Page, NEW x, closed' = closed,
             handles' = [handles EXCEPT ![p] = @ \cup {x}]
      PROVE  ClosedHandles'
  BY <1>1, <1>3 DEF ClosedHandles
<1>4. ASSUME NEW p \in Page, NEW x \in handles[p], Release(p, x) PROVE ClosedHandles'
  <2>1. x \notin closed[p] /\ closed' = closed /\ handles' = [handles EXCEPT ![p] = @ \ {x}]
    BY <1>4 DEF Release
  <2> QED BY <1>1, <2>1 DEF ClosedHandles
<1>5. ASSUME NEW p \in Page, NEW x \in handles[p], ClosesHandle(p, x) PROVE ClosedHandles'
  <2>1. x \in HandleRec /\ handles' = handles /\ closed' = [closed EXCEPT ![p] = @ \cup {x}]
    BY <1>1, <1>5 DEF ClosesHandle
  <2> QED BY <1>1, <2>1 DEF ClosedHandles
<1>6. ASSUME NEW p \in Page, Close(p) PROVE ClosedHandles'
  <2>1. closed' = [closed EXCEPT ![p] = {}] /\ handles' = [handles EXCEPT ![p] = {}]
    BY <1>6 DEF Close
  <2> QED BY <1>1, <2>1 DEF ClosedHandles
<1>7. ASSUME NEW p \in Page, NEW k \in Key,
             JoinReady(p, k) \/ JoinFailed(p, k) \/ JoinInstantiates(p, k)
             \/ JoinPending(p, k) \/ JoinFetches(p, k)
      PROVE  ClosedHandles'
  <2>1. CASE JoinReady(p, k) \/ JoinInstantiates(p, k)
    <3>1. closed' = closed /\ \E x : handles' = [handles EXCEPT ![p] = @ \cup {x}]
      BY <2>1 DEF JoinReady, JoinInstantiates
    <3> QED BY <3>1, <1>3
  <2>2. CASE JoinFailed(p, k) \/ JoinPending(p, k) \/ JoinFetches(p, k)
    BY <1>2, <2>2 DEF JoinFailed, JoinPending, JoinFetches
  <2> QED BY <1>7, <2>1, <2>2
<1>8. ASSUME NEW p \in Page, Beat(p) \/ Receive(p) \/ \E h \in Hash : Prefetch(p, h)
      PROVE  ClosedHandles'
  BY <1>2, <1>8 DEF Beat, Receive, Prefetch
<1>9. ASSUME NEW a \in answers, Reply(a) PROVE ClosedHandles'
  BY <1>2, <1>9 DEF Reply
<1>10. CASE FetchStep
  BY <1>2, <1>10 DEF FetchStep, TimesOut, Network, Compiled
<1>11. CASE WorkerStep /\ UNCHANGED pageVars
  BY <1>2, <1>11 DEF pageVars
<1> QED BY <1>4, <1>5, <1>6, <1>7, <1>8, <1>9, <1>10, <1>11, Zenon DEF LinkStep, PageStep

LEMMA LinkInitKeeps ==
    ASSUME LinkInit
    PROVE  LinkInv
<1>1. WorkerInv
  BY WorkerInitKeeps DEF LinkInit
<1>2. Hosting
  <2>1. /\ open = [p \in Page |-> TRUE] /\ svc = [p \in Page |-> [k \in Key |-> NoSvc]]
        /\ handles = [p \in Page |-> {}] /\ made = [p \in Page |-> 0]
    BY DEF LinkInit
  <2>2. PICK ss : ss = [k \in Key |-> NoSvc] /\ ss \in [Key -> SvcRec]
    <3>1. [k \in Key |-> NoSvc] \in [Key -> SvcRec]
      BY NoSvcIs
    <3> QED BY <3>1
  <2>3. HostOK(ss, {}, 0)
    BY <2>2, HostNew
  <2> QED BY <2>1, <2>2, <2>3 DEF Hosting
<1>3. Fetching
  <2>1. fetches = {}
    BY DEF LinkInit
  <2>2. PICK warm : cache = [p \in Page |-> [h \in Hash |-> IF p \in warm THEN "ready" ELSE "none"]]
    BY DEF LinkInit
  <2> QED BY <2>1, <2>2 DEF Fetching, SvcStates
<1>4. Saying
  <2>1. << >> \in Seq(Messages)
    OBVIOUS
  <2> QED BY <2>1 DEF LinkInit, Saying
<1> QED BY <1>1, <1>2, <1>3, <1>4 DEF LinkInv

(* What it means.                                                          *)
LEMMA LinkInvMeans ==
    ASSUME LinkInv, ClosedHandles
    PROVE  LinkTypeOK /\ CountsAgree /\ HeldIsServed
<1>1. WorkerTypeOK /\ TablesAgree /\ HeldIsServed
  BY WorkerInvMeans DEF LinkInv
<1>2. Hosting /\ Fetching /\ Saying
  BY DEF LinkInv
<1>3. LinkTypeOK
  <2>1. SvcRec = [state : {"none", "pending", "ready", "failed"}, refs : Nat, inst : Nat]
    BY DEF SvcRec, SvcStates
  <2>2. FetchRec = [page : Page, hash : Hash, for : Key \cup {None},
                    pc : {"asked", "network", "compile"}, req : Nat]
    BY DEF FetchRec, FetchPcs
  <2>3. /\ open \in [Page -> BOOLEAN] /\ beat \in [Page -> BOOLEAN]
        /\ cache \in [Page -> [Hash -> {"none", "pending", "ready", "failed"}]]
        /\ svc \in [Page -> [Key -> [state : {"none", "pending", "ready", "failed"},
                                refs : Nat, inst : Nat]]]
        /\ fetches \subseteq [page : Page, hash : Hash, for : Key \cup {None},
                    pc : {"asked", "network", "compile"}, req : Nat]
    BY <1>2, <2>1, <2>2 DEF Hosting, Fetching, Saying, SvcStates
  <2>4. /\ \A p \in Page : handles[p] \subseteq [id : Nat, key : Key, inst : Nat]
        /\ \A p \in Page : out[p] \in Seq(Messages)
        /\ made \in [Page -> Nat] /\ orphans \subseteq Page \X Key
    BY <1>2 DEF Hosting, Saying, HandleRec
  <2>5. \A p \in Page : closed[p] \subseteq handles[p]
    BY DEF ClosedHandles
  <2> QED BY <1>1, <2>3, <2>4, <2>5 DEF LinkTypeOK
<1>4. PageRefsExact
  <2> SUFFICES ASSUME NEW p \in Page, open[p]
               PROVE  /\ \A k \in Key :
                           /\ svc[p][k].refs = Cardinality(HandlesOf(p, k))
                           /\ svc[p][k].state = "ready" <=> HandlesOf(p, k) # {}
                           /\ \A x \in HandlesOf(p, k) : x.inst = svc[p][k].inst
                      /\ \A h \in Hash :
                           Cardinality({f \in fetches : f.page = p /\ f.hash = h})
                             = IF cache[p][h] = "pending" THEN 1 ELSE 0
    BY Zenon DEF PageRefsExact
  <2>1. ASSUME NEW k \in Key
        PROVE  /\ svc[p][k].refs = Cardinality(HandlesOf(p, k))
               /\ svc[p][k].state = "ready" <=> HandlesOf(p, k) # {}
               /\ \A x \in HandlesOf(p, k) : x.inst = svc[p][k].inst
    <3>1. HandlesOf(p, k) = HandlesTo(handles[p], k)
      BY DEF HandlesOf, HandlesTo
    <3>2. CountedBy(svc[p][k], HandlesTo(handles[p], k))
      BY <1>2 DEF Hosting, HostOK
    <3> QED BY <3>1, <3>2 DEF CountedBy
  <2>2. ASSUME NEW h \in Hash
        PROVE  Cardinality({f \in fetches : f.page = p /\ f.hash = h})
                 = IF cache[p][h] = "pending" THEN 1 ELSE 0
    <3>1. PICK F : F = {f \in fetches : f.page = p /\ f.hash = h}
      OBVIOUS
    <3>2. CASE cache[p][h] = "pending"
      <4>1. PICK f \in fetches : FetchedBy(f, p, h)
        BY <1>2, <3>2 DEF Fetching
      <4>2. F = {f}
        BY <1>2, <3>1, <4>1 DEF Fetching, FetchedBy
      <4>3. Cardinality({f}) = 1
        BY FS_Singleton
      <4> QED BY <3>1, <3>2, <4>2, <4>3
    <3>3. CASE cache[p][h] # "pending"
      <4>1. F = {}
        BY <1>2, <3>1, <3>3 DEF Fetching
      <4>2. Cardinality({}) = 0
        BY FS_EmptySet
      <4> QED BY <3>1, <3>3, <4>1, <4>2
    <3> QED BY <3>2, <3>3
  <2> QED BY <2>1, <2>2
<1> QED BY <1>1, <1>3, <1>4 DEF CountsAgree

-----------------------------------------------------------------------------
(* What the invariants say of a page.                                      *)

(* What StreamOK says of a stream.                                         *)
LEMMA StreamInOrder ==
    ASSUME NEW x \in Obj, StreamOK(x)
    PROVE  /\ \A j, k \in DOMAIN x.got : j < k => x.got[j] < x.got[k]
           /\ x.kind # "midi_in" => x.got \o FlattenSeq(x.rx) = [k \in 1 .. x.sent |-> k]
<1>1. PICK m \in 0 .. x.sent : StreamAt(x, m)
  BY StreamRuns
<1>2. x.sent \in Nat
  BY DEF Obj
<1>3. PICK a \in Nat : a = x.sent - m /\ a + m = x.sent /\ m \in Nat
  BY <1>2
<1>4. ASSUME x.kind # "midi_in" PROVE x.got \o FlattenSeq(x.rx) = [k \in 1 .. x.sent |-> k]
  <2>1. x.got = Run(0, a) /\ FlattenSeq(x.rx) = Run(a, m)
    BY <1>1, <1>3, <1>4 DEF StreamAt
  <2>2. Run(0, a) \o Run(0 + a, m) = Run(0, a + m)
    <3>1. 0 \in Nat
      OBVIOUS
    <3> QED BY <1>3, <3>1, RunConcat, Zenon
  <2>3. 0 + a = a
    OBVIOUS
  <2>4. Run(0, x.sent) = [k \in 1 .. x.sent |-> k]
    BY <1>2 DEF Run
  <2> QED BY <1>3, <2>1, <2>2, <2>3, <2>4
<1> QED BY <1>1, <1>4 DEF StreamAt

(* The invariant gives the properties of the operations.                   *)
LEMMA IoInvMeans ==
    ASSUME IoInv
    PROVE  OneEnd /\ InOrder /\ OneDrop
<1>1. OneEnd
  <2>1. ASSUME NEW i \in DOMAIN ops
        PROVE  /\ ops[i].finals > 1 => ((ops[i].late /\ FormOf(i) = "connect") \/ FormOf(i) \in {"geo", "idle"})
               /\ i \in pend <=> (ops[i].at = "timer" \/ (ops[i].at = "connect" /\ ~ops[i].late))
               /\ ops[i].at = "done" => ops[i].said \/ FormOf(i) = "log"
    <3>1. OpOK(ops[i]) /\ (i \in pend <=> Pending(ops[i]))
      BY DEF IoInv, OpsOK
    <3> QED BY <3>1 DEF OpOK, Pending, FormOf
  <2> QED BY <2>1 DEF OneEnd
<1>2. InOrder
  <2>1. ASSUME NEW h \in Handle
        PROVE  /\ \A j, k \in DOMAIN objs[h].got : j < k => objs[h].got[j] < objs[h].got[k]
               /\ objs[h].kind # "midi_in" =>
                    objs[h].got \o FlattenSeq(objs[h].rx) = [k \in 1 .. objs[h].sent |-> k]
    <3>1. objs[h] \in Obj /\ StreamOK(objs[h])
      BY DEF Handle, IoInv, IoTypes
    <3>2. PICK x \in Obj : x = objs[h] /\ StreamOK(x)
      BY <3>1
    <3>3. /\ \A j, k \in DOMAIN x.got : j < k => x.got[j] < x.got[k]
          /\ x.kind # "midi_in" => x.got \o FlattenSeq(x.rx) = [k \in 1 .. x.sent |-> k]
      BY <3>2, StreamInOrder
    <3> QED BY <3>2, <3>3, Zenon
  <2> QED BY <2>1, Zenon DEF InOrder
<1>3. OneDrop
  BY DEF IoInv, DropsOK, OneDrop
<1> QED BY <1>1, <1>2, <1>3

(* And their types.                                                        *)
LEMMA PageTyped ==
    ASSUME IoInv, AskInv
    PROVE  IoTypeOK /\ AskTypeOK
<1>1. IoTypeOK
  <2>1. /\ plan \in IoPlans /\ pend \subseteq DOMAIN ops /\ ops \in Seq(Op) /\ objs \in Seq(Obj)
        /\ stash \subseteq (DOMAIN drops) \X {"text", "file"}
        /\ drops \in Seq({"loading", "told", "lost"}) /\ mixed \in BOOLEAN
    BY DEF IoInv, IoTypes
  <2>2. ASSUME NEW i \in DOMAIN ops
        PROVE  /\ ops[i].code \in Opcode /\ ops[i].on \in {0} \cup Handle /\ ops[i].ud \in UserData
               /\ ops[i].at \in Places /\ ops[i].parts \in 0 .. 2 /\ ops[i].finals \in 0 .. 2
               /\ ops[i].said \in BOOLEAN /\ ops[i].late \in BOOLEAN
    <3>1. ops[i] \in Op
      BY <2>1
    <3>2. ops[i].on \in Nat /\ ops[i].on <= Len(objs) /\ Handle = 1 .. Len(objs) /\ Len(objs) \in Nat
      BY <2>1, <3>1 DEF Op, IoInv, IoTypes, Handle
    <3>3. ops[i].on \in {0} \cup Handle
      BY <3>2
    <3> QED BY <3>1, <3>3 DEF Op
  <2>3. ASSUME NEW h \in Handle
        PROVE  DOMAIN objs[h] = DOMAIN Object("any")
    <3>1. objs[h] \in Obj
      BY <2>1 DEF Handle
    <3>2. DOMAIN objs[h] = {"kind", "in", "open", "notify", "rx", "sent", "got"}
      BY <3>1 DEF Obj
    <3> QED BY <3>2 DEF Object
  <2>4. \A k \in DOMAIN queue : queue[k] \in {"io", "drop"} \X Nat
    <3>1. queue \in Seq({"io", "drop"} \X Nat)
      BY DEF IoInv, IoTypes
    <3> QED BY <3>1
  <2> QED BY <2>1, <2>2, <2>3, <2>4 DEF IoTypeOK
<1>2. AskTypeOK
  <2>1. AskTypes
    BY DEF AskInv
  <2>2. ASSUME NEW a \in asks
        PROVE  /\ [imp |-> a.imp, key |-> a.key, id |-> a.by] \in Request
               /\ a.state \in {"pending", "ready", "failed"}
    BY <2>1 DEF AskTypes, AskState, Request
  <2>3. opened \subseteq Import \X AskKey
    BY <2>1 DEF AskTypes, Import
  <2> QED BY <2>1, <2>2, <2>3 DEF AskTypes, AskTypeOK, Lock
<1> QED BY <1>1, <1>2

-----------------------------------------------------------------------------
(* The theorems.                                                           *)

BrowserInv == IoInv /\ AskInv /\ LinkInv /\ ClosedHandles /\ MemInv /\ MemTypes

(* It holds at first,                                                      *)
LEMMA BrowserInit ==
    ASSUME Init
    PROVE  BrowserInv
<1>1. IoInv
  BY IoInitKeeps DEF Init
<1>2. AskInv
  BY EmptySeq DEF Init, AskInit, IoInit, AskInv, AskTypes, Matched, OwnAnswer, HeldByHandle
<1>3. LinkInv /\ ClosedHandles
  BY LinkInitKeeps DEF Init, LinkInit, ClosedHandles
<1>4. MemInv /\ MemTypes
  BY MemInitKeeps, MemTypesFirst DEF Init
<1> QED BY <1>1, <1>2, <1>3, <1>4 DEF BrowserInv

(* and every step keeps it: a step of one part leaves the others alone.    *)
LEMMA IoLeft ==
    ASSUME IoInv, UNCHANGED ioVars
    PROVE  IoInv'
BY DEF ioVars, dropVars, IoInv, IoTypes, OpsOK, DropsOK

LEMMA AskLeft ==
    ASSUME AskInv, UNCHANGED <<plan, askVars>>
    PROVE  AskInv'
BY DEF askVars, AskInv, AskTypes, Matched, OwnAnswer, HeldByHandle

LEMMA LinkLeft ==
    ASSUME LinkInv, ClosedHandles, UNCHANGED linkVars
    PROVE  LinkInv' /\ ClosedHandles'
<1>1. /\ UNCHANGED workerVars
      /\ UNCHANGED <<open, cache, svc, handles, closed, fetches, beat, out, made, orphans>>
  BY DEF linkVars, pageVars
<1> QED BY <1>1, WorkerSame, HostingSame, FetchingSame, SayingSame DEF LinkInv, ClosedHandles

LEMMA MemLeft ==
    ASSUME MemInv, MemTypes, UNCHANGED memVars
    PROVE  MemInv' /\ MemTypes'
<1>1. UNCHANGED <<memPlan, words, top, end, base, ptr, bump, mem, shared, blocks>>
  BY DEF memVars
<1>2. \A b : Placed(b)' <=> Placed(b)
  BY <1>1 DEF Placed, Floor, Bound, Limit
<1>3. MemShape'
  BY <1>1, <1>2 DEF MemInv, MemShape, Pointers
<1>4. Trespassed' <=> Trespassed
  BY <1>1 DEF Trespassed
<1>5. Contents'
  BY <1>1, <1>4 DEF MemInv, Contents, SpaceOf
<1>6. MemTypes'
  BY <1>1 DEF MemTypes
<1> QED BY <1>3, <1>5, <1>6 DEF MemInv

LEMMA BrowserKept ==
    ASSUME BrowserInv, [Next]_vars
    PROVE  BrowserInv'
<1>1. IoInv /\ AskInv /\ LinkInv /\ ClosedHandles /\ MemInv /\ MemTypes
  BY DEF BrowserInv
<1>2. UNCHANGED ioVars => plan' = plan
  BY DEF ioVars
<1>3. CASE LinkStep /\ UNCHANGED notLink
  <2>1. LinkInv' /\ ClosedHandles'
    BY <1>1, <1>3, LinkStepKeeps, ClosedKept DEF LinkInv
  <2> QED BY <1>1, <1>2, <1>3, <2>1, IoLeft, AskLeft, MemLeft DEF notLink, BrowserInv
<1>4. CASE IoStep /\ UNCHANGED notIo
  <2>1. IoInv' /\ plan' = plan
    BY <1>1, <1>4, IoStepKeeps, PlanKept
  <2> QED BY <1>1, <1>4, <2>1, AskLeft, LinkLeft, MemLeft DEF notIo, BrowserInv
<1>5. CASE AskStep /\ UNCHANGED notAsk
  <2>1. AskInv'
    BY <1>1, <1>2, <1>5, AskStepKeeps DEF notAsk
  <2> QED BY <1>1, <1>5, <2>1, IoLeft, LinkLeft, MemLeft DEF notAsk, BrowserInv
<1>6. CASE MemStep /\ UNCHANGED notMem
  <2>1. MemInv' /\ MemTypes'
    BY <1>1, <1>6, MemStepKeeps, MemTypesKept
  <2> QED BY <1>1, <1>2, <1>6, <2>1, IoLeft, AskLeft, LinkLeft DEF notMem, BrowserInv
<1>7. CASE UNCHANGED vars
  BY <1>1, <1>2, <1>7, IoLeft, AskLeft, LinkLeft, MemLeft DEF vars, BrowserInv
<1> QED BY <1>3, <1>4, <1>5, <1>6, <1>7 DEF Next

LEMMA BrowserInvMeans ==
    ASSUME BrowserInv
    PROVE  /\ EndsOnce /\ OwnData
           /\ TypeOK /\ CountsAgree /\ HeldIsServed
           /\ BlocksApart
<1>1. IoInv /\ AskInv /\ LinkInv /\ ClosedHandles /\ MemInv /\ MemTypes
  BY DEF BrowserInv
<1>2. EndsOnce /\ OwnData
  BY <1>1, IoInvMeans DEF AskInv, EndsOnce, OwnData
<1>3. LinkTypeOK /\ CountsAgree /\ HeldIsServed
  BY <1>1, LinkInvMeans
<1>4. BlocksApart
  BY <1>1, MemInvMeans
<1>5. IoTypeOK /\ AskTypeOK
  BY <1>1, PageTyped
<1>6. MemTypeOK
  BY <1>1, MemTyped
<1>7. TypeOK
  BY <1>3, <1>5, <1>6 DEF TypeOK
<1> QED BY <1>2, <1>3, <1>4, <1>7

(* A page's operations end once (EndsOnce): whatever the opcodes, objects  *)
(* and budgets of a behaviour.                                             *)
THEOREM OperationsEndOnce == Spec => []EndsOnce
<1>1. Init => BrowserInv
  BY BrowserInit
<1>2. BrowserInv /\ [Next]_vars => BrowserInv'
  BY BrowserKept
<1>3. BrowserInv => EndsOnce
  BY BrowserInvMeans
<1> QED BY <1>1, <1>2, <1>3, PTL DEF Spec

(* A guest is given what it asked for and nothing else (OwnData): bytes in *)
(* order, items of one drop, the answer to its own request, but from the   *)
(* imports that OwnAnswer names, and no lock that it has released, also    *)
(* when objects go or handles are closed as files in between               *)
(* (wapi_shim.js:2338-2342, 6413-6425, 7591-7613).                         *)
THEOREM GuestsOwnData == Spec => []OwnData
<1>1. Init => BrowserInv
  BY BrowserInit
<1>2. BrowserInv /\ [Next]_vars => BrowserInv'
  BY BrowserKept
<1>3. BrowserInv => OwnData
  BY BrowserInvMeans
<1> QED BY <1>1, <1>2, <1>3, PTL DEF Spec

(* A handle that the worker's services.join gave out leads to the instance *)
(* its holder joined, still registered, until it is released (HeldIsServed), *)
(* whatever calls, restarts and releases come between; sw.js:262-386.      *)
THEOREM WorkerServesHolders == Spec => []HeldIsServed
<1>1. Init => BrowserInv
  BY BrowserInit
<1>2. BrowserInv /\ [Next]_vars => BrowserInv'
  BY BrowserKept
<1>3. BrowserInv => HeldIsServed
  BY BrowserInvMeans
<1> QED BY <1>1, <1>2, <1>3, PTL DEF Spec

(* The worker's tables of services agree with each other and with their    *)
(* counts, and a page's service is there as long as handles to it are not  *)
(* released, which it counts (CountsAgree): one that is closed as a file   *)
(* is not released and goes on being counted; sw.js:262-386,               *)
(* wapi_shim.js:2338-2342, 5739-5870.                                      *)
THEOREM LinkCountsAgree == Spec => []CountsAgree
<1>1. Init => BrowserInv
  BY BrowserInit
<1>2. BrowserInv /\ [Next]_vars => BrowserInv'
  BY BrowserKept
<1>3. BrowserInv => CountsAgree
  BY BrowserInvMeans
<1> QED BY <1>1, <1>2, <1>3, PTL DEF Spec

(* Blocks of one allocator never overlap, nor those of the guest's heap,   *)
(* the page's allocator and wasm_alloc while none has run into another's   *)
(* ground; until then a block keeps what its owner wrote, whatever is      *)
(* allocated, freed, reallocated and grown (BlocksApart);                  *)
(* wapi_reactor.c:150-224, wapi_shim.js:1046-1108, 1341-1354, 5934-5954.   *)
THEOREM GuestBlocksApart == Spec => []BlocksApart
<1>1. Init => BrowserInv
  BY BrowserInit
<1>2. BrowserInv /\ [Next]_vars => BrowserInv'
  BY BrowserKept
<1>3. BrowserInv => BlocksApart
  BY BrowserInvMeans
<1> QED BY <1>1, <1>2, <1>3, PTL DEF Spec

(* Every variable of the browser has its type (TypeOK).                    *)
THEOREM BrowserTyped == Spec => []TypeOK
<1>1. Init => BrowserInv
  BY BrowserInit
<1>2. BrowserInv /\ [Next]_vars => BrowserInv'
  BY BrowserKept
<1>3. BrowserInv => TypeOK
  BY BrowserInvMeans
<1> QED BY <1>1, <1>2, <1>3, PTL DEF Spec

=============================================================================
