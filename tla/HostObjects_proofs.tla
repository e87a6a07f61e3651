------------------------- MODULE HostObjects_proofs -------------------------
(***************************************************************************)
(* What the host keeps of the objects of others, for every value of the    *)
(* constants.                                                              *)
(*                                                                         *)
(* The requests of WebGPU: a place of the pending lists                    *)
(* (wapi_host_wgpu.c) is written by the request, marked by the callback of *)
(* wgpu-native, and emptied after the guest's callback returned, and       *)
(* meanwhile the guest may ask again, answer from inside the callback, or  *)
(* have the list reused.  Four effects (Asks, Answers, Tells, Clears) are  *)
(* what every step does to the lists, each shown to keep Kept, and each    *)
(* action is then shown to be one of them or to touch neither.             *)
(*                                                                         *)
(* The objects of the system: a ledger says what each handle, the call in  *)
(* progress and nobody have (Part), and every open object is in one part   *)
(* (Booked).  A step passes things on between a few holders, closes some   *)
(* and opens others (Passed, Gives); shapes of steps -- the call's own     *)
(* (Mine), a new entry (Enters), entries freed (Frees) -- are shown to     *)
(* keep the ledger, and each action is then shown to have such a shape.    *)
(***************************************************************************)
EXTENDS HostResources_proofs

-----------------------------------------------------------------------------
(* Requests of WebGPU: the places of the lists, the requests, the set of   *)
(* the places whose callbacks run, and the requests that lost their place. *)

PlaceAt(s, i, lists) == lists[s].pend[i]
Spot(s, i)        == [s |-> s, i |-> i]

(* A place that is not empty is that of its request, as it stands.         *)
PlaceKept(s, i, lists, reqs, calls, gone) ==
    LET p == PlaceAt(s, i, lists)
    IN  p.kind # "none" /\ p.req \notin gone =>
          /\ reqs[p.req].s = s /\ reqs[p.req].i = i
          /\ reqs[p.req].kind = p.kind /\ reqs[p.req].answered = p.done
          /\ reqs[p.req].told = 0 \/ Spot(s, i) \in calls

(* A request that the guest was not told of has its place to itself.       *)
RequestKept(r, lists, reqs, calls) ==
    LET a == reqs[r]
    IN  /\ a.told \in {0, 1} /\ (a.told = 1 => a.answered)
        /\ a.told = 0 =>
             /\ PlaceAt(a.s, a.i, lists) = [kind |-> a.kind, req |-> r, done |-> a.answered]
             /\ Spot(a.s, a.i) \notin calls
             /\ \A o \in DOMAIN reqs : o # r /\ ~reqs[o].answered => ~(reqs[o].s = a.s /\ reqs[o].i = a.i)

(* The inductive invariant; gone are the requests whose list was reused.   *)
Kept(lists, reqs, calls, gone) ==
    /\ \A s, i : At(s, i, lists) => PlaceKept(s, i, lists, reqs, calls, gone)
    /\ \A r \in DOMAIN reqs \ gone : RequestKept(r, lists, reqs, calls)

(* Every place and every request named is there; a request is for a thing. *)
Named(lists, reqs) ==
    /\ \A s, i : At(s, i, lists) => PlaceAt(s, i, lists).req \in DOMAIN reqs
    /\ \A r \in DOMAIN reqs : At(reqs[r].s, reqs[r].i, lists) /\ reqs[r].kind # "none"

(* Request r gets the place i of list s, which was empty.                  *)
Asks(r, s, i, kind, lists, reqs, calls, gone, lists1, reqs1, gone1) ==
    /\ r \notin DOMAIN reqs /\ DOMAIN reqs1 = DOMAIN reqs \cup {r}
    /\ \A m \in DOMAIN reqs : reqs1[m] = reqs[m]
    /\ reqs1[r].s = s /\ reqs1[r].i = i /\ reqs1[r].kind = kind
    /\ reqs1[r].answered = FALSE /\ reqs1[r].told = 0
    /\ \A m, j : At(m, j, lists1) => At(m, j, lists) \/ (m = s /\ j = i)
    /\ \A m, j : At(m, j, lists) /\ ~(m = s /\ j = i) => PlaceAt(m, j, lists1) = PlaceAt(m, j, lists)
    /\ At(s, i, lists) => PlaceAt(s, i, lists).kind = "none"
    /\ PlaceAt(s, i, lists1) = [kind |-> kind, req |-> r, done |-> FALSE]
    /\ gone \subseteq gone1
    /\ r \notin gone1 => /\ Spot(s, i) \notin calls
                         /\ \A m \in DOMAIN reqs : ~reqs[m].answered => ~(reqs[m].s = s /\ reqs[m].i = i)

(* An empty place is nobody's, so its next request has it to itself.       *)
LEMMA AsksKeeps ==
    ASSUME NEW lists, NEW reqs, NEW calls, NEW gone, NEW lists1, NEW reqs1, NEW gone1,
           NEW r, NEW s, NEW i, NEW kind \in {"adapter", "device"},
           Asks(r, s, i, kind, lists, reqs, calls, gone, lists1, reqs1, gone1),
           Named(lists, reqs), Kept(lists, reqs, calls, gone)
    PROVE  Kept(lists1, reqs1, calls, gone1)
<1>1. ASSUME NEW m, NEW j, At(m, j, lists1)
      PROVE  PlaceKept(m, j, lists1, reqs1, calls, gone1)
  <2>1. CASE m = s /\ j = i
    <3>1. PICK p : p = [kind |-> kind, req |-> r, done |-> FALSE]
      OBVIOUS
    <3>2. PlaceAt(m, j, lists1) = p
      BY <2>1, <3>1 DEF Asks
    <3>3. p.kind = kind /\ p.req = r /\ p.done = FALSE
      BY <3>1
    <3> QED BY Zenon, <2>1, <3>2, <3>3 DEF PlaceKept, Asks
  <2>2. CASE ~(m = s /\ j = i)
    <3>1. At(m, j, lists) /\ PlaceAt(m, j, lists1) = PlaceAt(m, j, lists)
      BY <1>1, <2>2 DEF Asks
    <3>2. PlaceKept(m, j, lists, reqs, calls, gone) /\ PlaceAt(m, j, lists).req \in DOMAIN reqs
      BY <3>1 DEF Kept, Named
    <3> QED BY <3>1, <3>2 DEF PlaceKept, Asks
  <2> QED BY <2>1, <2>2
<1>2. ASSUME NEW m \in DOMAIN reqs1 \ gone1
      PROVE  RequestKept(m, lists1, reqs1, calls)
  <2>1. CASE m = r
    <3>1. /\ reqs1[r].s = s /\ reqs1[r].i = i /\ reqs1[r].kind = kind /\ r \notin gone1
          /\ reqs1[r].answered = FALSE /\ reqs1[r].told = 0 /\ Spot(s, i) \notin calls
          /\ PlaceAt(s, i, lists1) = [kind |-> kind, req |-> r, done |-> FALSE]
      BY Zenon, <1>2, <2>1 DEF Asks
    <3>2. \A k \in DOMAIN reqs1 : k # r /\ ~reqs1[k].answered => ~(reqs1[k].s = s /\ reqs1[k].i = i)
      BY <3>1 DEF Asks
    <3>3. PlaceAt(reqs1[m].s, reqs1[m].i, lists1) = [kind |-> reqs1[m].kind, req |-> m, done |-> reqs1[m].answered]
      BY Zenon, <2>1, <3>1
    <3>4. Spot(reqs1[m].s, reqs1[m].i) \notin calls
      BY Zenon, <2>1, <3>1
    <3>5. \A k \in DOMAIN reqs1 : k # m /\ ~reqs1[k].answered => ~(reqs1[k].s = reqs1[m].s /\ reqs1[k].i = reqs1[m].i)
      BY Zenon, <2>1, <3>1, <3>2
    <3>6. reqs1[m].told = 0
      BY <2>1, <3>1
    <3> QED BY <3>3, <3>4, <3>5, <3>6 DEF RequestKept
  <2>2. CASE m # r
    <3>1. m \in DOMAIN reqs \ gone /\ reqs1[m] = reqs[m]
      BY <1>2, <2>2 DEF Asks
    <3>2. RequestKept(m, lists, reqs, calls)
      BY <3>1 DEF Kept
    <3>3. ASSUME reqs[m].told = 0
          PROVE  ~(reqs[m].s = s /\ reqs[m].i = i)
                 /\ PlaceAt(reqs[m].s, reqs[m].i, lists1) = PlaceAt(reqs[m].s, reqs[m].i, lists)
      <4>1. At(reqs[m].s, reqs[m].i, lists)
        BY <3>1 DEF Named
      <4>2. PlaceAt(reqs[m].s, reqs[m].i, lists) = [kind |-> reqs[m].kind, req |-> m, done |-> reqs[m].answered]
        BY <3>2, <3>3 DEF RequestKept
      <4>3. PlaceKept(reqs[m].s, reqs[m].i, lists, reqs, calls, gone)
        BY <4>1 DEF Kept
      <4>4. ASSUME reqs[m].s = s, reqs[m].i = i PROVE FALSE
        <5>1. PlaceAt(s, i, lists).kind = "none"
          BY <4>1, <4>4 DEF Asks
        <5>2. reqs[m].kind = "none"
          BY <4>2, <4>4, <5>1
        <5> QED BY <3>1, <5>2 DEF Named
      <4> QED BY <4>1, <4>4 DEF Asks
    <3> QED BY <3>1, <3>2, <3>3 DEF RequestKept, Asks
  <2> QED BY <2>1, <2>2
<1> QED BY <1>1, <1>2 DEF Kept

(* wgpu-native answers r, and its place is marked.                         *)
Answers(r, lists, reqs, lists1, reqs1) ==
    /\ r \in DOMAIN reqs /\ ~reqs[r].answered /\ DOMAIN reqs1 = DOMAIN reqs
    /\ \A m \in DOMAIN reqs : m # r => reqs1[m] = reqs[m]
    /\ reqs1[r] = [reqs[r] EXCEPT !.answered = TRUE]
    /\ \A m, j : At(m, j, lists1) <=> At(m, j, lists)
    /\ \A m, j : At(m, j, lists) /\ ~(m = reqs[r].s /\ j = reqs[r].i) => PlaceAt(m, j, lists1) = PlaceAt(m, j, lists)
    /\ PlaceAt(reqs[r].s, reqs[r].i, lists1) = [PlaceAt(reqs[r].s, reqs[r].i, lists) EXCEPT !.done = TRUE]

(* What the type invariant says of the requests and of the places.         *)
Fields(reqs) == \A r \in DOMAIN reqs : reqs[r] \in Request
Places(lists) == \A s, i : At(s, i, lists) => PlaceAt(s, i, lists) \in Place

(* Two requests share a place only when one of them has lost it or both    *)
(* were answered.                                                          *)
LEMMA AnswersKeeps ==
    ASSUME NEW lists, NEW reqs, NEW calls, NEW gone, NEW lists1, NEW reqs1, NEW r,
           Answers(r, lists, reqs, lists1, reqs1), Fields(reqs), Places(lists),
           Named(lists, reqs), Kept(lists, reqs, calls, gone)
    PROVE  Kept(lists1, reqs1, calls, gone)
<1>1. PICK s, i : s = reqs[r].s /\ i = reqs[r].i
  OBVIOUS
<1>2. At(s, i, lists) /\ PlaceAt(s, i, lists) \in Place
      /\ PlaceAt(s, i, lists1) = [PlaceAt(s, i, lists) EXCEPT !.done = TRUE]
  BY <1>1 DEF Named, Answers, Places
<1>3. /\ PlaceAt(s, i, lists1).kind = PlaceAt(s, i, lists).kind
      /\ PlaceAt(s, i, lists1).req = PlaceAt(s, i, lists).req /\ PlaceAt(s, i, lists1).done = TRUE
  BY <1>2 DEF Place
<1>4. reqs[r] \in Request /\ ~reqs[r].answered /\ r \in DOMAIN reqs
  BY DEF Answers, Fields
<1>5. /\ reqs1[r].s = s /\ reqs1[r].i = i /\ reqs1[r].kind = reqs[r].kind
      /\ reqs1[r].answered = TRUE /\ reqs1[r].told = reqs[r].told
  BY <1>1, <1>4 DEF Request, Answers
<1>6. ASSUME NEW m, NEW j, At(m, j, lists1)
      PROVE  PlaceKept(m, j, lists1, reqs1, calls, gone)
  <2>1. At(m, j, lists) /\ PlaceKept(m, j, lists, reqs, calls, gone)
        /\ PlaceAt(m, j, lists).req \in DOMAIN reqs
    BY <1>6 DEF Answers, Kept, Named
  <2>2. CASE ~(m = s /\ j = i)
    <3>1. PlaceAt(m, j, lists1) = PlaceAt(m, j, lists)
      BY <1>1, <2>1, <2>2 DEF Answers
    <3>2. CASE PlaceAt(m, j, lists).req = r
      BY <1>1, <2>1, <2>2, <3>1, <3>2 DEF PlaceKept
    <3>3. CASE PlaceAt(m, j, lists).req # r
      BY <2>1, <3>1, <3>3 DEF PlaceKept, Answers
    <3> QED BY <3>2, <3>3
  <2>3. CASE m = s /\ j = i
    <3>1. CASE PlaceAt(s, i, lists).req = r
      <4>1. ASSUME r \notin gone, PlaceAt(s, i, lists).kind # "none"
            PROVE  PlaceAt(s, i, lists).kind = reqs[r].kind /\ (reqs[r].told = 0 \/ Spot(s, i) \in calls)
        BY <2>1, <2>3, <3>1, <4>1 DEF PlaceKept
      <4> QED BY <1>3, <1>5, <2>3, <3>1, <4>1 DEF PlaceKept
    <3>2. CASE PlaceAt(s, i, lists).req # r
      <4>1. PICK q : q = PlaceAt(s, i, lists).req
        OBVIOUS
      <4>2. q \in DOMAIN reqs /\ q # r /\ reqs1[q] = reqs[q]
        BY <2>1, <2>3, <3>2, <4>1 DEF Answers
      <4>3. ASSUME PlaceAt(s, i, lists).kind # "none", q \notin gone PROVE PlaceAt(s, i, lists).done = TRUE
        <5>1. reqs[q].s = s /\ reqs[q].i = i /\ reqs[q].answered = PlaceAt(s, i, lists).done
          BY <2>1, <2>3, <4>1, <4>3 DEF PlaceKept
        <5>2. RequestKept(q, lists, reqs, calls)
          BY <4>2, <4>3 DEF Kept
        <5>3. reqs[q].told # 0
          BY <1>1, <1>4, <4>2, <5>1, <5>2 DEF RequestKept
        <5>4. reqs[q].answered /\ PlaceAt(s, i, lists).done \in BOOLEAN
          BY <1>2, <5>2, <5>3 DEF RequestKept, Place
        <5> QED BY Zenon, <5>1, <5>4
      <4> QED BY <1>3, <2>1, <2>3, <4>1, <4>2, <4>3 DEF PlaceKept
    <3> QED BY <3>1, <3>2
  <2> QED BY <2>2, <2>3
<1>7. ASSUME NEW m \in DOMAIN reqs1 \ gone
      PROVE  RequestKept(m, lists1, reqs1, calls)
  <2>1. m \in DOMAIN reqs /\ RequestKept(m, lists, reqs, calls)
    BY <1>7 DEF Kept, Answers
  <2>2. \A k \in DOMAIN reqs1 : ~reqs1[k].answered => k \in DOMAIN reqs /\ k # r /\ reqs1[k] = reqs[k]
    BY <1>5 DEF Answers
  <2>3. CASE m = r
    <3>1. reqs[r].told = 0 /\ PlaceAt(s, i, lists) = [kind |-> reqs[r].kind, req |-> r, done |-> reqs[r].answered]
          /\ Spot(s, i) \notin calls
          /\ \A k \in DOMAIN reqs : k # r /\ ~reqs[k].answered => ~(reqs[k].s = s /\ reqs[k].i = i)
      BY <1>1, <1>4, <2>1, <2>3 DEF RequestKept
    <3>2. PlaceAt(s, i, lists1) = [kind |-> reqs[r].kind, req |-> r, done |-> TRUE]
      <4>1. PlaceAt(s, i, lists1) = [[kind |-> reqs[r].kind, req |-> r, done |-> reqs[r].answered] EXCEPT !.done = TRUE]
        BY Zenon, <1>2, <3>1
      <4> QED BY <4>1
    <3> QED BY <1>5, <2>2, <2>3, <3>1, <3>2 DEF RequestKept
  <2>4. CASE m # r
    <3>1. reqs1[m] = reqs[m]
      BY <2>1, <2>4 DEF Answers
    <3>2. ASSUME reqs[m].told = 0 PROVE PlaceAt(reqs[m].s, reqs[m].i, lists1) = PlaceAt(reqs[m].s, reqs[m].i, lists)
      <4>1. At(reqs[m].s, reqs[m].i, lists) /\ ~(reqs[r].s = reqs[m].s /\ reqs[r].i = reqs[m].i)
        BY <1>4, <2>1, <2>4, <3>2 DEF RequestKept, Named
      <4> QED BY <4>1 DEF Answers
    <3> QED BY <2>1, <2>2, <3>1, <3>2 DEF RequestKept
  <2> QED BY <2>3, <2>4
<1> QED BY <1>6, <1>7 DEF Kept

(* A callback has returned and its place is emptied.                       *)
Clears(s, i, lists, calls, lists1, calls1) ==
    /\ \A m, j : At(m, j, lists1) <=> At(m, j, lists)
    /\ \A m, j : At(m, j, lists) /\ ~(m = s /\ j = i) => PlaceAt(m, j, lists1) = PlaceAt(m, j, lists)
    /\ PlaceAt(s, i, lists1).kind = "none"
    /\ Spot(s, i) \in calls /\ calls1 \subseteq calls /\ calls \subseteq calls1 \cup {Spot(s, i)}

(* Nobody waits at the place of a running callback.                        *)
LEMMA ClearsKeeps ==
    ASSUME NEW lists, NEW reqs, NEW calls, NEW gone, NEW lists1, NEW calls1, NEW s, NEW i,
           Clears(s, i, lists, calls, lists1, calls1),
           Named(lists, reqs), Kept(lists, reqs, calls, gone)
    PROVE  Kept(lists1, reqs, calls1, gone)
<1>1. ASSUME NEW m, NEW j, At(m, j, lists1)
      PROVE  PlaceKept(m, j, lists1, reqs, calls1, gone)
  <2>1. CASE m = s /\ j = i
    BY <2>1 DEF PlaceKept, Clears
  <2>2. CASE ~(m = s /\ j = i)
    <3>1. At(m, j, lists) /\ PlaceAt(m, j, lists1) = PlaceAt(m, j, lists) /\ PlaceKept(m, j, lists, reqs, calls, gone)
      BY <1>1, <2>2 DEF Clears, Kept
    <3>2. Spot(m, j) # Spot(s, i)
      BY <2>2 DEF Spot
    <3>3. Spot(m, j) \in calls => Spot(m, j) \in calls1
      BY <3>2 DEF Clears
    <3> QED BY <3>1, <3>3 DEF PlaceKept
  <2> QED BY <2>1, <2>2
<1>2. ASSUME NEW m \in DOMAIN reqs \ gone
      PROVE  RequestKept(m, lists1, reqs, calls1)
  <2>1. RequestKept(m, lists, reqs, calls) /\ At(reqs[m].s, reqs[m].i, lists)
    BY <1>2 DEF Kept, Named
  <2>2. ASSUME Spot(reqs[m].s, reqs[m].i) \notin calls
        PROVE  PlaceAt(reqs[m].s, reqs[m].i, lists1) = PlaceAt(reqs[m].s, reqs[m].i, lists)
    BY <2>1, <2>2 DEF Clears
  <2>3. calls1 \subseteq calls
    BY DEF Clears
  <2> QED BY <2>1, <2>2, <2>3 DEF RequestKept
<1> QED BY <1>1, <1>2 DEF Kept

(* The callback of the place i of list s begins.                           *)
Tells(r, s, i, lists, reqs, calls, gone, reqs1, calls1, gone1) ==
    /\ At(s, i, lists) /\ PlaceAt(s, i, lists).kind # "none" /\ PlaceAt(s, i, lists).done
    /\ r = PlaceAt(s, i, lists).req /\ DOMAIN reqs1 = DOMAIN reqs
    /\ reqs1 = [reqs EXCEPT ![r].told = @ + 1]
    /\ calls1 = calls \cup {Spot(s, i)}
    /\ gone1 = IF Spot(s, i) \in calls THEN gone \cup {r} ELSE gone

(* Unless a callback runs at the place already, its request was answered   *)
(* and the guest not told.                                                 *)
LEMMA TellsKeeps ==
    ASSUME NEW lists, NEW reqs, NEW calls, NEW gone, NEW reqs1, NEW calls1, NEW gone1,
           NEW r, NEW s, NEW i,
           Tells(r, s, i, lists, reqs, calls, gone, reqs1, calls1, gone1), Fields(reqs),
           Named(lists, reqs), Kept(lists, reqs, calls, gone)
    PROVE  Kept(lists, reqs1, calls1, gone1)
<1>1. r \in DOMAIN reqs /\ reqs[r] \in Request
  BY DEF Tells, Named, Fields
<1>2. PICK b : b = [reqs[r] EXCEPT !.told = @ + 1]
  OBVIOUS
<1>3. /\ b.s = reqs[r].s /\ b.i = reqs[r].i /\ b.kind = reqs[r].kind
      /\ b.answered = reqs[r].answered /\ b.told = reqs[r].told + 1
  BY <1>1, <1>2 DEF Request
<1>4. reqs1 = [reqs EXCEPT ![r] = b]
  BY <1>2 DEF Tells
<1>5. reqs1[r] = b /\ DOMAIN reqs1 = DOMAIN reqs /\ \A m \in DOMAIN reqs : m # r => reqs1[m] = reqs[m]
  BY <1>1, <1>4
<1>6. \A m \in DOMAIN reqs : reqs1[m].s = reqs[m].s /\ reqs1[m].i = reqs[m].i
        /\ reqs1[m].kind = reqs[m].kind /\ reqs1[m].answered = reqs[m].answered
  BY <1>3, <1>5
<1>7. calls1 = calls \cup {Spot(s, i)} /\ gone \subseteq gone1 /\ (Spot(s, i) \in calls => r \in gone1)
  BY DEF Tells
<1>8. PlaceKept(s, i, lists, reqs, calls, gone) /\ At(s, i, lists)
      /\ PlaceAt(s, i, lists).kind # "none" /\ PlaceAt(s, i, lists).done /\ r = PlaceAt(s, i, lists).req
  BY DEF Kept, Tells
<1>9. ASSUME NEW m, NEW j, At(m, j, lists)
      PROVE  PlaceKept(m, j, lists, reqs1, calls1, gone1)
  <2>1. PlaceKept(m, j, lists, reqs, calls, gone) /\ PlaceAt(m, j, lists).req \in DOMAIN reqs
    BY <1>9 DEF Kept, Named
  <2>2. CASE PlaceAt(m, j, lists).req = r
    <3>1. ASSUME r \notin gone1, PlaceAt(m, j, lists).kind # "none" PROVE m = s /\ j = i
      BY <1>7, <1>8, <2>1, <2>2, <3>1 DEF PlaceKept
    <3> QED BY <1>1, <1>6, <1>7, <2>1, <2>2, <3>1 DEF PlaceKept
  <2>3. CASE PlaceAt(m, j, lists).req # r
    BY <1>5, <1>7, <2>1, <2>3 DEF PlaceKept
  <2> QED BY <2>2, <2>3
<1>10. ASSUME NEW m \in DOMAIN reqs1 \ gone1
       PROVE  RequestKept(m, lists, reqs1, calls1)
  <2>1. m \in DOMAIN reqs \ gone /\ RequestKept(m, lists, reqs, calls)
    BY <1>5, <1>7, <1>10 DEF Kept
  <2>2. CASE m = r
    <3>1. reqs[r].told = 0 /\ reqs[r].answered
      BY <1>7, <1>8, <1>10, <2>1, <2>2 DEF PlaceKept
    <3>2. reqs1[r].told = 0 + 1
      BY Zenon, <1>3, <1>5, <3>1
    <3>3. reqs1[r].told = 1
      BY <3>2
    <3>4. reqs1[r].answered
      BY <1>1, <1>6, <3>1
    <3> QED BY <2>2, <3>3, <3>4 DEF RequestKept
  <2>3. CASE m # r
    <3>1. reqs1[m] = reqs[m]
      BY <1>5, <2>1, <2>3
    <3>2. ASSUME reqs[m].told = 0 PROVE Spot(reqs[m].s, reqs[m].i) \notin calls1
      <4>1. PlaceAt(reqs[m].s, reqs[m].i, lists).req = m /\ Spot(reqs[m].s, reqs[m].i) \notin calls
        BY <2>1, <3>2 DEF RequestKept
      <4>2. ~(reqs[m].s = s /\ reqs[m].i = i)
        BY <1>8, <2>3, <4>1
      <4> QED BY <1>7, <4>1, <4>2 DEF Spot
    <3> QED BY <1>5, <1>6, <2>1, <3>1, <3>2 DEF RequestKept
  <2> QED BY <2>2, <2>3
<1> QED BY <1>9, <1>10 DEF Kept

-----------------------------------------------------------------------------
(* The steps of the bridge.                                                *)

Calls(fs) == {fs[k] : k \in DOMAIN fs}
AllKept   == Kept(states, asked, Calls(frames), tangled)

(* What Types says of the lists and the requests.                          *)
LEMMA Ready ==
    ASSUME Types
    PROVE  Named(states, asked) /\ Fields(asked) /\ Places(states)
<1>1. Asking
  BY DEF Types, GpuTypes
<1>2. ASSUME NEW r \in DOMAIN asked
      PROVE  asked[r] \in Request /\ asked[r].kind # "none"
  <2>1. asked[r] \in Request
    BY <1>1 DEF Asking
  <2> QED BY <2>1 DEF Request
<1>3. ASSUME NEW s, NEW i, At(s, i, states)
      PROVE  PlaceAt(s, i, states) \in Place /\ PlaceAt(s, i, states).req \in DOMAIN asked
  <2>1. s \in DOMAIN states /\ i \in DOMAIN states[s].pend
    BY <1>3 DEF At
  <2>2. states[s] \in List
    BY <1>1, <2>1 DEF Asking
  <2>3. states[s].pend \in Seq(Place)
    BY <2>2 DEF List
  <2> QED BY <1>1, <2>1, <2>3 DEF Asking, PlaceAt
<1> QED BY <1>1, <1>2, <1>3 DEF Asking, Named, Fields, Places

(* The loop over a list finds nothing, or tells the guest of one request.  *)
LEMMA DispatchKeeps ==
    ASSUME NEW lists, NEW s \in Nat, NEW i \in Nat \ {0}, NEW pend \in Seq(Place),
           s \in DOMAIN lists, lists[s].pend = pend,
           NEW below \in Seq(Frame), Dispatch(s, i, pend, below),
           Named(lists, asked), Fields(asked), Kept(lists, asked, Calls(below), tangled)
    PROVE  Kept(lists, asked', Calls(frames'), tangled')
<1>1. PICK due : due = {j \in i .. Len(pend) : pend[j].done /\ pend[j].kind # "none"}
  OBVIOUS
<1>2. CASE frames' = below /\ UNCHANGED <<asked, tangled>>
  BY <1>2
<1>3. ASSUME NEW j \in due, frames' = Append(below, [s |-> s, i |-> j]),
             asked' = [asked EXCEPT ![pend[j].req].told = @ + 1],
             tangled' = IF [s |-> s, i |-> j] \in {below[k] : k \in DOMAIN below}
                          THEN tangled \cup {pend[j].req} ELSE tangled
      PROVE  Kept(lists, asked', Calls(frames'), tangled')
  <2>1. j \in DOMAIN pend /\ pend[j].done /\ pend[j].kind # "none" /\ j \in Nat
    BY <1>1, LenProperties
  <2>2. PICK r : r = pend[j].req
    OBVIOUS
  <2>3. At(s, j, lists) /\ PlaceAt(s, j, lists) = pend[j]
    BY <2>1 DEF At, PlaceAt
  <2>4. PICK top \in Frame : top = Spot(s, j)
    BY <2>1 DEF Frame, Spot
  <2>5. frames' = Append(below, top)
    BY <1>3, <2>4 DEF Spot
  <2>6. /\ DOMAIN frames' = DOMAIN below \cup {Len(below) + 1} /\ frames'[Len(below) + 1] = top
        /\ \A k \in DOMAIN below : frames'[k] = below[k]
    BY <2>5, AppendProperties, LenProperties
  <2>7. Calls(frames') = Calls(below) \cup {top}
    BY <2>6 DEF Calls
  <2>8. tangled' = IF Spot(s, j) \in Calls(below) THEN tangled \cup {r} ELSE tangled
    BY Zenon, <1>3, <2>2 DEF Calls, Spot
  <2>9. asked' = [asked EXCEPT ![r].told = @ + 1] /\ DOMAIN asked' = DOMAIN asked
    BY <1>3, <2>2
  <2>10. Tells(r, s, j, lists, asked, Calls(below), tangled, asked', Calls(frames'), tangled')
    BY Zenon, <2>1, <2>2, <2>3, <2>4, <2>7, <2>8, <2>9 DEF Tells
  <2> QED BY <2>10, TellsKeeps
<1>4. \/ frames' = below /\ UNCHANGED <<asked, tangled>>
      \/ \E j \in due : /\ frames' = Append(below, [s |-> s, i |-> j])
                        /\ asked' = [asked EXCEPT ![pend[j].req].told = @ + 1]
                        /\ tangled' = IF [s |-> s, i |-> j] \in {below[k] : k \in DOMAIN below}
                                        THEN tangled \cup {pend[j].req} ELSE tangled
  BY Zenon, <1>1 DEF Dispatch
<1> QED BY <1>2, <1>3, <1>4

(* processEvents after the answers.                                        *)
LEMMA NativeDoneKeeps ==
    ASSUME Types, AllKept, NativeDone
    PROVE  AllKept'
<1>1. Asking /\ states' = states
  BY DEF Types, GpuTypes, NativeDone
<1>2. PICK s \in DOMAIN states : Dispatch(s, 1, states[s].pend, frames)
  BY DEF NativeDone, StateOf
<1>3. PICK one \in Nat \ {0} : one = 1
  OBVIOUS
<1>4. states[s] \in List /\ s \in Nat /\ frames \in Seq(Frame)
  BY <1>1, LenProperties DEF Asking, Frame
<1>5. PICK pend \in Seq(Place) : pend = states[s].pend
  BY <1>4 DEF List
<1>6. Dispatch(s, one, pend, frames)
  BY <1>2, <1>3, <1>5
<1>7. Kept(states, asked', Calls(frames'), tangled')
  BY <1>4, <1>5, <1>6, Ready, DispatchKeeps DEF AllKept
<1> QED BY <1>1, <1>7 DEF AllKept

(* The innermost frame and those below it.                                 *)
LEMMA BelowTop ==
    ASSUME NEW fs \in Seq(Frame), fs # <<>>
    PROVE  /\ Len(fs) \in DOMAIN fs /\ SubSeq(fs, 1, Len(fs) - 1) \in Seq(Frame)
           /\ Calls(SubSeq(fs, 1, Len(fs) - 1)) \subseteq Calls(fs)
           /\ Calls(fs) \subseteq Calls(SubSeq(fs, 1, Len(fs) - 1)) \cup {fs[Len(fs)]}
<1>1. PICK len \in Nat : len = Len(fs) /\ len > 0
  BY EmptySeq, LenProperties
<1>2. PICK m \in 0 .. Len(fs) : m = len - 1 /\ m + 1 = len
  BY <1>1
<1>3. /\ SubSeq(fs, 1, m) \in Seq(Frame) /\ Len(SubSeq(fs, 1, m)) = m
      /\ \A k \in 1 .. m : SubSeq(fs, 1, m)[k] = fs[k]
  BY SMT
<1>4. PICK below \in Seq(Frame) : below = SubSeq(fs, 1, m)
  BY <1>3
<1>5. DOMAIN below = 1 .. m /\ DOMAIN fs = 1 .. len /\ \A k \in 1 .. m : below[k] = fs[k]
  BY <1>1, <1>3, <1>4, LenProperties
<1>6. 1 .. len = (1 .. m) \cup {len} /\ len \in 1 .. len
  BY <1>1, <1>2
<1>7. Calls(below) \subseteq Calls(fs) /\ Calls(fs) \subseteq Calls(below) \cup {fs[len]}
  BY <1>5, <1>6 DEF Calls
<1> QED BY <1>1, <1>2, <1>4, <1>5, <1>6, <1>7

(* A callback returns: its place is empty, and the loop goes on.           *)
LEMMA CallbackReturnsKeeps ==
    ASSUME Types, AllKept, CallbackReturns
    PROVE  AllKept'
<1>1. Asking /\ frames \in Seq(Frame) /\ frames # <<>>
  BY DEF CallbackReturns, Types, GpuTypes, Asking, Frame
<1>2. PICK below \in Seq(Frame) : below = SubSeq(frames, 1, Len(frames) - 1)
  BY <1>1, BelowTop
<1>3. PICK top \in Frame : top = frames[Len(frames)] /\ Len(frames) \in DOMAIN frames
  BY <1>1, BelowTop
<1>4. PICK s \in Nat, i \in Nat : s = top.s /\ i = top.i
  BY DEF Frame
<1>5. At(s, i, states) /\ i # 0
  <2>1. At(s, i, states)
    BY <1>1, <1>3, <1>4 DEF Asking
  <2>2. states[s].pend \in Seq(Place)
    <3>1. states[s] \in List
      BY <1>1, <2>1 DEF Asking, At
    <3> QED BY <3>1 DEF List
  <2> QED BY <2>1, <2>2, LenProperties DEF At
<1>6. top = Spot(s, i)
  BY <1>4 DEF Frame, Spot
<1>7. states[s] \in List /\ states[s].pend \in Seq(Place) /\ states[s].pend[i] \in Place
  <2>1. states[s] \in List
    BY <1>1, <1>5 DEF Asking, At
  <2> QED BY <1>5, <2>1 DEF List, At
<1>8. PICK p : p = [states[s].pend[i] EXCEPT !.kind = "none", !.done = FALSE]
  OBVIOUS
<1>9. PICK pend : pend = [states[s].pend EXCEPT ![i] = p]
  OBVIOUS
<1>10. p \in Place /\ p.kind = "none"
  BY <1>7, <1>8 DEF Place
<1>11. pend \in Seq(Place) /\ DOMAIN pend = DOMAIN states[s].pend /\ pend[i] = p
       /\ \A j \in DOMAIN pend : j # i => pend[j] = states[s].pend[j]
  BY <1>5, <1>7, <1>9, <1>10 DEF At
<1>12. pend = [states[s].pend EXCEPT ![i].kind = "none", ![i].done = FALSE]
  BY <1>5, <1>7, <1>8, <1>9 DEF At
<1>13. states' = [states EXCEPT ![s].pend = pend] /\ Dispatch(s, i + 1, pend, below)
  BY Zenon, <1>2, <1>3, <1>4, <1>12 DEF CallbackReturns
<1>14. PICK lists : lists = states'
  OBVIOUS
<1>15. s \in DOMAIN states /\ states \in Seq(List)
  BY <1>1, <1>5 DEF At, Asking
<1>16. /\ DOMAIN lists = DOMAIN states /\ lists[s].pend = pend
       /\ \A m \in DOMAIN states : m # s => lists[m] = states[m]
  BY <1>7, <1>13, <1>14, <1>15 DEF List
<1>17. /\ \A m, j : At(m, j, lists) <=> At(m, j, states)
       /\ \A m, j : At(m, j, states) /\ ~(m = s /\ j = i) => PlaceAt(m, j, lists) = PlaceAt(m, j, states)
       /\ PlaceAt(s, i, lists).kind = "none" /\ PlaceAt(s, i, lists).req \in DOMAIN asked
       /\ \A m, j : At(m, j, lists) => PlaceAt(m, j, lists).req \in DOMAIN asked
  <2>1. p.req = states[s].pend[i].req
    BY <1>7, <1>8 DEF Place
  <2>2. \A m, j : At(m, j, lists) <=> At(m, j, states)
    BY <1>11, <1>16 DEF At
  <2>3. \A m, j : At(m, j, states) /\ ~(m = s /\ j = i) => PlaceAt(m, j, lists) = PlaceAt(m, j, states)
    BY <1>11, <1>16 DEF At, PlaceAt
  <2>4. PlaceAt(s, i, lists).kind = "none" /\ PlaceAt(s, i, lists).req = PlaceAt(s, i, states).req
    BY <1>10, <1>11, <1>16, <2>1 DEF PlaceAt
  <2> QED BY <1>5, <2>2, <2>3, <2>4, Ready DEF Named
<1>18. Clears(s, i, states, Calls(frames), lists, Calls(below))
  <2>1. top \in Calls(frames)
    BY <1>3 DEF Calls
  <2>2. Calls(below) \subseteq Calls(frames) /\ Calls(frames) \subseteq Calls(below) \cup {top}
    BY <1>1, <1>2, <1>3, BelowTop
  <2> QED BY <1>6, <1>17, <2>1, <2>2 DEF Clears
<1>19. Kept(lists, asked, Calls(below), tangled)
  BY <1>18, Ready, ClearsKeeps DEF AllKept
<1>20. Named(lists, asked) /\ Fields(asked)
  BY <1>17, Ready DEF Named
<1>21. PICK from \in Nat \ {0} : from = i + 1
  OBVIOUS
<1>22. Dispatch(s, from, pend, below)
  BY <1>13, <1>21
<1>23. Kept(lists, asked', Calls(frames'), tangled')
  <2>1. s \in DOMAIN lists
    BY <1>15, <1>16
  <2> QED BY <1>11, <1>16, <1>19, <1>20, <1>22, <2>1, DispatchKeeps
<1> QED BY <1>14, <1>23 DEF AllKept

(* A request gets a place, its own unless a callback runs there or another *)
(* request waits for its answer there.                                     *)
LEMMA AskKeeps ==
    ASSUME Types, AllKept, NEW kind \in {"adapter", "device"}, NEW s \in DOMAIN states, NEW inst \in Nat,
           Ask(kind, s, inst)
    PROVE  AllKept'
<1>1. Asking /\ states[s] \in List /\ states[s].pend \in Seq(Place) /\ asked \in Seq(Request)
      /\ states \in Seq(List)
  <2>1. Asking
    BY DEF Types, GpuTypes
  <2>2. states[s] \in List
    BY <2>1 DEF Asking
  <2> QED BY <2>1, <2>2 DEF Asking, List
<1>2. PICK old \in Seq(Place) : old = states[s].pend
  BY <1>1
<1>3. PICK r \in Nat : r = Len(asked) + 1 /\ Len(asked) \in Nat
  BY <1>1, LenProperties
<1>4. PICK p : p = [kind |-> kind, req |-> r, done |-> FALSE]
  OBVIOUS
<1>5. PICK i \in 1 .. MaxPending :
        /\ PendingAlloc(s, i)
        /\ states' = [states EXCEPT ![s].pend = IF i > Len(@) THEN Append(@, p) ELSE [@ EXCEPT ![i] = p]]
        /\ asked' = Append(asked, [kind |-> kind, inst |-> inst, s |-> s, i |-> i,
                                   answered |-> FALSE, told |-> 0])
        /\ tangled' = IF Running(s, i) \/ Awaiting(s, i) THEN tangled \cup {r} ELSE tangled
        /\ frames' = frames
  BY Zenon, <1>3, <1>4 DEF Ask
<1>6. PICK q : q = [kind |-> kind, inst |-> inst, s |-> s, i |-> i, answered |-> FALSE, told |-> 0]
  OBVIOUS
<1>7. /\ r \notin DOMAIN asked /\ DOMAIN asked' = DOMAIN asked \cup {r} /\ asked'[r] = q
      /\ \A m \in DOMAIN asked : asked'[m] = asked[m]
      /\ q.s = s /\ q.i = i /\ q.kind = kind /\ q.answered = FALSE /\ q.told = 0
  <2>1. asked' = Append(asked, q)
    BY <1>5, <1>6
  <2>2. q \in Request
    BY <1>1, <1>5, <1>6, GpuAssumption, LenProperties DEF Request
  <2>3. /\ DOMAIN asked' = 1 .. Len(asked) + 1 /\ asked'[Len(asked) + 1] = q
        /\ \A m \in 1 .. Len(asked) : asked'[m] = asked[m] /\ DOMAIN asked = 1 .. Len(asked)
    BY <1>1, <2>1, <2>2, AppendProperties, LenProperties
  <2>4. DOMAIN asked = 1 .. Len(asked)
    BY <1>1, LenProperties
  <2> QED BY <1>3, <1>6, <2>3, <2>4
<1>8. PICK pend : pend = IF i > Len(old) THEN Append(old, p) ELSE [old EXCEPT ![i] = p]
  OBVIOUS
<1>9. Len(old) \in Nat /\ DOMAIN old = 1 .. Len(old) /\ p \in Place
  BY <1>3, <1>4, LenProperties DEF Place
<1>10. i = Len(old) + 1 \/ (i \in 1 .. Len(old) /\ old[i].kind = "none")
  BY <1>2, <1>5, <1>9 DEF PendingAlloc, Lowest
<1>11. /\ DOMAIN pend \subseteq DOMAIN old \cup {i} /\ pend[i] = p
       /\ \A j \in DOMAIN old : j \in DOMAIN pend /\ (j # i => pend[j] = old[j])
       /\ i \in DOMAIN old => old[i].kind = "none"
  <2>1. CASE i = Len(old) + 1
    <3>1. pend = Append(old, p)
      <4>1. i > Len(old)
        BY <1>9, <2>1
      <4> QED BY Zenon, <1>8, <4>1
    <3>2. pend \in Seq(Place) /\ Len(pend) = Len(old) + 1 /\ pend[Len(old) + 1] = p
          /\ \A j \in 1 .. Len(old) : pend[j] = old[j]
      BY <1>9, <3>1, AppendProperties
    <3> QED BY <1>9, <2>1, <3>2, LenProperties
  <2>2. CASE i \in 1 .. Len(old) /\ old[i].kind = "none"
    <3>1. pend = [old EXCEPT ![i] = p] /\ i \in DOMAIN old
      <4>1. ~(i > Len(old)) /\ i \in DOMAIN old
        BY <1>9, <2>2
      <4> QED BY Zenon, <1>8, <4>1
    <3> QED BY <2>2, <3>1
  <2> QED BY <1>10, <2>1, <2>2
<1>12. states' = [states EXCEPT ![s].pend = pend]
  BY Zenon, <1>2, <1>5, <1>8
<1>13. /\ DOMAIN states' = DOMAIN states /\ states'[s].pend = pend
       /\ \A m \in DOMAIN states : m # s => states'[m] = states[m]
  BY <1>1, <1>12 DEF List
<1>14. PICK lists, reqs, gone : lists = states' /\ reqs = asked' /\ gone = tangled'
  OBVIOUS
<1>15. /\ \A m, j : At(m, j, lists) => At(m, j, states) \/ (m = s /\ j = i)
       /\ \A m, j : At(m, j, states) /\ ~(m = s /\ j = i) => PlaceAt(m, j, lists) = PlaceAt(m, j, states)
       /\ At(s, i, states) => PlaceAt(s, i, states).kind = "none"
       /\ PlaceAt(s, i, lists) = [kind |-> kind, req |-> r, done |-> FALSE]
  <2>1. \A m, j : At(m, j, lists) => At(m, j, states) \/ (m = s /\ j = i)
    BY <1>2, <1>11, <1>13, <1>14 DEF At
  <2>2. \A m, j : At(m, j, states) /\ ~(m = s /\ j = i) => PlaceAt(m, j, lists) = PlaceAt(m, j, states)
    BY <1>2, <1>11, <1>13, <1>14 DEF At, PlaceAt
  <2>3. At(s, i, states) => PlaceAt(s, i, states).kind = "none"
    BY <1>2, <1>11 DEF At, PlaceAt
  <2>4. PlaceAt(s, i, lists) = p
    BY <1>11, <1>13, <1>14 DEF PlaceAt
  <2> QED BY <1>4, <2>1, <2>2, <2>3, <2>4
<1>16. /\ tangled \subseteq gone
       /\ r \notin gone => /\ Spot(s, i) \notin Calls(frames)
                           /\ \A m \in DOMAIN asked : ~asked[m].answered => ~(asked[m].s = s /\ asked[m].i = i)
  BY <1>5, <1>14 DEF Running, Awaiting, Spot, Calls
<1>17. Asks(r, s, i, kind, states, asked, Calls(frames), tangled, lists, reqs, gone)
  BY <1>7, <1>14, <1>15, <1>16 DEF Asks
<1>18. Kept(lists, reqs, Calls(frames), gone)
  BY <1>17, Ready, AsksKeeps DEF AllKept
<1> QED BY <1>5, <1>14, <1>18 DEF AllKept

(* wgpu-native answers.                                                    *)
LEMMA AnswerKeeps ==
    ASSUME Types, AllKept, NEW r \in DOMAIN asked, Answer(r)
    PROVE  AllKept'
<1>1. Asking /\ asked \in Seq(Request) /\ asked[r] \in Request
  BY DEF Types, GpuTypes, Asking
<1>2. PICK a \in Request : a = asked[r]
  BY <1>1
<1>3. /\ asked' = [asked EXCEPT ![r].answered = TRUE] /\ ~a.answered
      /\ states' = [states EXCEPT ![a.s].pend[a.i].done = TRUE]
      /\ UNCHANGED <<frames, tangled>>
  BY <1>2 DEF Answer
<1>4. PICK s, i : s = a.s /\ i = a.i
  OBVIOUS
<1>5. At(s, i, states) /\ states[s] \in List /\ states[s].pend \in Seq(Place) /\ states \in Seq(List)
  <2>1. At(s, i, states)
    BY <1>1, <1>2, <1>4 DEF Asking
  <2>2. states[s] \in List
    BY <1>1, <2>1 DEF Asking, At
  <2> QED BY <1>1, <2>1, <2>2 DEF List, Asking
<1>6. PICK p : p = [states[s].pend[i] EXCEPT !.done = TRUE]
  OBVIOUS
<1>7. PICK pend : pend = [states[s].pend EXCEPT ![i] = p]
  OBVIOUS
<1>8. PICK l : l = [states[s] EXCEPT !.pend = pend]
  OBVIOUS
<1>9. states' = [states EXCEPT ![s] = l]
  BY Zenon, <1>3, <1>4, <1>6, <1>7, <1>8
<1>10. DOMAIN pend = DOMAIN states[s].pend /\ pend[i] = p /\ l.pend = pend
       /\ \A j \in DOMAIN pend : j # i => pend[j] = states[s].pend[j]
  BY <1>5, <1>7, <1>8 DEF At, List
<1>11. PICK lists, reqs : lists = states' /\ reqs = asked'
  OBVIOUS
<1>12. /\ DOMAIN lists = DOMAIN states /\ lists[s] = l
       /\ \A m \in DOMAIN states : m # s => lists[m] = states[m]
  BY <1>5, <1>9, <1>11 DEF At
<1>13. /\ \A m, j : At(m, j, lists) <=> At(m, j, states)
       /\ \A m, j : At(m, j, states) /\ ~(m = s /\ j = i) => PlaceAt(m, j, lists) = PlaceAt(m, j, states)
       /\ PlaceAt(s, i, lists) = [PlaceAt(s, i, states) EXCEPT !.done = TRUE]
  <2>1. \A m, j : At(m, j, lists) <=> At(m, j, states)
    BY <1>10, <1>12 DEF At
  <2>2. \A m, j : At(m, j, states) /\ ~(m = s /\ j = i) => PlaceAt(m, j, lists) = PlaceAt(m, j, states)
    BY <1>10, <1>12 DEF At, PlaceAt
  <2>3. PlaceAt(s, i, lists) = p
    BY <1>10, <1>12 DEF PlaceAt
  <2> QED BY Zenon, <1>6, <2>1, <2>2, <2>3 DEF PlaceAt
<1>14. /\ DOMAIN reqs = DOMAIN asked /\ reqs[r] = [asked[r] EXCEPT !.answered = TRUE]
       /\ \A m \in DOMAIN asked : m # r => reqs[m] = asked[m]
  BY <1>3, <1>11
<1>15. Answers(r, states, asked, lists, reqs)
  BY Zenon, <1>2, <1>3, <1>4, <1>13, <1>14 DEF Answers
<1>16. Kept(lists, reqs, Calls(frames), tangled)
  BY <1>15, Ready, AnswersKeeps DEF AllKept
<1> QED BY <1>3, <1>11, <1>16 DEF AllKept

(* A new state has no places yet.                                          *)
LEMMA ReserveKeeps ==
    ASSUME Types, AllKept, NEW addr, Reserve(addr), UNCHANGED <<asked, frames, tangled>>
    PROVE  AllKept'
<1>1. CASE states' = states
  BY <1>1 DEF AllKept
<1>2. CASE states' = Append(states, [addr |-> addr, pend |-> <<>>])
  <2>1. PICK new : new = [addr |-> addr, pend |-> <<>>]
    OBVIOUS
  <2>2. new.pend = <<>> /\ DOMAIN new.pend = {}
    BY <2>1, EmptySeq
  <2>3. states \in Seq(List) /\ Len(states) \in Nat /\ DOMAIN states = 1 .. Len(states)
    BY LenProperties DEF Types, GpuTypes, Asking
  <2>4. PICK lists : lists = states'
    OBVIOUS
  <2>5. /\ DOMAIN lists = DOMAIN states \cup {Len(states) + 1} /\ lists[Len(states) + 1] = new
        /\ \A s \in DOMAIN states : lists[s] = states[s]
    BY <1>2, <2>1, <2>3, <2>4
  <2>6. \A m, j : /\ At(m, j, lists) <=> At(m, j, states)
                  /\ At(m, j, lists) => PlaceAt(m, j, lists) = PlaceAt(m, j, states)
    BY <2>2, <2>3, <2>5 DEF At, PlaceAt
  <2>7. Kept(lists, asked, Calls(frames), tangled)
    <3>1. ASSUME NEW m, NEW j, At(m, j, lists)
          PROVE  PlaceKept(m, j, lists, asked, Calls(frames), tangled)
      <4>1. PlaceKept(m, j, states, asked, Calls(frames), tangled) /\ PlaceAt(m, j, lists) = PlaceAt(m, j, states)
        BY <2>6, <3>1 DEF AllKept, Kept
      <4> QED BY <4>1 DEF PlaceKept
    <3>2. ASSUME NEW r \in DOMAIN asked \ tangled
          PROVE  RequestKept(r, lists, asked, Calls(frames))
      <4>1. RequestKept(r, states, asked, Calls(frames)) /\ At(asked[r].s, asked[r].i, states)
        BY <3>2, Ready DEF AllKept, Kept, Named
      <4>2. PlaceAt(asked[r].s, asked[r].i, lists) = PlaceAt(asked[r].s, asked[r].i, states)
        BY <2>6, <4>1
      <4> QED BY <4>1, <4>2 DEF RequestKept
    <3> QED BY <3>1, <3>2 DEF Kept
  <2> QED BY <2>4, <2>7 DEF AllKept
<1> QED BY <1>1, <1>2 DEF Reserve

(* Every step of the bridge.                                               *)
LEMMA GpuStepKeeps ==
    ASSUME Types, AllKept, GpuStep
    PROVE  AllKept'
<1>1. ASSUME UNCHANGED <<states, asked, frames, tangled>> PROVE AllKept'
  BY <1>1 DEF AllKept
<1>2. CASE (\E addr \in Address : CreateInstance(addr)) \/ RequestReturns
  BY <1>1, <1>2 DEF CreateInstance, RequestReturns, gpuVars
<1>3. CASE EnterGpu
  BY <1>1, <1>3, ReserveKeeps DEF EnterGpu
<1>4. CASE NativeDone
  BY <1>4, NativeDoneKeeps
<1>5. CASE CallbackReturns
  BY <1>5, CallbackReturnsKeeps
<1>6. ASSUME NEW r \in DOMAIN asked, Answer(r) PROVE AllKept'
  BY <1>6, AnswerKeeps
<1>7. ASSUME NEW h \in Handle, CreateChild(h) PROVE AllKept'
  BY <1>1, <1>7 DEF CreateChild, CreateSurface, GetCurrentTexture, CreateView, GetQueue,
     CreateShaderModule, CreateRenderPipeline, CreateBuffer, CreateSampler,
     CreateBindGroupLayout, CreateBindGroup, CreatePipelineLayout, CreateTexture,
     CreateCommandEncoder, BeginRenderPass, Finish, CreateFrom
<1>8. ASSUME NEW h \in Handle, UseGpu(h) \/ ReleaseGpu(h) \/ ProcessEvents(h) PROVE AllKept'
  BY <1>1, <1>8 DEF UseGpu, ReleaseGpu, ProcessEvents, gpuVars
<1>9. ASSUME NEW h \in Handle, RequestAdapter(h) \/ RequestDevice(h) PROVE AllKept'
  <2>1. htype[h] \in {"instance", "adapter"} /\ data[h].n \in DOMAIN gpu /\ data[h].n \in Nat
    BY <1>9 DEF Types, TableTypes, Refers, Data, OsTypes, GpuType, RequestAdapter, RequestDevice, IsA
  <2>2. InstanceOf(h) \in Nat
    BY <2>1 DEF InstanceOf, Types, GpuTypes
  <2>3. CASE RequestAdapter(h)
    <3>1. PICK s \in DOMAIN states : Ask("adapter", s, data[h].n)
      BY <2>3 DEF RequestAdapter, StateOf
    <3> QED BY <2>1, <3>1, AskKeeps
  <2>4. CASE RequestDevice(h)
    <3>1. 1 \in DOMAIN states
      BY <2>4, EmptySeq, LenProperties DEF RequestDevice, Types, GpuTypes, Asking
    <3>2. PICK s \in DOMAIN states : s = 1
      BY <3>1
    <3>3. Ask("device", s, InstanceOf(h))
      BY <2>4, <3>2 DEF RequestDevice
    <3> QED BY <2>2, <3>3, AskKeeps
  <2> QED BY <1>9, <2>3, <2>4
<1> QED BY <1>2, <1>3, <1>4, <1>5, <1>6, <1>7, <1>8, <1>9 DEF GpuStep

(* Every adapter or device asked for is answered to the guest at most      *)
(* once, by its own answer, unless its place was given away.               *)
THEOREM RequestsAnswered == Spec => []RequestsKept
<1>1. ASSUME Types, AllKept PROVE RequestsKept
  <2> SUFFICES ASSUME NEW r \in DOMAIN asked \ tangled
               PROVE  LET a == asked[r]
                      IN  /\ a.told <= 1 /\ (a.told = 1 => a.answered)
                          /\ a.told = 0 =>
                               states[a.s].pend[a.i] = [kind |-> a.kind, req |-> r, done |-> a.answered]
    BY DEF RequestsKept
  <2>1. RequestKept(r, states, asked, Calls(frames))
    BY <1>1 DEF AllKept, Kept
  <2> QED BY <2>1 DEF RequestKept, PlaceAt
<1>2. Init => Types /\ AllKept
  <2> SUFFICES ASSUME Init PROVE AllKept
    BY InitTypes
  <2>1. DOMAIN asked = {} /\ DOMAIN states = {}
    BY EmptySeq DEF Init, GpuInit
  <2> QED BY <2>1 DEF AllKept, Kept, At
<1>3. Types /\ AllKept /\ [Next]_vars => (Types /\ AllKept)'
  <2> SUFFICES ASSUME Types, AllKept, [Next]_vars PROVE AllKept'
    BY StepTypes
  <2>1. CASE UNCHANGED gpuVars
    BY <2>1 DEF AllKept, gpuVars
  <2>2. CASE GpuStep
    BY <2>2, GpuStepKeeps
  <2> QED BY <2>1, <2>2 DEF Next, Rest, vars, otherVars
<1> QED BY <1>1, <1>2, <1>3, PTL DEF Spec

-----------------------------------------------------------------------------
(* Who holds the open objects: handles, the call in progress (0), or nobody*)
(* who will close them (Limit).                                            *)

Holders == Handle \cup {0, Limit}

(* What the host keeps of a connection; ObjectsOf as an operator.          *)
Behind(n, conns) ==
    CASE conns[n].kind = "tcp"  -> {Sock(n)}
      [] conns[n].kind = "tls"  -> {Sock(n), Tls(n)}
      [] conns[n].kind = "quic" -> Session(n) \cup {Conn(n), Strm(n)}

(* What an entry holds, by its type and data; OwnedBy as an operator.      *)
Owns(t, d, conns, desks) ==
    CASE t = "process"   -> {Object("process", d.n)}
      [] t = "pipe"      -> {Parent(d.n, d.stream)}
      [] t = "conn"      -> Behind(d.n, conns)
      [] t \in DeskKind  -> ObjectsFor(t, d.n) \cup
           {Object("menu", m) : m \in IF t = "tray" THEN {desks[d.n].inner} \ {0} ELSE {}}
      [] t \in GpuType   -> {Native(d.n)}
      [] OTHER           -> {}

(* The streams create has been through, and those it has not wrapped yet.  *)
Before == [stdin |-> {}, stdout |-> {"stdin"}, stderr |-> {"stdin", "stdout"}, spawn |-> Stream]
Ahead  == [stdin |-> Stream, stdout |-> {"stdout", "stderr"}, stderr |-> {"stderr"}]

Ends(n, S)    == {Parent(n, s) : s \in S} \cup {Child(n, s) : s \in S}
PipedIn(m)    == {s \in Stream : m[s] = "pipe"}
Started(n)    == {Object("process", n), Object("thread", n)}

(* What a connection in the making, or being closed, still has.            *)
Leftover(at, n, conns) ==
    CASE at = "handshake" -> {Sock(n)}
      [] at = "entry"     -> Behind(n, conns)
      [] at = "free"      -> Session(n)
      [] at \in {"close conn", "connected"} -> Session(n) \cup {Conn(n)}
      [] at \in {"close stream", "ready"}   -> Session(n) \cup {Conn(n), Strm(n)}
      [] OTHER            -> {}

InCall(o, conns) ==
    CASE o.call = "create" /\ o.at # "entry" -> Ends(o.n, PipedIn(o.mode) \cap Before[o.at])
      [] o.call = "create" /\ o.at = "entry" ->
           Started(o.n) \cup {Parent(o.n, s) : s \in PipedIn(o.mode)}
      [] o.call = "wrap" ->
           {Object("thread", o.n)} \cup {Parent(o.n, s) : s \in PipedIn(o.mode) \cap Ahead[o.at]}
      [] o.call \in {"connect", "close"} -> Leftover(o.at, o.n, conns)
      [] o.call = "make" -> ObjectsFor(o.at, o.n)
      [] o.call = "gpu"  -> {Native(o.n)}
      [] OTHER -> {}

(* Inner menus whose pointer was cut and WebGPU objects without an entry   *)
(* are nobody's.                                                           *)
Part(x) == IF x = 0 THEN InCall(op, net)
           ELSE IF x = Limit THEN lost \cup leaked
           ELSE IF op.call = "close" /\ x = op.h THEN {}
           ELSE Owns(htype[x], data[x], net, desk)

(* The null devices a child inherits are closed by nobody.                 *)
Solid(objects) == {o \in objects : o[1] # "nul"}

(* Every other open object is held, by one holder.                         *)
Tidy(P, S) ==
    /\ \A x \in Holders : P[x] \subseteq S
    /\ \A o \in S : \E x \in Holders : o \in P[x]
    /\ \A x, y \in Holders : \A o \in P[x] : o \in P[y] => x = y

Ledger == [x \in Holders |-> Part(x)]
Booked == Tidy(Ledger, Solid(os))

(* A creation's number is on nothing but what the creation made.           *)
Fresh == op.call \in {"create", "connect"} =>
           \A o \in Solid(os) : o[2] = op.n => o \in Part(0)

(* The null devices that a failing create closes are open.                 *)
NulsOpen == op.call = "create" /\ op.at # "entry" =>
              UNION {NeededFor(s) : s \in Before[op.at]} \subseteq os

(* A callback that is under way has its stream.                            *)
Heard == \A n \in DOMAIN net : quic[n].cb => Strm(n) \in os

(* The menus, and the trays, by number; each has a token of its own.       *)
Numbers(kind, types, entries, o) ==
    {entries[h].n : h \in {g \in Handle : types[g] = kind}}
       \cup (IF o.call = "make" /\ o.at = kind THEN {o.n} ELSE {})

Tokens ==
    /\ \A kind \in TokenKind :
         LET own == Numbers(kind, htype, data, op)
         IN  /\ taken[kind] = {desk[n].token : n \in own}
             /\ \A m, n \in own : desk[m].token = desk[n].token => m = n
    /\ \A t \in SmallToken :
         menus[t] # 0 => /\ menus[t] \in Numbers("menu", htype, data, op)
                         /\ desk[menus[t]].token = t
    /\ op.call = "make" /\ op.at = "tray" => desk[op.n].inner = 0

(* A process names its own pipes, and only a process names any.            *)
Piping == \A h \in Handle, s \in Stream :
            LET p == data[h].pipes[s]
            IN  p # 0 => /\ htype[h] = "process" /\ htype[p] = "pipe"
                         /\ data[p].n = data[h].n /\ data[p].stream = s

Owners == Booked /\ ~misused /\ Fresh /\ NulsOpen /\ Heard /\ Tokens /\ Piping

(* The holders in X pass things on, close C and open N.                    *)
Passed(X, P, S, C, N, P1, S1) ==
    /\ \A o : o \in S1 <=> (o \in S /\ o \notin C) \/ o \in N
    /\ \A o \in N : o \notin S /\ \E x \in X : o \in P1[x]
    /\ \A o \in C : o \in S => \E x \in X : o \in P[x]
    /\ \A z \in Holders \ X : P1[z] = P[z]
    /\ \A x \in X : \A o \in P[x] : o \in C \/ \E y \in X : o \in P1[y]
    /\ \A x \in X : \A o \in P1[x] : o \in N \/ (o \notin C /\ \E y \in X : o \in P[y])
    /\ \A x, y \in X : \A o \in P1[x] : o \in P1[y] => x = y

(* Such a step keeps every object with one holder.                         *)
LEMMA TidyStep ==
    ASSUME NEW X \in SUBSET Holders, NEW P, NEW S, NEW C, NEW N, NEW P1, NEW S1,
           Passed(X, P, S, C, N, P1, S1), Tidy(P, S)
    PROVE  Tidy(P1, S1)
<1>1. ASSUME NEW x \in Holders, NEW o \in P1[x] PROVE o \in S1
  <2>1. CASE x \in X
    <3>1. o \in N \/ (o \notin C /\ \E y \in X : o \in P[y])
      BY <2>1 DEF Passed
    <3>2. ASSUME NEW y \in X, o \in P[y] PROVE o \in S
      BY <3>2 DEF Tidy
    <3> QED BY <3>1, <3>2 DEF Passed
  <2>2. CASE x \notin X
    <3>1. o \in P[x] /\ o \in S
      BY <2>2 DEF Passed, Tidy
    <3>2. ASSUME o \in C PROVE FALSE
      <4>1. PICK y \in X : o \in P[y]
        BY <3>1, <3>2 DEF Passed
      <4> QED BY <2>2, <3>1, <4>1 DEF Tidy
    <3> QED BY <3>1, <3>2 DEF Passed
  <2> QED BY <2>1, <2>2
<1>2. ASSUME NEW o \in S1 PROVE \E x \in Holders : o \in P1[x]
  <2>1. CASE o \in N
    BY <2>1 DEF Passed
  <2>2. CASE o \in S /\ o \notin C
    <3>1. PICK x \in Holders : o \in P[x]
      BY <2>2 DEF Tidy
    <3>2. CASE x \in X
      BY <2>2, <3>1, <3>2 DEF Passed
    <3>3. CASE x \notin X
      BY <3>1, <3>3 DEF Passed
    <3> QED BY <3>2, <3>3
  <2> QED BY <1>2, <2>1, <2>2 DEF Passed
<1>3. ASSUME NEW x \in Holders, NEW y \in Holders, NEW o, o \in P1[x], o \in P1[y], x \in X, y \notin X PROVE FALSE
  <2>1. o \in P[y] /\ o \in S
    BY <1>3 DEF Passed, Tidy
  <2>2. o \notin N
    BY <2>1 DEF Passed
  <2>3. PICK z \in X : o \in P[z]
    BY <1>3, <2>2 DEF Passed
  <2> QED BY <1>3, <2>1, <2>3 DEF Tidy
<1>4. ASSUME NEW x \in Holders, NEW y \in Holders, NEW o \in P1[x], o \in P1[y] PROVE x = y
  <2>1. CASE x \in X /\ y \in X
    BY <1>4, <2>1 DEF Passed
  <2>2. CASE x \notin X /\ y \notin X
    BY <1>4, <2>2 DEF Passed, Tidy
  <2> QED BY <1>3, <1>4, <2>1, <2>2
<1> QED BY <1>1, <1>2, <1>4 DEF Tidy

(* The same of the host: who gives up what, and who has what then.         *)
Gives(X, C, N) ==
    /\ \A o : o \in Solid(os') <=> (o \in Solid(os) /\ o \notin C) \/ o \in N
    /\ \A o \in N : o \notin Solid(os) /\ \E x \in X : o \in Part(x)'
    /\ \A o \in C : o \in Solid(os) => \E x \in X : o \in Part(x)
    /\ \A z \in Holders \ X : Part(z)' = Part(z)
    /\ \A x \in X : \A o \in Part(x) : o \in C \/ \E y \in X : o \in Part(y)'
    /\ \A x \in X : \A o \in Part(x)' : o \in N \/ (o \notin C /\ \E y \in X : o \in Part(y))
    /\ \A x, y \in X : \A o \in Part(x)' : o \in Part(y)' => x = y

(* A step of the host that is such a step keeps the books.                 *)
LEMMA Rebook ==
    ASSUME Booked, NEW X \in SUBSET Holders, NEW C, NEW N, Gives(X, C, N)
    PROVE  Booked'
<1>1. PICK P : P = [x \in Holders |-> Part(x)]
  OBVIOUS
<1>2. PICK P1 : P1 = [x \in Holders |-> Part(x)']
  OBVIOUS
<1>3. /\ \A x \in Holders : P[x] = Part(x) /\ P1[x] = Part(x)'
      /\ P = Ledger /\ P1 = Ledger'
  <2>1. Holders' = Holders
    BY DEF Holders, Handle
  <2> QED BY <1>1, <1>2, <2>1 DEF Ledger
<1>4. PICK S, S1 : S = Solid(os) /\ S1 = Solid(os')
  OBVIOUS
<1>5. Passed(X, P, S, C, N, P1, S1)
  <2>1. \A x \in X : x \in Holders
    OBVIOUS
  <2> QED BY <1>3, <1>4, <2>1 DEF Passed, Gives
<1>6. Tidy(P, S)
  BY <1>3, <1>4 DEF Booked
<1>7. Tidy(P1, S1)
  BY <1>5, <1>6, TidyStep
<1>8. Tidy(P1, S1) = Tidy(P1, S1)'
  BY DEF Tidy, Holders, Handle
<1> QED BY <1>3, <1>4, <1>7, <1>8 DEF Booked

(* What is held is open, and has one holder.                               *)
LEMMA HeldOpen ==
    ASSUME Booked, NEW x \in Holders, NEW o \in Part(x)
    PROVE  /\ o \in os /\ o \in Solid(os) /\ o[1] # "nul"
           /\ \A y \in Holders : o \in Part(y) => x = y
<1>1. \A y \in Holders : Ledger[y] = Part(y)
  BY DEF Ledger
<1>2. o \in Solid(os) /\ \A y \in Holders : o \in Part(y) => x = y
  BY <1>1 DEF Booked, Tidy
<1> QED BY <1>2 DEF Solid

(* What is open has a holder.                                              *)
LEMMA OpenHeld ==
    ASSUME Booked, NEW o \in os, o[1] # "nul"
    PROVE  \E x \in Holders : o \in Part(x)
<1>1. \A y \in Holders : Ledger[y] = Part(y)
  BY DEF Ledger
<1> QED BY <1>1 DEF Booked, Tidy, Solid

(* The holders are apart.                                                  *)
LEMMA HolderKinds ==
    /\ 0 \in Holders /\ Limit \in Holders /\ Handle \subseteq Holders
    /\ 0 \notin Handle /\ Limit \notin Handle /\ 0 # Limit
    /\ \A h \in Handle : h # 0 /\ h # Limit
BY HandleAssumption DEF Holders, Handle

(* What each of them has.                                                  *)
LEMMA PartOf ==
    /\ Part(0) = InCall(op, net)
    /\ Part(Limit) = lost \cup leaked
    /\ \A h \in Handle : ~(op.call = "close" /\ h = op.h) => Part(h) = Owns(htype[h], data[h], net, desk)
    /\ \A h \in Handle : op.call = "close" /\ h = op.h => Part(h) = {}
BY HolderKinds DEF Part

(* What each of them has after the step.                                   *)
LEMMA PartOfNext ==
    /\ Part(0)' = InCall(op', net')
    /\ Part(Limit)' = lost' \cup leaked'
    /\ \A h \in Handle : ~(op'.call = "close" /\ h = op'.h) => Part(h)' = Owns(htype'[h], data'[h], net', desk')
    /\ \A h \in Handle : op'.call = "close" /\ h = op'.h => Part(h)' = {}
BY HolderKinds DEF Part

-----------------------------------------------------------------------------
(* What a holder has, case by case.                                        *)

(* What an entry of a type holds.                                          *)
LEMMA OwnsWhat ==
    ASSUME NEW t, NEW d, NEW conns, NEW desks
    PROVE  /\ t = "process" => Owns(t, d, conns, desks) = {Object("process", d.n)}
           /\ t = "pipe" => Owns(t, d, conns, desks) = {Parent(d.n, d.stream)}
           /\ t = "conn" => Owns(t, d, conns, desks) = Behind(d.n, conns)
           /\ t \in DeskKind /\ t # "tray" => Owns(t, d, conns, desks) = ObjectsFor(t, d.n)
           /\ t = "tray" => Owns(t, d, conns, desks) =
                ObjectsFor(t, d.n) \cup {Object("menu", m) : m \in {desks[d.n].inner} \ {0}}
           /\ t \in GpuType => Owns(t, d, conns, desks) = {Native(d.n)}
           /\ t \in {"free", "other"} => Owns(t, d, conns, desks) = {}
BY DEF Owns, DeskKind, TokenKind, GpuType

(* What a connection of a kind has.                                        *)
LEMMA BehindWhat ==
    ASSUME NEW n, NEW conns
    PROVE  /\ conns[n].kind = "tcp" => Behind(n, conns) = {Sock(n)}
           /\ conns[n].kind = "tls" => Behind(n, conns) = {Sock(n), Tls(n)}
           /\ conns[n].kind = "quic" => Behind(n, conns) = Session(n) \cup {Conn(n), Strm(n)}
BY DEF Behind

(* What a connection has at each place of the call.                        *)
LEMMA LeftoverWhat ==
    ASSUME NEW n, NEW conns
    PROVE  /\ Leftover("handshake", n, conns) = {Sock(n)}
           /\ Leftover("entry", n, conns) = Behind(n, conns)
           /\ Leftover("free", n, conns) = Session(n)
           /\ \A at \in {"close conn", "connected"} : Leftover(at, n, conns) = Session(n) \cup {Conn(n)}
           /\ \A at \in {"close stream", "ready"} :
                Leftover(at, n, conns) = Session(n) \cup {Conn(n), Strm(n)}
           /\ \A at \in {"socket", "quic"} : Leftover(at, n, conns) = {}
BY DEF Leftover

(* What each call holds while it is under way.                             *)
LEMMA InCallWhat ==
    ASSUME NEW o, NEW conns
    PROVE  /\ o.call = "create" /\ o.at # "entry" =>
                InCall(o, conns) = Ends(o.n, PipedIn(o.mode) \cap Before[o.at])
           /\ o.call = "create" /\ o.at = "entry" =>
                InCall(o, conns) = Started(o.n) \cup {Parent(o.n, s) : s \in PipedIn(o.mode)}
           /\ o.call = "wrap" =>
                InCall(o, conns) = {Object("thread", o.n)} \cup
                                     {Parent(o.n, s) : s \in PipedIn(o.mode) \cap Ahead[o.at]}
           /\ o.call \in {"connect", "close"} => InCall(o, conns) = Leftover(o.at, o.n, conns)
           /\ o.call = "make" => InCall(o, conns) = ObjectsFor(o.at, o.n)
           /\ o.call = "gpu" => InCall(o, conns) = {Native(o.n)}
           /\ o.call \in {"none", "read", "write", "wait", "recv", "send", "request", "process"} =>
                InCall(o, conns) = {}
BY DEF InCall

(* What a step takes from nobody else's entries.                           *)
Busy(o, h) == o.call = "close" /\ h = o.h

SameEntry(h) ==
    /\ htype'[h] = htype[h] /\ data'[h].n = data[h].n /\ data'[h].stream = data[h].stream
    /\ htype[h] = "conn" => /\ net'[data[h].n].kind = net[data[h].n].kind
                            /\ net[data[h].n].kind \in {"tcp", "tls", "quic"}
    /\ htype[h] = "tray" => desk'[data[h].n].inner = desk[data[h].n].inner
    /\ Busy(op', h) <=> Busy(op, h)

(* An entry that says the same holds the same.                             *)
LEMMA SameOwns ==
    ASSUME NEW t, NEW d, NEW d1, NEW conns, NEW conns1, NEW desks, NEW desks1,
           d1.n = d.n, d1.stream = d.stream,
           t = "conn" => conns1[d.n].kind = conns[d.n].kind /\ conns[d.n].kind \in {"tcp", "tls", "quic"},
           t = "tray" => desks1[d.n].inner = desks[d.n].inner
    PROVE  Owns(t, d1, conns1, desks1) = Owns(t, d, conns, desks)
<1>1. CASE t = "conn"
  <2>1. Owns(t, d1, conns1, desks1) = Behind(d1.n, conns1)
    BY <1>1, OwnsWhat
  <2>2. Owns(t, d, conns, desks) = Behind(d.n, conns)
    BY <1>1, OwnsWhat
  <2>3. Behind(d.n, conns1) = Behind(d.n, conns)
    BY <1>1, BehindWhat
  <2> QED BY <2>1, <2>2, <2>3
<1>2. CASE t = "tray"
  BY <1>2, OwnsWhat
<1>3. CASE t \in DeskKind /\ t # "tray"
  BY <1>3, OwnsWhat
<1>4. CASE t \notin DeskKind /\ t # "conn"
  BY <1>4 DEF Owns
<1> QED BY <1>1, <1>2, <1>3, <1>4

(* A holder whose entry is the same has the same.                          *)
LEMMA EntryKept ==
    ASSUME NEW h \in Handle, SameEntry(h)
    PROVE  Part(h)' = Part(h)
<1>1. CASE Busy(op, h)
  BY <1>1, PartOf, PartOfNext DEF Busy, SameEntry
<1>2. CASE ~Busy(op, h)
  <2>1. Part(h) = Owns(htype[h], data[h], net, desk)
    BY <1>2, PartOf DEF Busy
  <2>2. Part(h)' = Owns(htype'[h], data'[h], net', desk')
    BY <1>2, PartOfNext DEF Busy, SameEntry
  <2>3. Owns(htype[h], data'[h], net', desk') = Owns(htype[h], data[h], net, desk)
    BY SameOwns DEF SameEntry
  <2> QED BY <2>1, <2>2, <2>3 DEF SameEntry
<1> QED BY <1>1, <1>2

(* The step leaves all entries and all strays as they are.                 *)
Alone ==
    /\ UNCHANGED <<htype, data, deskVars, leaked>>
    /\ \A n \in DOMAIN net : net'[n].kind = net[n].kind
    /\ \A h \in Handle : Busy(op', h) <=> Busy(op, h)

(* Then every handle, and nobody, has what it had.                         *)
LEMMA AloneKeeps ==
    ASSUME Types, Alone
    PROVE  /\ \A h \in Handle : Part(h)' = Part(h)
           /\ Part(Limit)' = Part(Limit)
<1>1. ASSUME NEW h \in Handle PROVE SameEntry(h)
  <2>1. htype[h] = "conn" => data[h].n \in DOMAIN net
    BY DEF Types, TableTypes, Refers
  <2>2. htype[h] = "conn" => net[data[h].n].kind \in {"tcp", "tls", "quic"}
    BY <2>1, ConnTyped
  <2> QED BY <2>1, <2>2 DEF Alone, SameEntry, deskVars
<1>2. \A h \in Handle : Part(h)' = Part(h)
  BY <1>1, EntryKept
<1> QED BY <1>2, PartOf, PartOfNext DEF Alone, deskVars

(* The call in progress closes C and opens N.                              *)
Mine(C, N) ==
    /\ \A o : o \in Solid(os') <=> (o \in Solid(os) /\ o \notin C) \/ o \in N
    /\ \A o \in N : o \notin Solid(os) /\ o \in Part(0)'
    /\ \A o \in C : o \in Solid(os) => o \in Part(0)
    /\ \A o \in Part(0) : o \in C \/ o \in Part(0)'
    /\ \A o \in Part(0)' : o \in N \/ (o \in Part(0) /\ o \notin C)

(* Such a call keeps the books.                                            *)
LEMMA CallBooked ==
    ASSUME Types, Booked, Alone, NEW C, NEW N, Mine(C, N)
    PROVE  Booked' /\ (op.call \in {"create", "connect"} /\ op'.n = op.n /\ Fresh => Fresh')
<1>1. PICK X \in SUBSET Holders : X = {0}
  BY HolderKinds
<1>2. \A z \in Holders \ X : Part(z)' = Part(z)
  BY <1>1, AloneKeeps DEF Holders
<1>3. Gives(X, C, N)
  BY <1>1, <1>2 DEF Mine, Gives
<1>5. Booked'
  BY <1>3, Rebook
<1>6. ASSUME op.call \in {"create", "connect"}, op'.n = op.n, Fresh, NEW o \in Solid(os'), o[2] = op'.n
      PROVE  o \in Part(0)'
  BY <1>6 DEF Mine, Fresh
<1>7. ASSUME op.call \in {"create", "connect"}, op'.n = op.n, Fresh PROVE Fresh'
  BY <1>6, <1>7 DEF Fresh, Solid
<1> QED BY <1>5, <1>7

(* Nothing is closed or opened, and the call has what it had.              *)
LEMMA StillBooked ==
    ASSUME Types, Booked, Alone, os' = os, Part(0)' = Part(0)
    PROVE  Booked' /\ (op.call \in {"create", "connect"} /\ op'.n = op.n /\ Fresh => Fresh')
<1>1. Mine({}, {})
  BY DEF Mine
<1> QED BY <1>1, CallBooked

(* Tokens stay where no menu or tray comes or goes.                        *)
LEMMA TokensKept ==
    ASSUME Tokens, UNCHANGED deskVars, op.call # "make", op'.call # "make",
           \A h \in Handle : htype[h] \in TokenKind \/ htype'[h] \in TokenKind =>
                               htype'[h] = htype[h] /\ data'[h].n = data[h].n
    PROVE  Tokens'
<1>1. \A kind \in TokenKind : Numbers(kind, htype', data', op') = Numbers(kind, htype, data, op)
  BY DEF Numbers
<1>2. UNCHANGED <<taken, menus, desk>>
  BY DEF deskVars
<1>3. "menu" \in TokenKind
  BY DEF TokenKind
<1>4. TokenKind' = TokenKind /\ SmallToken' = SmallToken
  BY DEF TokenKind, SmallToken
<1>5. PICK own : own = [kind \in TokenKind |-> Numbers(kind, htype, data, op)]
  OBVIOUS
<1>6. \A kind \in TokenKind : Numbers(kind, htype, data, op) = own[kind] /\ Numbers(kind, htype', data', op') = own[kind]
  BY <1>1, <1>5
<1>7. /\ \A kind \in TokenKind : /\ taken[kind] = {desk[n].token : n \in own[kind]}
                                 /\ \A m, n \in own[kind] : desk[m].token = desk[n].token => m = n
      /\ \A t \in SmallToken : menus[t] # 0 => menus[t] \in own["menu"] /\ desk[menus[t]].token = t
  BY <1>3, <1>6 DEF Tokens
<1>8. /\ \A kind \in TokenKind : /\ taken'[kind] = {desk'[n].token : n \in own[kind]}
                                 /\ \A m, n \in own[kind] : desk'[m].token = desk'[n].token => m = n
      /\ \A t \in SmallToken : menus'[t] # 0 => menus'[t] \in own["menu"] /\ desk'[menus'[t]].token = t
  BY <1>2, <1>7
<1> QED BY <1>3, <1>4, <1>6, <1>8 DEF Tokens

(* Entries change that are no pipes and name none.                         *)
LEMMA PipingKept ==
    ASSUME Piping,
           \A h \in Handle : \/ htype'[h] = htype[h] /\ data'[h] = data[h]
                             \/ htype[h] # "pipe" /\ \A s \in Stream : data'[h].pipes[s] = 0,
           TableTypes
    PROVE  Piping'
<1>1. ASSUME NEW h \in Handle, NEW s \in Stream, data'[h].pipes[s] # 0
      PROVE  LET p == data'[h].pipes[s]
             IN  /\ htype'[h] = "process" /\ htype'[p] = "pipe"
                 /\ data'[p].n = data'[h].n /\ data'[p].stream = s
  <2>1. htype'[h] = htype[h] /\ data'[h] = data[h]
    BY <1>1
  <2>2. PICK p : p = data[h].pipes[s]
    OBVIOUS
  <2>3. data[h] \in Data(made)
    BY DEF TableTypes
  <2>4. p \in Handle \cup {0}
    BY <2>2, <2>3 DEF Data
  <2>5. p \in Handle /\ htype[h] = "process" /\ htype[p] = "pipe" /\ data[p].n = data[h].n /\ data[p].stream = s
    BY <1>1, <2>1, <2>2, <2>4 DEF Piping
  <2>6. htype'[p] = htype[p] /\ data'[p] = data[p]
    BY <2>5
  <2> QED BY <2>1, <2>2, <2>5, <2>6
<1> QED BY <1>1 DEF Piping, Handle, Stream

(* What a call in progress is about, as its connection has it.             *)
LEMMA Backed ==
    ASSUME Types, Booked, NEW n, Conn(n) \in os \/ Strm(n) \in os
    PROVE  Session(n) \subseteq os
<1>1. PICK o \in {Conn(n), Strm(n)} : o \in os
  OBVIOUS
<1>2. o[1] \in {"conn", "stream"} /\ o[2] = n /\ o[1] # "nul"
  BY <1>1 DEF Conn, Strm, Object
<1>3. PICK x \in Holders : o \in Part(x)
  BY <1>1, <1>2, OpenHeld
<1>4. ASSUME Session(n) \subseteq Part(x) PROVE Session(n) \subseteq os
  BY <1>4, HeldOpen
<1>5. ASSUME NEW m, net[m].kind \in {"tcp", "tls", "quic"}, o \in Behind(m, net)
      PROVE  Session(n) \subseteq Behind(m, net)
  BY <1>2, <1>5, BehindWhat DEF Session, Conn, Strm, Sock, Tls, Object
<1>6. CASE x = 0
  <2>1. o \in InCall(op, net)
    BY <1>3, <1>6, PartOf
  <2>2. CASE op.call \in {"connect", "close"}
    <3>1. Part(x) = Leftover(op.at, op.n, net) /\ o \in Leftover(op.at, op.n, net)
      BY <1>3, <1>6, <2>2, PartOf, InCallWhat
    <3>2. CASE op.at = "entry"
      <4>1. op.n \in DOMAIN net
        BY <2>2, <3>2 DEF Types, OpTypes, QuicEnd
      <4>2. Part(x) = Behind(op.n, net) /\ net[op.n].kind \in {"tcp", "tls", "quic"}
        BY <3>1, <3>2, <4>1, LeftoverWhat, ConnTyped
      <4> QED BY <1>3, <1>4, <1>5, <4>2
    <3>3. CASE op.at # "entry"
      <4>1. Session(n) \subseteq Leftover(op.at, op.n, net)
        <5>1. PICK part : part = Leftover(op.at, op.n, net)
          OBVIOUS
        <5>2. \/ part = {Sock(op.n)} \/ part = {} \/ part = Session(op.n)
              \/ part = Session(op.n) \cup {Conn(op.n)} \/ part = Session(op.n) \cup {Conn(op.n), Strm(op.n)}
          BY Zenon, <3>3, <5>1 DEF Leftover
        <5>3. o \in part /\ o[1] \in {"conn", "stream"} /\ o[2] = n
          BY <1>2, <3>1, <5>1
        <5>4. n = op.n /\ Session(op.n) \subseteq part
          BY <5>2, <5>3 DEF Session, Conn, Strm, Sock, Object
        <5> QED BY <5>1, <5>4
      <4> QED BY <1>4, <3>1, <4>1
    <3> QED BY <3>2, <3>3
  <2>3. CASE op.call = "make"
    <3>1. o \in ObjectsFor(op.at, op.n) /\ op.at \in DeskKind
      BY <2>1, <2>3, InCallWhat DEF Types, OpTypes
    <3> QED BY <1>2, <3>1 DEF ObjectsFor, Object, DeskKind, TokenKind
  <2>4. CASE op.call \notin {"connect", "close", "make"}
    BY <1>2, <2>1, <2>4 DEF InCall, Ends, Started, Parent, Child, Object, Native
  <2> QED BY <2>2, <2>3, <2>4
<1>7. CASE x = Limit
  <2>1. o \in lost \cup leaked
    BY <1>3, <1>7, PartOf
  <2>2. o[1] \in {"menu", "gpu"}
    BY <2>1 DEF Types, DeskTypes, GpuTypes, Native, Object
  <2> QED BY <1>2, <2>2
<1>8. CASE x \in Handle
  <2>1. o \in Owns(htype[x], data[x], net, desk) /\ Part(x) = Owns(htype[x], data[x], net, desk)
    BY <1>3, <1>8, PartOf
  <2>2. CASE htype[x] = "conn"
    <3>1. Part(x) = Behind(data[x].n, net)
      BY <2>1, <2>2, OwnsWhat
    <3>2. net[data[x].n].kind \in {"tcp", "tls", "quic"}
      BY <1>8, <2>2, ConnTyped DEF Types, TableTypes, Refers
    <3> QED BY <1>3, <1>4, <1>5, <3>1, <3>2
  <2>3. CASE htype[x] # "conn"
    BY <1>2, <2>1, <2>3 DEF Owns, ObjectsFor, Object, Parent, Native, DeskKind, TokenKind
  <2> QED BY <2>2, <2>3
<1> QED BY <1>3, <1>6, <1>7, <1>8 DEF Holders

(* Closing or using what is open is no misuse.                             *)
LEMMA NoMisuse ==
    ASSUME ~misused, NEW S, S \subseteq os
    PROVE  /\ Close(S) => ~misused' /\ os' = os \ S
           /\ Uses(S) => ~misused'
           /\ Open(S) => ~misused' /\ os' = os \cup S
<1>1. Close(S) => ~misused' /\ os' = os \ S
  BY Zenon DEF Close
<1>2. Uses(S) => ~misused'
  BY Zenon DEF Uses
<1>3. Open(S) => ~misused' /\ os' = os \cup S
  BY DEF Open
<1> QED BY <1>1, <1>2, <1>3

-----------------------------------------------------------------------------
(* Steps of processes.                                                     *)

(* What the properties need is as it was.                                  *)
LEMMA OwnersSame ==
    ASSUME Types, Owners, UNCHANGED <<htype, data, os, misused, op, connVars, deskVars, leaked>>
    PROVE  Owners'
<1>1. Alone
  BY DEF Alone, connVars, Busy
<1>2. Part(0)' = Part(0)
  BY PartOf, PartOfNext DEF connVars
<1>3. Booked' /\ Fresh'
  <2>1. op.call \notin {"create", "connect"} => Fresh'
    BY DEF Fresh
  <2> QED BY <1>1, <1>2, <2>1, StillBooked DEF Owners
<1>4. NulsOpen'
  BY DEF Owners, NulsOpen, NeededFor, Before
<1>5. Heard'
  BY DEF Owners, Heard, connVars, Strm, Object
<1>6. Tokens'
  BY DEF Owners, Tokens, Numbers, deskVars, SmallToken, TokenKind
<1>7. Piping'
  BY DEF Owners, Piping, Handle, Stream
<1> QED BY <1>3, <1>4, <1>5, <1>6, <1>7 DEF Owners

(* A step of a call that is not about the table, nor about desktops.       *)
LEMMA TableAlone ==
    ASSUME Types, Owners, UNCHANGED <<htype, data, connVars, otherVars>>,
           op.call \notin {"make", "close"}, op'.call \notin {"make", "close"}
    PROVE  /\ Alone /\ Tokens' /\ Piping'
           /\ (\A n : Strm(n) \in os => Strm(n) \in os') => Heard'
<1>1. Alone
  BY DEF Alone, connVars, otherVars, gpuVars, Busy
<1>2. Tokens'
  BY TokensKept DEF Owners, otherVars
<1>3. Piping'
  BY PipingKept DEF Owners, Types
<1>4. (\A n : Strm(n) \in os => Strm(n) \in os') => Heard'
  BY DEF Owners, Heard, connVars
<1> QED BY <1>1, <1>2, <1>3, <1>4

(* The numbers of open objects.                                            *)
LEMMA Numbered ==
    ASSUME Types, NEW o \in os
    PROVE  o[2] \in 1 .. made /\ o[2] # made + 1 /\ o[2] <= made
<1>1. o[2] \in 1 .. made /\ made \in Nat
  BY DEF Types, OsTypes, Suits
<1> QED BY <1>1

(* What create opens for a stream.                                         *)
LEMMA NeededWhat ==
    ASSUME Types, NEW s \in Stream
    PROVE  /\ \A o \in NeededFor(s) : o[1] = "nul" \/ (op.mode[s] = "pipe" /\ o \in Ends(op.n, {s}))
           /\ op.mode[s] = "pipe" => NeededFor(s) = Ends(op.n, {s})
<1>1. op.mode[s] \in {"inherit", "pipe", "null"}
  BY DEF Types, OpTypes, Op
<1> QED BY <1>1 DEF NeededFor, Ends, Nul, Parent, Child

(* The ends of the pipes of some streams.                                  *)
LEMMA EndsWhat ==
    ASSUME NEW n, NEW S, NEW o
    PROVE  /\ o \in Ends(n, S) <=> \E s \in S : o = Parent(n, s) \/ o = Child(n, s)
           /\ o \in Ends(n, S) => o[2] = n /\ o[3] \in S /\ o[1] \in {"parent", "child"}
BY DEF Ends, Parent, Child

(* create begins: it has nothing yet.                                      *)
LEMMA CreateCallOwners ==
    ASSUME Types, Owners, NEW mode \in Modes, CreateCall(mode), UNCHANGED <<connVars, otherVars>>
    PROVE  Owners'
<1>1. PICK n : n = made + 1
  OBVIOUS
<1>2. /\ op'.call = "create" /\ op'.at = "stdin" /\ op'.n = n /\ op.call = "none"
      /\ UNCHANGED <<htype, data, os, misused>>
  BY <1>1 DEF CreateCall, NoOp, Idle
<1>3. Alone /\ Tokens' /\ Piping' /\ Heard'
  BY <1>2, TableAlone
<1>4. Part(0) = {} /\ Part(0)' = {}
  <2>1. InCall(op, net) = {}
    BY <1>2, InCallWhat
  <2>2. InCall(op', net') = Ends(op'.n, PipedIn(op'.mode) \cap Before["stdin"])
    BY <1>2, InCallWhat
  <2>3. Before["stdin"] = {}
    BY DEF Before
  <2>4. InCall(op', net') = {}
    BY <2>2, <2>3, EndsWhat
  <2> QED BY <2>1, <2>4, PartOf, PartOfNext
<1>5. Booked'
  BY <1>2, <1>3, <1>4, StillBooked DEF Owners
<1>6. Fresh'
  BY <1>1, <1>2, Numbered DEF Fresh, Solid
<1>7. NulsOpen'
  BY <1>2 DEF NulsOpen, Before
<1> QED BY <1>2, <1>3, <1>5, <1>6, <1>7 DEF Owners

(* What a step of create that fails closes is what create has.             *)
LEMMA CallFails ==
    ASSUME Types, Owners, UNCHANGED <<htype, data, connVars, otherVars>>,
           op.call \notin {"make", "close"}, op' = NoOp, NEW C, Close(C), C \subseteq os,
           \A o \in C : o[1] = "nul" \/ (o[1] # "stream" /\ o \in Part(0)), Part(0) \subseteq C
    PROVE  Owners'
<1>1. op'.call = "none"
  BY DEF NoOp
<1>2. ~misused' /\ os' = os \ C
  BY NoMisuse DEF Owners
<1>3. \A n : Strm(n) \in os => Strm(n) \in os'
  <2>1. \A n : Strm(n)[1] = "stream"
    BY DEF Strm, Object
  <2> QED BY <1>2, <2>1
<1>4. Alone /\ Tokens' /\ Piping' /\ Heard'
  BY <1>1, <1>3, TableAlone
<1>5. Part(0)' = {}
  BY <1>1, InCallWhat, PartOfNext
<1>6. Mine(C, {})
  BY <1>2, <1>5 DEF Mine, Solid
<1>7. Booked'
  BY <1>4, <1>6, CallBooked DEF Owners
<1>8. Fresh' /\ NulsOpen'
  BY <1>1 DEF Fresh, NulsOpen
<1> QED BY <1>2, <1>4, <1>7, <1>8 DEF Owners

(* create has gone through the streams before the one it is at.            *)
LEMMA InCreate ==
    ASSUME Types, NEW at \in Stream \cup {"spawn"}, In("create", at)
    PROVE  /\ Part(0) = Ends(op.n, PipedIn(op.mode) \cap Before[at])
           /\ op.call = "create" /\ op.at = at /\ op.at # "entry" /\ op \in Op
<1>1. op.call = "create" /\ op.at = at /\ op.at # "entry"
  BY DEF In, Stream
<1> QED BY <1>1, InCallWhat, PartOf DEF Types, OpTypes

(* create opens a stream's pipe or null device, or closes all it has.      *)
LEMMA SetUpOwners ==
    ASSUME Types, Owners, NEW s \in Stream, SetUp(s), UNCHANGED <<connVars, otherVars>>
    PROVE  Owners'
<1>1. /\ Part(0) = Ends(op.n, PipedIn(op.mode) \cap Before[s])
      /\ op.call = "create" /\ op.at = s /\ op.at # "entry" /\ op \in Op
  BY InCreate DEF SetUp
<1>2. PICK n, m : n = op.n /\ m = op.mode
  OBVIOUS
<1>3. UNCHANGED <<htype, data>>
  BY DEF SetUp
<1>4. CASE Open(NeededFor(s)) /\ Goto(Following[s])
  <2>1. PICK at \in {"stdout", "stderr", "spawn"} : at = Following[s]
    BY DEF Following, Stream
  <2>2. op' = [op EXCEPT !.at = at]
    BY <1>4, <2>1 DEF Goto
  <2>3. op'.call = "create" /\ op'.at = at /\ op'.n = n /\ op'.mode = m
    BY <1>1, <1>2, <2>2 DEF Op
  <2>4. Before[at] = Before[s] \cup {s} /\ s \notin Before[s] /\ Before[s] \subseteq Stream
    BY <2>1 DEF Before, Following, Stream
  <2>5. ~misused' /\ os' = os \cup NeededFor(s)
    BY <1>4, NoMisuse DEF Owners, Open
  <2>6. Alone /\ Tokens' /\ Piping' /\ Heard'
    BY <1>1, <1>3, <2>3, <2>5, TableAlone
  <2>7. Part(0)' = Ends(n, PipedIn(m) \cap Before[at])
    BY <2>1, <2>3, InCallWhat, PartOfNext
  <2>8. PICK N : N = {o \in Ends(n, {s}) : m[s] = "pipe"}
    OBVIOUS
  <2>9. \A o \in N : o \notin Solid(os)
    <3>1. \A o \in N : o \notin Part(0)
      BY <1>1, <1>2, <2>4, <2>8, EndsWhat
    <3>2. \A o \in N : o[2] = n
      BY <2>8, EndsWhat
    <3> QED BY <1>1, <1>2, <3>1, <3>2 DEF Owners, Fresh
  <2>10. \A o : o \in Part(0)' <=> o \in Part(0) \/ o \in N
    <3>1. \A o : o \in Part(0)' <=> \E t \in Before[s] \cup {s} : m[t] = "pipe" /\ (o = Parent(n, t) \/ o = Child(n, t))
      BY <2>4, <2>7, EndsWhat DEF PipedIn, Stream
    <3>2. \A o : o \in Part(0) <=> \E t \in Before[s] : m[t] = "pipe" /\ (o = Parent(n, t) \/ o = Child(n, t))
      BY <1>1, <1>2, <2>4, EndsWhat DEF PipedIn, Stream
    <3>3. \A o : o \in N <=> m[s] = "pipe" /\ (o = Parent(n, s) \/ o = Child(n, s))
      BY <2>8, EndsWhat
    <3> QED BY <3>1, <3>2, <3>3
  <2>11. \A o : o \in Solid(os') <=> o \in Solid(os) \/ o \in N
    <3>1. \A o \in NeededFor(s) : o[1] # "nul" => o \in N
      BY <1>2, <2>8, NeededWhat
    <3>2. \A o \in N : o \in NeededFor(s) /\ o[1] # "nul"
      BY <1>2, <2>8, NeededWhat, EndsWhat
    <3> QED BY <2>5, <3>1, <3>2 DEF Solid
  <2>12. Mine({}, N)
    BY <2>9, <2>10, <2>11 DEF Mine
  <2>13. Booked' /\ Fresh'
    BY <1>1, <1>2, <2>3, <2>6, <2>12, CallBooked DEF Owners
  <2>14. NulsOpen'
    <3>1. \A t \in Stream : NeededFor(t)' = NeededFor(t)
      BY <1>2, <2>3 DEF NeededFor
    <3>2. \A t \in Before[s] : NeededFor(t) \subseteq os
      BY <1>1 DEF Owners, NulsOpen
    <3>3. \A t \in Before[at] : NeededFor(t)' \subseteq os'
      BY <2>4, <2>5, <3>1, <3>2
    <3> QED BY <2>3, <3>3 DEF NulsOpen, Before
  <2> QED BY <2>5, <2>6, <2>13, <2>14 DEF Owners
<1>5. CASE Close(UNION {NeededFor(t) : t \in Earlier[s]}) /\ Return
  <2>1. Earlier[s] = Before[s] /\ Before[s] \subseteq Stream
    BY DEF Earlier, Before, Stream
  <2>2. PICK C : C = UNION {NeededFor(t) : t \in Before[s]}
    OBVIOUS
  <2>3. C \subseteq os
    BY <1>1, <2>2 DEF Owners, NulsOpen
  <2>4. \A o \in C : o[1] = "nul" \/ (o[1] # "stream" /\ o \in Part(0))
    <3>1. ASSUME NEW t \in Before[s], NEW o \in NeededFor(t), o[1] # "nul"
          PROVE  o[1] # "stream" /\ o \in Part(0)
      <4>1. m[t] = "pipe" /\ o \in Ends(n, {t}) /\ t \in Stream
        BY <1>2, <2>1, <3>1, NeededWhat
      <4>2. t \in PipedIn(m) \cap Before[s]
        BY <4>1 DEF PipedIn
      <4> QED BY <1>1, <1>2, <4>1, <4>2, EndsWhat
    <3> QED BY <2>2, <3>1
  <2>5. Part(0) \subseteq C
    <3>1. ASSUME NEW o \in Part(0) PROVE o \in C
      <4>1. PICK t \in PipedIn(m) \cap Before[s] : o \in Ends(n, {t})
        BY <1>1, <1>2, EndsWhat
      <4>2. NeededFor(t) = Ends(n, {t})
        BY <1>2, <2>1, <4>1, NeededWhat DEF PipedIn
      <4> QED BY <2>2, <4>1, <4>2
    <3> QED BY <3>1
  <2>6. Close(C) /\ op' = NoOp
    BY <1>5, <2>1, <2>2 DEF Return
  <2> QED BY <1>1, <1>3, <2>3, <2>4, <2>5, <2>6, CallFails
<1> QED BY <1>4, <1>5 DEF SetUp

(* No child is started: create closes what it has.                         *)
LEMMA SpawnFailsOwners ==
    ASSUME Types, Owners, SpawnFails, UNCHANGED <<connVars, otherVars>>
    PROVE  Owners'
<1>1. /\ Part(0) = Ends(op.n, PipedIn(op.mode) \cap Before["spawn"])
      /\ op.call = "create" /\ op.at = "spawn" /\ op.at # "entry" /\ op \in Op
  BY InCreate DEF SpawnFails
<1>2. Before["spawn"] = Stream
  BY DEF Before
<1>3. Part(0) = ChildEnds \cup Parents
  BY <1>1, <1>2 DEF Ends, ChildEnds, Parents, Piped, PipedIn
<1>4. PICK nuls : nuls = {Nul(op.n, s) : s \in {t \in {"stdin"} : op.mode[t] = "null"}}
  OBVIOUS
<1>5. PICK C : C = ChildEnds \cup Parents \cup nuls
  OBVIOUS
<1>6. Close(C) /\ op' = NoOp /\ UNCHANGED <<htype, data>>
  BY <1>4, <1>5 DEF SpawnFails, Return
<1>7. nuls \subseteq NeededFor("stdin") /\ \A o \in nuls : o[1] = "nul"
  BY <1>4 DEF NeededFor, Nul
<1>8. NeededFor("stdin") \subseteq os
  BY <1>1, <1>2 DEF Owners, NulsOpen, Stream
<1>9. Part(0) \subseteq os /\ \A o \in Part(0) : o[1] # "stream"
  BY <1>1, HeldOpen, HolderKinds, EndsWhat DEF Owners
<1> QED BY <1>1, <1>3, <1>5, <1>6, <1>7, <1>8, <1>9, CallFails

(* The child is started: its ends are closed in the host.                  *)
LEMMA SpawnOwners ==
    ASSUME Types, Owners, Spawn, UNCHANGED <<connVars, otherVars>>
    PROVE  Owners'
<1>1. /\ Part(0) = Ends(op.n, PipedIn(op.mode) \cap Before["spawn"])
      /\ op.call = "create" /\ op.at = "spawn" /\ op.at # "entry" /\ op \in Op
  BY InCreate DEF Spawn
<1>2. PICK n, m : n = op.n /\ m = op.mode
  OBVIOUS
<1>3. op' = [op EXCEPT !.at = "entry"]
  BY DEF Spawn, Goto
<1>4. op'.call = "create" /\ op'.at = "entry" /\ op'.n = n /\ op'.mode = m
  BY <1>1, <1>2, <1>3 DEF Op
<1>5. UNCHANGED <<htype, data, misused>> /\ os' = (os \cup Started(n)) \ ChildEnds
  BY <1>2 DEF Spawn, Started
<1>6. \A o : o \in Part(0)' <=> o \in Started(n) \/ \E s \in PipedIn(m) : o = Parent(n, s)
  <2>1. Part(0)' = Started(n) \cup {Parent(n, s) : s \in PipedIn(m)}
    <3>1. InCall(op', net') = Started(op'.n) \cup {Parent(op'.n, s) : s \in PipedIn(op'.mode)}
      BY <1>4, InCallWhat
    <3> QED BY <1>4, <3>1, PartOfNext
  <2> QED BY <2>1
<1>7. \A o : o \in Part(0) <=> \E s \in PipedIn(m) : o = Parent(n, s) \/ o = Child(n, s)
  <2>1. PipedIn(m) \cap Before["spawn"] = PipedIn(m)
    BY DEF PipedIn, Before
  <2> QED BY <1>1, <1>2, <2>1, EndsWhat
<1>8. \A o : o \in ChildEnds <=> \E s \in PipedIn(m) : o = Child(n, s)
  BY <1>2 DEF ChildEnds, Piped, PipedIn
<1>9. \A o \in Started(n) : o[1] \in {"process", "thread"} /\ o[2] = n
  BY DEF Started, Object
<1>10. \A s : /\ Parent(n, s)[1] = "parent" /\ Child(n, s)[1] = "child"
  BY DEF Parent, Child
<1>11. \A o \in Started(n) : o \notin Solid(os)
  BY <1>1, <1>2, <1>7, <1>9, <1>10 DEF Owners, Fresh
<1>12. \A o : o \in Solid(os') <=> (o \in Solid(os) /\ o \notin ChildEnds) \/ o \in Started(n)
  BY <1>5, <1>8, <1>9, <1>10 DEF Solid
<1>13. Mine(ChildEnds, Started(n))
  BY <1>6, <1>7, <1>8, <1>9, <1>10, <1>11, <1>12 DEF Mine
<1>14. \A k : Strm(k) \in os => Strm(k) \in os'
  <2>1. \A k : Strm(k)[1] = "stream"
    BY DEF Strm, Object
  <2> QED BY <1>5, <1>8, <1>10, <2>1
<1>15. Alone /\ Tokens' /\ Piping' /\ Heard'
  BY <1>1, <1>4, <1>5, <1>14, TableAlone
<1>16. Booked' /\ Fresh'
  BY <1>1, <1>2, <1>4, <1>13, <1>15, CallBooked DEF Owners
<1>17. NulsOpen'
  BY <1>4 DEF NulsOpen
<1> QED BY <1>5, <1>15, <1>16, <1>17 DEF Owners

(* A new entry h of type t takes over from the call, which closes C; N is  *)
(* opened on the way.                                                      *)
Enters(h, t, d, C, N) ==
    /\ h \in Handle /\ htype[h] = "free" /\ htype'[h] = t /\ data'[h] = d
    /\ \A g \in Handle \ {h} : SameEntry(g)
    /\ UNCHANGED <<lost, leaked>> /\ op'.call # "close"
    /\ \A o : o \in Solid(os') <=> (o \in Solid(os) /\ o \notin C) \/ o \in N
    /\ \A o \in N : o \notin Solid(os)
    /\ \A o \in C : o \in Part(0)
    /\ \A o : (o \in Part(0)' \/ o \in Owns(t, d, net', desk')) <=> (o \in Part(0) /\ o \notin C) \/ o \in N
    /\ \A o \in Owns(t, d, net', desk') : o \notin Part(0)'

(* Such a step keeps the books.                                            *)
LEMMA EntersBooked ==
    ASSUME Booked, NEW h, NEW t, NEW d, NEW C, NEW N, Enters(h, t, d, C, N)
    PROVE  Booked'
<1>1. h \in Handle /\ h # 0 /\ h # Limit /\ h \in Holders /\ 0 \in Holders
  BY HolderKinds DEF Enters
<1>2. PICK X \in SUBSET Holders : X = {0, h}
  BY <1>1
<1>3. Part(h) = {}
  <2>1. Owns("free", data[h], net, desk) = {}
    BY OwnsWhat
  <2> QED BY <1>1, <2>1, PartOf DEF Enters
<1>4. Part(h)' = Owns(t, d, net', desk')
  BY <1>1, PartOfNext DEF Enters
<1>5. \A z \in Holders \ X : Part(z)' = Part(z)
  <2>1. \A g \in Handle \ {h} : Part(g)' = Part(g)
    BY EntryKept DEF Enters
  <2>2. Part(Limit)' = Part(Limit)
    BY PartOf, PartOfNext DEF Enters
  <2> QED BY <1>2, <2>1, <2>2 DEF Holders
<1>6. PICK q0, q1, q2 : q0 = Part(0) /\ q1 = Part(0)' /\ q2 = Owns(t, d, net', desk')
  OBVIOUS
<1>7. /\ \A o : (o \in q1 \/ o \in q2) <=> (o \in q0 /\ o \notin C) \/ o \in N
      /\ \A o \in q2 : o \notin q1
      /\ \A o \in N : o \notin Solid(os)
      /\ \A o \in C : o \in q0
      /\ \A o : o \in Solid(os') <=> (o \in Solid(os) /\ o \notin C) \/ o \in N
  BY <1>6 DEF Enters
<1>8. Part(0) = q0 /\ Part(0)' = q1 /\ Part(h) = {} /\ Part(h)' = q2
  BY <1>3, <1>4, <1>6
<1>9. /\ \A o \in N : \E x \in X : o \in Part(x)'
      /\ \A o \in C : \E x \in X : o \in Part(x)
  BY <1>2, <1>7, <1>8
<1>10. \A x \in X : \A o \in Part(x) : o \in C \/ \E y \in X : o \in Part(y)'
  BY <1>2, <1>7, <1>8
<1>11. \A x \in X : \A o \in Part(x)' : o \in N \/ (o \notin C /\ \E y \in X : o \in Part(y))
  BY <1>2, <1>7, <1>8
<1>12. \A x, y \in X : \A o \in Part(x)' : o \in Part(y)' => x = y
  BY <1>2, <1>7, <1>8
<1>13. Gives(X, C, N)
  BY <1>5, <1>7, <1>9, <1>10, <1>11, <1>12 DEF Gives
<1> QED BY <1>13, Rebook

(* The search of the table for a new entry.                                *)
LEMMA NewEntry ==
    ASSUME Types, NEW h, NEW t \in HandleType, NEW d, Entry(h, t, d)
    PROVE  /\ h \in Handle /\ htype[h] = "free" /\ htype'[h] = t /\ data'[h] = d
           /\ \A g \in Handle \ {h} : htype'[g] = htype[g] /\ data'[g] = data[g]
<1>1. HandleTypeOK /\ data \in [Handle -> Data(made)]
  BY DEF Types, TableTypes
<1>2. h \in Handle /\ htype[h] = "free" /\ htype' = [htype EXCEPT ![h] = t] /\ data' = [data EXCEPT ![h] = d]
  BY <1>1, Allocated DEF Entry
<1> QED BY <1>1, <1>2 DEF HandleTypeOK

(* The others stay as they are where no connection changes its kind and no *)
(* tray its inner menu.                                                    *)
LEMMA OthersSame ==
    ASSUME Types, NEW H, UNCHANGED desk,
           \A n \in DOMAIN net : net'[n].kind = net[n].kind,
           \A g \in Handle \ H : Busy(op', g) <=> Busy(op, g),
           \A g \in Handle \ H : htype'[g] = htype[g] /\ data'[g].n = data[g].n /\ data'[g].stream = data[g].stream
    PROVE  \A g \in Handle \ H : SameEntry(g)
<1>1. ASSUME NEW g \in Handle \ H PROVE SameEntry(g)
  <2>1. htype[g] = "conn" => data[g].n \in DOMAIN net
    BY DEF Types, TableTypes, Refers
  <2>2. htype[g] = "conn" => net[data[g].n].kind \in {"tcp", "tls", "quic"}
    BY <2>1, ConnTyped
  <2> QED BY <2>1, <2>2 DEF SameEntry
<1> QED BY <1>1

(* The data of a new entry.                                                *)
LEMMA EntryData ==
    ASSUME NEW n
    PROVE  /\ [Blank EXCEPT !.n = n].n = n
           /\ \A s \in Stream : [Blank EXCEPT !.n = n].pipes[s] = 0
BY DEF Blank

(* A new entry that is neither pipe, menu nor tray.                        *)
LEMMA EntryAlone ==
    ASSUME Types, Owners, NEW h, NEW t \in HandleType \ TokenKind, NEW n,
           Entry(h, t, [Blank EXCEPT !.n = n])
    PROVE  /\ Piping'
           /\ UNCHANGED deskVars /\ op.call # "make" /\ op'.call # "make" => Tokens'
<1>1. PICK d : d = [Blank EXCEPT !.n = n]
  OBVIOUS
<1>2. /\ h \in Handle /\ htype[h] = "free" /\ htype'[h] = t /\ data'[h] = d
      /\ \A g \in Handle \ {h} : htype'[g] = htype[g] /\ data'[g] = data[g]
  BY <1>1, NewEntry
<1>3. Piping'
  <2>1. \A s \in Stream : d.pipes[s] = 0
    BY <1>1, EntryData
  <2> QED BY <1>2, <2>1, PipingKept DEF Types, Owners
<1>4. ASSUME UNCHANGED deskVars, op.call # "make", op'.call # "make" PROVE Tokens'
  <2>1. \A g \in Handle : htype[g] \in TokenKind \/ htype'[g] \in TokenKind => g # h
    BY <1>2 DEF TokenKind
  <2> QED BY <1>2, <1>4, <2>1, TokensKept DEF Owners
<1> QED BY <1>3, <1>4

(* The process gets its entry, or all is closed.                           *)
LEMMA EnterProcessOwners ==
    ASSUME Types, Owners, EnterProcess, UNCHANGED <<connVars, otherVars>>
    PROVE  Owners'
<1>1. op.call = "create" /\ op.at = "entry" /\ op \in Op
  BY DEF EnterProcess, In, Types, OpTypes
<1>2. PICK n, m : n = op.n /\ m = op.mode
  OBVIOUS
<1>3. \A o : o \in Part(0) <=> o \in Started(n) \/ \E s \in PipedIn(m) : o = Parent(n, s)
  <2>1. InCall(op, net) = Started(op.n) \cup {Parent(op.n, s) : s \in PipedIn(op.mode)}
    BY <1>1, InCallWhat
  <2> QED BY <1>2, <2>1, PartOf
<1>4. ASSUME NEW h \in Handle, Entry(h, "process", [Blank EXCEPT !.n = op.n]),
             op' = [op EXCEPT !.call = "wrap", !.at = "stdin", !.h = h],
             UNCHANGED <<os, misused>>
      PROVE  Owners'
  <2>1. PICK d : d = [Blank EXCEPT !.n = op.n]
    OBVIOUS
  <2>2. d.n = n
    BY <1>2, <2>1, EntryData
  <2>3. /\ htype[h] = "free" /\ htype'[h] = "process" /\ data'[h] = d
        /\ \A g \in Handle \ {h} : htype'[g] = htype[g] /\ data'[g] = data[g]
    BY <1>4, <2>1, ObjectAssumption, NewEntry
  <2>4. op'.call = "wrap" /\ op'.at = "stdin" /\ op'.n = n /\ op'.mode = m
    BY <1>1, <1>2, <1>4 DEF Op
  <2>5. \A o : o \in Part(0)' <=> o = Object("thread", n) \/ \E s \in PipedIn(m) : o = Parent(n, s)
    <3>1. InCall(op', net') = {Object("thread", op'.n)} \cup
                                {Parent(op'.n, s) : s \in PipedIn(op'.mode) \cap Ahead["stdin"]}
      BY <2>4, InCallWhat
    <3>2. PipedIn(m) \cap Ahead["stdin"] = PipedIn(m)
      BY DEF PipedIn, Ahead
    <3> QED BY <2>4, <3>1, <3>2, PartOfNext
  <2>6. Owns("process", d, net', desk') = {Object("process", n)}
    BY <2>2, OwnsWhat
  <2>7. \A g \in Handle \ {h} : SameEntry(g)
    <3>1. desk' = desk /\ net' = net
      BY DEF connVars, otherVars, deskVars
    <3>2. \A g \in Handle \ {h} : Busy(op', g) <=> Busy(op, g)
      BY <1>1, <2>4 DEF Busy
    <3> QED BY <2>3, <3>1, <3>2, OthersSame
  <2>8. Enters(h, "process", d, {}, {})
    <3>1. \A o : (o \in Part(0)' \/ o \in Owns("process", d, net', desk')) <=> o \in Part(0)
      BY <1>3, <2>5, <2>6 DEF Started
    <3>2. \A o \in Owns("process", d, net', desk') : o \notin Part(0)'
      BY <2>5, <2>6 DEF Parent, Object
    <3> QED BY <1>4, <2>3, <2>4, <2>7, <3>1, <3>2 DEF Enters, otherVars, deskVars, gpuVars
  <2>9. Booked'
    BY <2>8, EntersBooked DEF Owners
  <2>10. Piping' /\ Tokens'
    <3>1. "process" \in HandleType \ TokenKind
      BY ObjectAssumption DEF TokenKind
    <3> QED BY <1>1, <1>4, <2>4, <3>1, EntryAlone DEF otherVars
  <2>11. Fresh' /\ NulsOpen' /\ Heard' /\ ~misused'
    BY <1>4, <2>4 DEF Fresh, NulsOpen, Heard, Owners, connVars
  <2> QED BY <2>9, <2>10, <2>11 DEF Owners
<1>5. CASE op' = NoOp /\ Close(NoEntry) /\ UNCHANGED <<htype, next, data>>
  <2>1. \A o : o \in NoEntry <=> o \in Part(0)
    BY <1>2, <1>3 DEF NoEntry, Started, Parents, Piped, PipedIn
  <2>2. NoEntry \subseteq os
    BY <2>1, HeldOpen, HolderKinds DEF Owners
  <2>3. \A o \in NoEntry : o[1] # "stream"
    BY DEF NoEntry, Parents, Parent, Object
  <2> QED BY <1>1, <1>5, <2>1, <2>2, <2>3, CallFails
<1> QED BY <1>4, <1>5 DEF EnterProcess, Return

(* What is left to wrap.                                                   *)
LEMMA InWrap ==
    ASSUME Types, NEW s \in Stream, In("wrap", s)
    PROVE  /\ op.call = "wrap" /\ op \in Op /\ OnEntry("process") /\ op.n \in 1 .. made
           /\ \A o : o \in Part(0) <=> \/ o = Object("thread", op.n)
                                       \/ \E t \in PipedIn(op.mode) \cap Ahead[s] : o = Parent(op.n, t)
<1>1. op.call = "wrap" /\ op \in Op /\ OnEntry("process")
  BY DEF In, Types, OpTypes
<1>2. op.n \in 1 .. made
  BY <1>1 DEF OnEntry, Types, TableTypes, Refers
<1>3. InCall(op, net) = {Object("thread", op.n)} \cup {Parent(op.n, t) : t \in PipedIn(op.mode) \cap Ahead[s]}
  BY <1>1, InCallWhat DEF In
<1> QED BY <1>1, <1>2, <1>3, PartOf

(* After the wrap of s.                                                    *)
LEMMA Wrapped ==
    ASSUME Types, NEW s \in Stream, In("wrap", s),
           IF s = "stderr" THEN Return ELSE Goto(Following[s])
    PROVE  /\ op'.call \in {"none", "wrap"}
           /\ \A o : o \in Part(0)' <=>
                \/ s # "stderr" /\ o = Object("thread", op.n)
                \/ \E t \in (PipedIn(op.mode) \cap Ahead[s]) \ {s} : o = Parent(op.n, t)
<1>1. CASE s = "stderr"
  <2>1. op' = NoOp
    BY <1>1 DEF Return
  <2>2. op'.call = "none"
    BY <2>1 DEF NoOp
  <2>3. Part(0)' = {}
    BY <2>2, InCallWhat, PartOfNext
  <2>4. Ahead["stderr"] \ {"stderr"} = {}
    BY DEF Ahead
  <2> QED BY <1>1, <2>2, <2>3, <2>4
<1>2. CASE s # "stderr"
  <2>1. PICK at \in {"stdout", "stderr"} : at = Following[s]
    BY <1>2 DEF Following, Stream
  <2>2. op' = [op EXCEPT !.at = at]
    BY <1>2, <2>1 DEF Goto
  <2>3. op'.call = "wrap" /\ op'.at = at /\ op'.n = op.n /\ op'.mode = op.mode
    BY <2>2, InWrap DEF Op
  <2>4. InCall(op', net') = {Object("thread", op'.n)} \cup
                              {Parent(op'.n, t) : t \in PipedIn(op'.mode) \cap Ahead[at]}
    BY <2>3, InCallWhat
  <2>5. Ahead[at] = Ahead[s] \ {s}
    BY <1>2, <2>1 DEF Ahead, Following, Stream
  <2>6. PipedIn(op.mode) \cap Ahead[at] = (PipedIn(op.mode) \cap Ahead[s]) \ {s}
    BY <2>5
  <2> QED BY <1>2, <2>3, <2>4, <2>6, PartOfNext
<1> QED BY <1>1, <1>2

(* A pipe's end gets its entry, or is closed.                              *)
LEMMA WrapOwners ==
    ASSUME Types, Owners, NEW s \in Stream, Wrap(s), UNCHANGED <<connVars, otherVars>>
    PROVE  Owners'
<1>1. In("wrap", s) /\ (IF s = "stderr" THEN Return ELSE Goto(Following[s]))
  BY DEF Wrap
<1>2. PICK n, m : n = op.n /\ m = op.mode
  OBVIOUS
<1>3. /\ op.call = "wrap" /\ OnEntry("process") /\ op'.call \in {"none", "wrap"}
      /\ \A o : o \in Part(0) <=> o = Object("thread", n) \/ \E t \in PipedIn(m) \cap Ahead[s] : o = Parent(n, t)
      /\ \A o : o \in Part(0)' <=>
            \/ s # "stderr" /\ o = Object("thread", n)
            \/ \E t \in (PipedIn(m) \cap Ahead[s]) \ {s} : o = Parent(n, t)
  BY <1>1, <1>2, InWrap, Wrapped
<1>4. PICK T : T = IF s = "stderr" THEN {Object("thread", n)} ELSE {}
  OBVIOUS
<1>5. \A o : o \in T <=> s = "stderr" /\ o = Object("thread", n)
  BY <1>4
<1>6. /\ \A t, r : Parent(n, t) = Parent(n, r) => t = r
      /\ \A t : Parent(n, t) # Object("thread", n) /\ Parent(n, t)[1] = "parent"
      /\ Object("thread", n)[1] = "thread" /\ s \in Ahead[s]
  BY DEF Parent, Object, Ahead, Stream
<1>7. Fresh' /\ NulsOpen'
  BY <1>3 DEF Fresh, NulsOpen
<1>8. ASSUME NEW C \in SUBSET Part(0), Close(C)
      PROVE  /\ ~misused' /\ os' = os \ C /\ C \subseteq os
             /\ \A o : o \in Solid(os') <=> (o \in Solid(os) /\ o \notin C)
             /\ \A k : Strm(k) \in os => Strm(k) \in os'
  <2>1. C \subseteq os
    BY HeldOpen, HolderKinds DEF Owners
  <2>2. ~misused' /\ os' = os \ C
    BY <1>8, <2>1, NoMisuse DEF Owners
  <2>3. \A k : Strm(k)[1] = "stream"
    BY DEF Strm, Object
  <2> QED BY <1>3, <1>6, <2>1, <2>2, <2>3 DEF Solid
<1>9. ASSUME NEW C \in SUBSET Part(0), Close(C), UNCHANGED <<htype, next, data>>,
             \A o \in Part(0) : o \in C <=> o \notin Part(0)'
      PROVE  Owners'
  <2>1. Alone /\ Tokens' /\ Piping' /\ Heard'
    BY <1>3, <1>8, <1>9, TableAlone
  <2>2. Mine(C, {})
    BY <1>3, <1>8, <1>9 DEF Mine
  <2>3. Booked'
    BY <2>1, <2>2, CallBooked DEF Owners
  <2> QED BY <1>7, <1>8, <1>9, <2>1, <2>3 DEF Owners
<1>10. CASE s \in Piped /\ TableFull /\ Close(T \cup {Parent(n, s)}) /\ UNCHANGED <<htype, next, data>>
  <2>1. s \in PipedIn(m)
    BY <1>2, <1>10 DEF Piped, PipedIn
  <2>2. PICK C : C = T \cup {Parent(n, s)}
    OBVIOUS
  <2>3. C \subseteq Part(0) /\ \A o \in Part(0) : o \in C <=> o \notin Part(0)'
    BY <1>3, <1>5, <1>6, <2>1, <2>2
  <2> QED BY <1>9, <1>10, <2>2, <2>3
<1>11. CASE s \notin Piped /\ Close(T) /\ UNCHANGED <<htype, next, data>>
  <2>1. s \notin PipedIn(m)
    BY <1>2, <1>11 DEF Piped, PipedIn
  <2>2. T \subseteq Part(0) /\ \A o \in Part(0) : o \in T <=> o \notin Part(0)'
    BY <1>3, <1>5, <1>6, <2>1
  <2> QED BY <1>9, <1>11, <2>2
<1>12. ASSUME NEW h \in Handle, s \in Piped, Close(T), Wraps(s, h) PROVE Owners'
  <2>1. s \in PipedIn(m)
    BY <1>2, <1>12 DEF Piped, PipedIn
  <2>2. Grows /\ TableTypes /\ op.n \in 1 .. made /\ made' = made
    BY <1>1, ProcessRest, InWrap DEF Wrap, Types
  <2>3. PICK d : d = [Blank EXCEPT !.n = op.n, !.stream = s]
    OBVIOUS
  <2>4. d.n = n /\ d.stream = s /\ \A t \in Stream : d.pipes[t] = 0
    BY <1>2, <2>3 DEF Blank
  <2>5. /\ htype[h] = "free" /\ h # op.h /\ htype' = [htype EXCEPT ![h] = "pipe"] /\ data'[h] = d
        /\ data'[op.h] = [data[op.h] EXCEPT !.pipes = [@ EXCEPT ![s] = h]]
        /\ \A g \in Handle \ {h, op.h} : data'[g] = data[g]
        /\ OthersStay(h)
    <3>1. Grows /\ TableTypes /\ OnEntry("process") /\ op.n \in 1 .. made /\ made' = made /\ Wraps(s, h)
      BY <1>3, <1>12, <2>2
    <3>2. htype[h] = "free" /\ h # op.h /\ htype' = [htype EXCEPT ![h] = "pipe"]
      BY <3>1, WrapEntry
    <3>3. data'[h] = [Blank EXCEPT !.n = op.n, !.stream = s]
      BY <3>1, WrapEntry
    <3>4. data'[op.h] = [data[op.h] EXCEPT !.pipes = [@ EXCEPT ![s] = h]]
      BY <3>1, WrapEntry
    <3>5. \A g \in Handle \ {h, op.h} : data'[g] = data[g]
      BY <3>1, WrapEntry
    <3>6. OthersStay(h)
      BY <3>1, WrapEntry
    <3> QED BY <2>3, <3>2, <3>3, <3>4, <3>5, <3>6
  <2>6. htype'[h] = "pipe" /\ \A g \in Handle \ {h} : htype'[g] = htype[g]
    BY <2>2, <2>5 DEF TableTypes, HandleTypeOK
  <2>7. \A g \in Handle \ {h} : SameEntry(g)
    <3>1. desk' = desk /\ net' = net
      BY DEF connVars, otherVars, deskVars
    <3>2. \A g \in Handle \ {h} : Busy(op', g) <=> Busy(op, g)
      BY <1>3 DEF Busy
    <3>3. \A g \in Handle \ {h} : data'[g].n = data[g].n /\ data'[g].stream = data[g].stream
      BY <2>5 DEF OthersStay
    <3> QED BY <2>6, <3>1, <3>2, <3>3, OthersSame
  <2>8. Owns("pipe", d, net', desk') = {Parent(n, s)}
    BY <2>4, OwnsWhat
  <2>9. T \in SUBSET Part(0)
    BY <1>3, <1>5
  <2>10. Enters(h, "pipe", d, T, {})
    <3>1. \A o : (o \in Part(0)' \/ o \in Owns("pipe", d, net', desk')) <=> (o \in Part(0) /\ o \notin T)
      BY <1>3, <1>5, <1>6, <2>1, <2>8
    <3>2. \A o \in Owns("pipe", d, net', desk') : o \notin Part(0)'
      BY <1>3, <1>6, <2>8
    <3>3. \A o : o \in Solid(os') <=> (o \in Solid(os) /\ o \notin T)
      BY <1>8, <1>12, <2>9
    <3>4. htype[h] = "free" /\ htype'[h] = "pipe" /\ data'[h] = d /\ UNCHANGED <<lost, leaked>> /\ op'.call # "close"
      BY <1>3, <2>5, <2>6 DEF otherVars, deskVars, gpuVars
    <3> QED BY <1>12, <2>7, <2>9, <3>1, <3>2, <3>3, <3>4 DEF Enters
  <2>11. Booked'
    BY <2>10, EntersBooked DEF Owners
  <2>12. Tokens'
    <3>1. \A g \in Handle : htype[g] \in TokenKind \/ htype'[g] \in TokenKind => g # h
      BY <2>5, <2>6 DEF TokenKind
    <3> QED BY <1>3, <2>5, <2>6, <3>1, TokensKept DEF Owners, otherVars, OthersStay
  <2>13. Piping'
    <3>1. ASSUME NEW g \in Handle, NEW t \in Stream, data'[g].pipes[t] # 0
          PROVE  LET p == data'[g].pipes[t]
                 IN  /\ htype'[g] = "process" /\ htype'[p] = "pipe"
                     /\ data'[p].n = data'[g].n /\ data'[p].stream = t
      <4>1. op.h \in Handle /\ htype[op.h] = "process" /\ n = data[op.h].n
        BY <1>2, <1>3 DEF OnEntry
      <4>2. g # h
        BY <2>4, <2>5, <3>1
      <4>3. data[op.h] \in Data(made)
        BY <2>2, <4>1 DEF TableTypes
      <4>4. CASE g = op.h /\ t = s
        <5>1. data'[g].pipes[t] = h /\ data'[g].n = n
          BY <2>5, <4>1, <4>3, <4>4 DEF Data
        <5> QED BY <2>4, <2>5, <2>6, <4>1, <4>2, <4>4, <5>1
      <4>5. CASE ~(g = op.h /\ t = s)
        <5>1. data'[g].pipes[t] = data[g].pipes[t] /\ data'[g].n = data[g].n
          <6>1. CASE g = op.h
            BY <2>5, <4>3, <4>5, <6>1 DEF Data
          <6>2. CASE g # op.h
            BY <2>5, <4>2, <6>2
          <6> QED BY <6>1, <6>2
        <5>2. PICK p : p = data[g].pipes[t]
          OBVIOUS
        <5>3. p \in Handle /\ p # 0
          BY <2>2, <3>1, <5>1, <5>2 DEF TableTypes, Data
        <5>4. htype[g] = "process" /\ htype[p] = "pipe" /\ data[p].n = data[g].n /\ data[p].stream = t
          BY <3>1, <5>1, <5>2 DEF Owners, Piping
        <5>5. p # h /\ p # op.h
          BY <2>5, <4>1, <5>4
        <5> QED BY <2>5, <2>6, <4>2, <5>1, <5>2, <5>3, <5>4, <5>5
      <4> QED BY <4>4, <4>5
    <3> QED BY <3>1 DEF Piping, Handle, Stream
  <2>14. Heard' /\ ~misused'
    BY <1>8, <1>12, <2>9 DEF Owners, Heard, connVars
  <2> QED BY <1>7, <2>11, <2>12, <2>13, <2>14 DEF Owners
<1>13. \/ s \in Piped /\ Close(T) /\ \E h \in Handle : Wraps(s, h)
       \/ s \in Piped /\ TableFull /\ Close(T \cup {Parent(n, s)}) /\ UNCHANGED <<htype, next, data>>
       \/ s \notin Piped /\ Close(T) /\ UNCHANGED <<htype, next, data>>
  BY <1>2, <1>4 DEF Wrap, Wraps
<1> QED BY <1>10, <1>11, <1>12, <1>13

(* Calls that hold nothing.                                                *)
Lean == {"none", "read", "write", "wait", "recv", "send", "request", "process"}

(* A step between such calls that closes and opens nothing.                *)
LEMMA CalmOwners ==
    ASSUME Types, Owners, UNCHANGED <<htype, data, os, deskVars, leaked>>,
           \A n \in DOMAIN net : net'[n].kind = net[n].kind,
           op.call \in Lean, op'.call \in Lean, ~misused', Heard'
    PROVE  Owners'
<1>1. op.call \notin {"make", "close"} /\ op'.call \notin {"make", "close", "create", "connect"}
  BY DEF Lean
<1>2. Alone
  BY <1>1 DEF Alone, Busy
<1>3. Part(0) = {} /\ Part(0)' = {}
  BY InCallWhat, PartOf, PartOfNext DEF Lean
<1>4. Booked'
  BY <1>2, <1>3, StillBooked DEF Owners
<1>5. Tokens'
  BY <1>1, TokensKept DEF Owners
<1>6. Piping'
  BY PipingKept DEF Owners, Types
<1>7. Fresh' /\ NulsOpen'
  BY <1>1 DEF Fresh, NulsOpen
<1> QED BY <1>4, <1>5, <1>6, <1>7 DEF Owners

(* The same of processes and pipes.                                        *)
LEMMA ProcessCalmOwners ==
    ASSUME Types, Owners, UNCHANGED <<htype, data, os, connVars, otherVars>>,
           op.call \in Lean, op'.call \in Lean, ~misused'
    PROVE  Owners'
<1>1. Heard'
  BY DEF Owners, Heard, connVars
<1> QED BY <1>1, CalmOwners DEF connVars, otherVars, gpuVars

(* A call that uses the object of the entry it is on.                      *)
LEMMA EntryOpen ==
    ASSUME Types, Owners, NEW h \in Handle, op.call # "close", htype[h] # "free"
    PROVE  /\ Owns(htype[h], data[h], net, desk) \subseteq os
           /\ Part(h) = Owns(htype[h], data[h], net, desk)
<1>1. Part(h) = Owns(htype[h], data[h], net, desk) /\ h \in Holders
  BY PartOf, HolderKinds
<1> QED BY <1>1, HeldOpen DEF Owners

(* Reading, writing, waiting and killing use what is open.                 *)
LEMMA ProcessUsesOwners ==
    ASSUME Types, Owners, UNCHANGED <<connVars, otherVars>>,
           PipeReturns \/ WaitReturns \/ (\E h \in Handle : PipeCall(h) \/ WaitCall(h) \/ Kill(h))
    PROVE  Owners'
<1>1. NoOp.call = "none"
  BY DEF NoOp
<1>2. CASE PipeReturns
  <2>1. op.call \in {"read", "write"} /\ op' = NoOp /\ Uses({PipeOf(op.h)}) /\ UNCHANGED <<htype, data, os>>
    BY <1>2 DEF PipeReturns, Return
  <2>2. op.h \in Handle /\ htype[op.h] = "pipe"
    BY <2>1 DEF Types, OpTypes, OnEntry
  <2>3. {PipeOf(op.h)} \subseteq os
    BY <2>1, <2>2, EntryOpen, OwnsWhat DEF PipeOf
  <2>4. ~misused'
    BY <2>1, <2>3, NoMisuse DEF Owners
  <2> QED BY <1>1, <2>1, <2>4, ProcessCalmOwners DEF Lean
<1>3. CASE WaitReturns
  <2>1. op.call = "wait" /\ op' = NoOp /\ Uses({Object("process", op.n)}) /\ UNCHANGED <<htype, data, os>>
    BY <1>3 DEF WaitReturns, Return
  <2>2. op.h \in Handle /\ htype[op.h] = "process" /\ op.n = data[op.h].n
    BY <2>1 DEF Types, OpTypes, OnEntry
  <2>3. {Object("process", op.n)} \subseteq os
    BY <2>1, <2>2, EntryOpen, OwnsWhat
  <2>4. ~misused'
    BY <2>1, <2>3, NoMisuse DEF Owners
  <2> QED BY <1>1, <2>1, <2>4, ProcessCalmOwners DEF Lean
<1>4. ASSUME NEW h \in Handle, PipeCall(h) PROVE Owners'
  <2>1. op.call = "none" /\ op'.call \in {"read", "write"} /\ UNCHANGED <<htype, data, os, misused>>
    BY <1>4 DEF PipeCall, Begin, Idle, NoOp
  <2> QED BY <2>1, ProcessCalmOwners DEF Lean, Owners
<1>5. ASSUME NEW h \in Handle, WaitCall(h) PROVE Owners'
  <2>1. op.call = "none" /\ op'.call = "wait" /\ UNCHANGED <<htype, data, os, misused>>
    BY <1>5 DEF WaitCall, Begin, Idle, NoOp
  <2> QED BY <2>1, ProcessCalmOwners DEF Lean, Owners
<1>6. ASSUME NEW h \in Handle, Kill(h) PROVE Owners'
  <2>1. /\ op.call = "none" /\ op'.call = "none" /\ htype[h] = "process" /\ UNCHANGED <<htype, data, os>>
        /\ Uses({Object("process", data[h].n)})
    BY <1>6 DEF Kill, Idle, IsA
  <2>2. {Object("process", data[h].n)} \subseteq os
    BY <2>1, EntryOpen, OwnsWhat
  <2>3. ~misused'
    BY <2>1, <2>2, NoMisuse DEF Owners
  <2> QED BY <2>1, <2>3, ProcessCalmOwners DEF Lean
<1> QED BY <1>2, <1>3, <1>4, <1>5, <1>6

(* Entries H are freed and what they have is closed.                       *)
Frees(H, C) ==
    /\ H \subseteq Handle /\ op.call = "none" /\ UNCHANGED <<op, lost, leaked>>
    /\ \A h \in H : htype'[h] = "free"
    /\ \A g \in Handle \ H : SameEntry(g)
    /\ os' = os \ C
    /\ \A o \in C : \E h \in H : o \in Part(h)
    /\ \A h \in H : Part(h) \subseteq C

(* Such a step keeps the books.                                            *)
LEMMA FreesBooked ==
    ASSUME Booked, NEW H, NEW C, Frees(H, C)
    PROVE  Booked'
<1>1. H \subseteq Holders /\ \A h \in H : h \in Handle /\ h # 0 /\ h # Limit
  BY HolderKinds DEF Frees
<1>2. \A h \in H : Part(h)' = {}
  <2>1. \A h \in H : Owns(htype'[h], data'[h], net', desk') = {}
    BY OwnsWhat DEF Frees
  <2>2. op'.call # "close"
    BY DEF Frees
  <2> QED BY <1>1, <2>1, <2>2, PartOfNext
<1>3. \A z \in Holders \ H : Part(z)' = Part(z)
  <2>1. \A g \in Handle \ H : Part(g)' = Part(g)
    BY EntryKept DEF Frees
  <2>2. Part(Limit)' = Part(Limit)
    BY PartOf, PartOfNext DEF Frees
  <2>3. Part(0)' = Part(0)
    BY InCallWhat, PartOf, PartOfNext DEF Frees
  <2> QED BY <2>1, <2>2, <2>3 DEF Holders
<1>4. \A o : o \in Solid(os') <=> o \in Solid(os) /\ o \notin C
  BY DEF Frees, Solid
<1>5. Gives(H, C, {})
  BY <1>2, <1>3, <1>4 DEF Gives, Frees
<1> QED BY <1>1, <1>5, Rebook

(* What is not booked when entries other than menus and trays are freed.   *)
LEMMA FreesRest ==
    ASSUME Types, Owners, NEW H, NEW C, Frees(H, C), UNCHANGED deskVars,
           \A h \in H : htype[h] \notin TokenKind
    PROVE  Tokens' /\ Fresh' /\ NulsOpen' /\ Booked'
<1>1. op.call = "none" /\ op'.call = "none" /\ \A g \in Handle \ H : SameEntry(g)
  BY DEF Frees
<1>2. Fresh' /\ NulsOpen'
  BY <1>1 DEF Fresh, NulsOpen
<1>3. \A h \in Handle : htype[h] \in TokenKind \/ htype'[h] \in TokenKind => h \notin H
  BY DEF Frees, TokenKind
<1>4. Tokens'
  BY <1>1, <1>3, TokensKept DEF Owners, SameEntry
<1> QED BY <1>2, <1>4, FreesBooked DEF Owners

(* pipe_close: the pipe's process no longer names it.                      *)
LEMMA PipeCloseOwners ==
    ASSUME Types, Owners, NEW h \in Handle, PipeClose(h), UNCHANGED <<connVars, otherVars>>
    PROVE  Owners'
<1>1. op.call = "none" /\ op' = op /\ htype[h] = "pipe" /\ Close({PipeOf(h)})
  BY DEF PipeClose, Idle, IsA
<1>2. Part(h) = {PipeOf(h)} /\ {PipeOf(h)} \subseteq os
  BY <1>1, EntryOpen, OwnsWhat DEF PipeOf
<1>3. ~misused' /\ os' = os \ {PipeOf(h)}
  BY <1>1, <1>2, NoMisuse DEF Owners
<1>4. data \in [Handle -> Data(made)] /\ htype \in [Handle -> HandleType \cup {"free"}]
  BY DEF Types, TableTypes, HandleTypeOK
<1>5. htype'[h] = "free" /\ data'[h] = Blank /\ \A g \in Handle \ {h} : htype'[g] = htype[g]
  BY <1>4 DEF PipeClose
<1>6. ASSUME NEW g \in Handle \ {h}
      PROVE  /\ data'[g].n = data[g].n /\ data'[g].stream = data[g].stream
             /\ \A s \in Stream : data'[g].pipes[s] \in {0, data[g].pipes[s]} /\ data'[g].pipes[s] # h
  <2>1. data[g] \in Data(made)
    BY <1>4
  <2>2. CASE htype[g] = "process"
    <3>1. data'[g] = [data[g] EXCEPT !.pipes = [s \in Stream |-> IF @[s] = h THEN 0 ELSE @[s]]]
      BY <2>2 DEF PipeClose
    <3>2. h # 0
      BY HolderKinds
    <3>3. /\ data'[g].n = data[g].n /\ data'[g].stream = data[g].stream
          /\ data'[g].pipes = [s \in Stream |-> IF data[g].pipes[s] = h THEN 0 ELSE data[g].pipes[s]]
      BY <2>1, <3>1 DEF Data
    <3> QED BY <3>2, <3>3
  <2>3. CASE htype[g] # "process"
    <3>1. data'[g] = data[g]
      BY <2>3 DEF PipeClose
    <3>2. \A s \in Stream : data[g].pipes[s] = 0
      BY <2>3 DEF Owners, Piping
    <3>3. h # 0
      BY HolderKinds
    <3> QED BY <3>1, <3>2, <3>3
  <2> QED BY <2>2, <2>3
<1>7. \A g \in Handle \ {h} : SameEntry(g)
  <2>1. desk' = desk /\ net' = net
    BY DEF connVars, otherVars, deskVars
  <2>2. \A g \in Handle \ {h} : Busy(op', g) <=> Busy(op, g)
    BY <1>1
  <2> QED BY <1>5, <1>6, <2>1, <2>2, OthersSame
<1>8. PICK H \in SUBSET Handle : H = {h}
  OBVIOUS
<1>9. PICK C : C = {PipeOf(h)}
  OBVIOUS
<1>10. Frees(H, C)
  BY <1>1, <1>2, <1>3, <1>5, <1>7, <1>8, <1>9 DEF Frees, otherVars, deskVars, gpuVars
<1>11. Tokens' /\ Fresh' /\ NulsOpen' /\ Booked'
  <2>1. \A g \in H : htype[g] \notin TokenKind
    BY <1>1, <1>8 DEF TokenKind
  <2> QED BY <1>10, <2>1, FreesRest DEF otherVars
<1>12. Heard'
  <2>1. \A n : Strm(n) \in os => Strm(n) \in os'
    BY <1>3 DEF Strm, Object, PipeOf, Parent
  <2> QED BY <2>1 DEF Owners, Heard, connVars
<1>13. Piping'
  <2>1. ASSUME NEW g \in Handle, NEW s \in Stream, data'[g].pipes[s] # 0
        PROVE  LET p == data'[g].pipes[s]
               IN  /\ htype'[g] = "process" /\ htype'[p] = "pipe"
                   /\ data'[p].n = data'[g].n /\ data'[p].stream = s
    <3>1. g # h
      BY <1>5, <2>1 DEF Blank
    <3>2. PICK p : p = data'[g].pipes[s]
      OBVIOUS
    <3>3. p = data[g].pipes[s] /\ p # h /\ p # 0
      BY <1>6, <2>1, <3>1, <3>2
    <3>4. p \in Handle
      BY <1>4, <3>3 DEF Data
    <3>5. htype[g] = "process" /\ htype[p] = "pipe" /\ data[p].n = data[g].n /\ data[p].stream = s
      BY <3>3 DEF Owners, Piping
    <3> QED BY <1>5, <1>6, <3>1, <3>2, <3>3, <3>4, <3>5
  <2> QED BY <2>1 DEF Piping, Handle, Stream
<1> QED BY <1>3, <1>11, <1>12, <1>13 DEF Owners

(* destroy closes the process and the pipes it names.                      *)
LEMMA DestroyOwners ==
    ASSUME Types, Owners, NEW h \in Handle, Destroy(h), UNCHANGED <<connVars, otherVars>>
    PROVE  Owners'
<1>1. PICK pipes : pipes = {p \in {data[h].pipes[s] : s \in Stream} : IsA(p, "pipe")}
  OBVIOUS
<1>2. PICK H : H = pipes \cup {h}
  OBVIOUS
<1>3. PICK C : C = {PipeOf(p) : p \in pipes} \cup {Object("process", data[h].n)}
  OBVIOUS
<1>4. /\ op.call = "none" /\ op' = op /\ htype[h] = "process" /\ Close(C) /\ FreeAll(H)
  BY <1>1, <1>2, <1>3 DEF Destroy, Idle, IsA
<1>5. \A p \in pipes : /\ p \in Handle /\ htype[p] = "pipe" /\ p # 0
                       /\ \E s \in Stream : p = data[h].pipes[s]
  BY <1>1, HolderKinds DEF IsA
<1>6. \A p \in pipes : Part(p) = {PipeOf(p)} /\ PipeOf(p) \in os
  BY <1>4, <1>5, EntryOpen, OwnsWhat DEF PipeOf
<1>7. Part(h) = {Object("process", data[h].n)} /\ Object("process", data[h].n) \in os
  BY <1>4, EntryOpen, OwnsWhat
<1>8. C \subseteq os
  BY <1>3, <1>6, <1>7
<1>9. ~misused' /\ os' = os \ C
  BY <1>4, <1>8, NoMisuse DEF Owners
<1>10. /\ \A g \in H : g \in Handle /\ htype'[g] = "free" /\ data'[g] = Blank
       /\ \A g \in Handle \ H : htype'[g] = htype[g] /\ data'[g] = data[g]
  BY <1>2, <1>4, <1>5 DEF FreeAll
<1>11. \A g \in Handle \ H : SameEntry(g)
  <2>1. desk' = desk /\ net' = net
    BY DEF connVars, otherVars, deskVars
  <2>2. \A g \in Handle \ H : Busy(op', g) <=> Busy(op, g)
    BY <1>4
  <2> QED BY <1>10, <2>1, <2>2, OthersSame
<1>12. Frees(H, C)
  <2>1. \A o \in C : \E g \in H : o \in Part(g)
    BY <1>2, <1>3, <1>6, <1>7
  <2>2. \A g \in H : Part(g) \subseteq C
    BY <1>2, <1>3, <1>6, <1>7
  <2>3. UNCHANGED <<lost, leaked>>
    BY DEF otherVars, deskVars, gpuVars
  <2> QED BY <1>4, <1>9, <1>10, <1>11, <2>1, <2>2, <2>3 DEF Frees
<1>13. Tokens' /\ Fresh' /\ NulsOpen' /\ Booked'
  <2>1. \A g \in H : htype[g] \notin TokenKind
    BY <1>2, <1>4, <1>5 DEF TokenKind
  <2> QED BY <1>12, <2>1, FreesRest DEF otherVars
<1>14. Heard'
  <2>1. \A o \in C : o[1] \in {"parent", "process"}
    BY <1>3 DEF PipeOf, Parent, Object
  <2>2. \A n : Strm(n)[1] = "stream"
    BY DEF Strm, Object
  <2>3. \A n : Strm(n) \in os => Strm(n) \in os'
    BY <1>9, <2>1, <2>2
  <2> QED BY <2>3 DEF Owners, Heard, connVars
<1>15. Piping'
  <2>1. ASSUME NEW g \in Handle, NEW s \in Stream, data'[g].pipes[s] # 0
        PROVE  LET p == data'[g].pipes[s]
               IN  /\ htype'[g] = "process" /\ htype'[p] = "pipe"
                   /\ data'[p].n = data'[g].n /\ data'[p].stream = s
    <3>1. g \notin H /\ htype'[g] = htype[g] /\ data'[g] = data[g]
      BY <1>10, <2>1 DEF Blank
    <3>2. PICK p : p = data[g].pipes[s]
      OBVIOUS
    <3>3. p # 0 /\ htype[g] = "process" /\ htype[p] = "pipe" /\ data[p].n = data[g].n /\ data[p].stream = s
      BY <2>1, <3>1, <3>2 DEF Owners, Piping
    <3>4. p \in Handle
      BY <3>2, <3>3 DEF Types, TableTypes, Data
    <3>5. ASSUME p \in pipes PROVE FALSE
      <4>1. data[p].n = data[h].n
        BY <1>5, <3>3, <3>5 DEF Owners, Piping
      <4>2. Part(g) = {Object("process", data[g].n)}
        BY <1>4, <3>3, EntryOpen, OwnsWhat
      <4>3. Object("process", data[h].n) \in Part(g) /\ Object("process", data[h].n) \in Part(h)
        BY <1>7, <3>3, <4>1, <4>2
      <4>4. g = h
        BY <4>3, HeldOpen, HolderKinds DEF Owners
      <4> QED BY <1>2, <3>1, <4>4
    <3>6. p \notin H
      BY <1>2, <1>4, <3>3, <3>5
    <3> QED BY <1>10, <3>1, <3>2, <3>3, <3>4, <3>6
  <2> QED BY <2>1 DEF Piping, Handle, Stream
<1> QED BY <1>9, <1>13, <1>14, <1>15 DEF Owners

(* Every step of processes keeps the account.                              *)
LEMMA ProcessStepOwners ==
    ASSUME Types, Owners, ProcessStep, UNCHANGED <<connVars, otherVars>>
    PROVE  Owners'
<1>1. ASSUME NEW n \in alive, ChildStep(n) PROVE Owners'
  BY <1>1, OwnersSame DEF ChildStep, objectVars, otherVars, gpuVars
<1>2. CASE CreateStep
  BY <1>2, SetUpOwners, WrapOwners, SpawnFailsOwners, SpawnOwners, EnterProcessOwners DEF CreateStep
<1>3. CASE PipeReturns \/ WaitReturns
  BY <1>3, ProcessUsesOwners
<1>4. ASSUME NEW h \in Handle, PipeClose(h) \/ PipeCall(h) \/ WaitCall(h) \/ Kill(h) \/ Destroy(h) PROVE Owners'
  BY <1>4, PipeCloseOwners, DestroyOwners, ProcessUsesOwners
<1> QED BY <1>1, <1>2, <1>3, <1>4, CreateCallOwners DEF ProcessStep

-----------------------------------------------------------------------------
(* Steps of connections.                                                   *)

SameKinds == \A n \in DOMAIN net : net'[n].kind = net[n].kind

(* What a connection's call has, when nothing happens to it.               *)
LEMMA SameInCall ==
    ASSUME Types, SameKinds, op' = op
    PROVE  Part(0)' = Part(0)
<1>1. ASSUME op.call \in {"connect", "close"}, op.at = "entry" PROVE InCall(op, net') = InCall(op, net)
  <2>1. op.n \in DOMAIN net
    BY <1>1 DEF Types, OpTypes, QuicEnd
  <2>2. net'[op.n].kind = net[op.n].kind /\ net[op.n].kind \in {"tcp", "tls", "quic"}
    BY <2>1, ConnTyped DEF SameKinds
  <2>3. Behind(op.n, net') = Behind(op.n, net)
    BY <2>2, BehindWhat
  <2>4. \A conns : InCall(op, conns) = Behind(op.n, conns)
    <3>1. \A conns : InCall(op, conns) = Leftover(op.at, op.n, conns)
      BY <1>1, InCallWhat
    <3>2. \A conns : Leftover("entry", op.n, conns) = Behind(op.n, conns)
      BY LeftoverWhat
    <3> QED BY Zenon, <1>1, <3>1, <3>2
  <2> QED BY <2>3, <2>4
<1>2. ASSUME op.call \in {"connect", "close"}, op.at # "entry" PROVE InCall(op, net') = InCall(op, net)
  <2>1. Leftover(op.at, op.n, net') = Leftover(op.at, op.n, net)
    BY <1>2 DEF Leftover
  <2> QED BY <1>2, <2>1, InCallWhat
<1>3. ASSUME op.call \notin {"connect", "close"} PROVE InCall(op, net') = InCall(op, net)
  BY <1>3 DEF InCall
<1> QED BY <1>1, <1>2, <1>3, PartOf, PartOfNext

(* A step of a peer, of msquic or of a call about bytes.                   *)
LEMMA AsideOwners ==
    ASSUME Types, Owners, UNCHANGED <<htype, data, os, op, deskVars, leaked>>, SameKinds,
           Heard', ~misused'
    PROVE  Owners'
<1>1. Alone
  BY DEF Alone, SameKinds, Busy
<1>2. Part(0)' = Part(0)
  BY SameInCall
<1>3. Booked' /\ Fresh'
  <2>1. op.call \notin {"create", "connect"} => Fresh'
    BY DEF Fresh
  <2> QED BY <1>1, <1>2, <2>1, StillBooked DEF Owners
<1>4. NulsOpen'
  BY DEF Owners, NulsOpen, NeededFor, Before
<1>5. Tokens'
  BY DEF Owners, Tokens, Numbers, deskVars, SmallToken, TokenKind
<1>6. Piping'
  BY DEF Owners, Piping, Handle, Stream
<1> QED BY <1>3, <1>4, <1>5, <1>6 DEF Owners

(* A stream stays as long as a callback is under way.                      *)
StreamsStay ==
    /\ DOMAIN net' = DOMAIN net
    /\ \A n \in DOMAIN net : quic'[n].cb => quic[n].cb /\ (Strm(n) \in os => Strm(n) \in os')

(* A callback under way keeps its stream.                                  *)
LEMMA StillHeard ==
    ASSUME Owners, StreamsStay
    PROVE  Heard'
<1>1. \A n \in DOMAIN net' : quic'[n].cb => Strm(n) \in os'
  BY DEF Owners, Heard, StreamsStay
<1> QED BY <1>1 DEF Heard, Strm, Object

(* A step of CONNECT, or of CLOSE, that closes C and opens N.              *)
Connects(C, N) ==
    /\ UNCHANGED <<htype, data, otherVars>> /\ SameKinds
    /\ op.call \in {"connect", "close"}
    /\ \/ op'.call = op.call /\ op'.n = op.n /\ op'.h = op.h
       \/ op'.call = "none" /\ op.call = "connect"
    /\ Mine(C, N) /\ StreamsStay /\ ~misused'

(* Such a step of connect keeps the account.                               *)
LEMMA ConnectsOwners ==
    ASSUME Types, Owners, NEW C, NEW N, Connects(C, N)
    PROVE  Owners'
<1>1. \A h \in Handle : Busy(op', h) <=> Busy(op, h)
  BY DEF Connects, Busy
<1>2. Alone
  BY <1>1 DEF Connects, Alone, SameKinds, otherVars, gpuVars
<1>3. Booked'
  BY <1>2, CallBooked DEF Connects, Owners
<1>4. Fresh'
  <2>1. CASE op'.call = "connect"
    BY <1>2, <2>1, CallBooked DEF Connects, Owners
  <2>2. CASE op'.call # "connect"
    BY <2>2 DEF Connects, Fresh
  <2> QED BY <2>1, <2>2
<1>5. Tokens'
  BY TokensKept DEF Owners, Connects, otherVars
<1>6. Piping'
  BY PipingKept DEF Owners, Types, Connects
<1>7. NulsOpen'
  BY DEF NulsOpen, Connects
<1>8. Heard' /\ ~misused'
  BY StillHeard DEF Connects
<1> QED BY <1>3, <1>4, <1>5, <1>6, <1>7, <1>8 DEF Owners

(* connect begins: it has nothing yet.                                     *)
LEMMA ConnectCallOwners ==
    ASSUME Types, Owners, NEW kind \in Transports, ConnectCall(kind), UNCHANGED <<processVars, otherVars>>
    PROVE  Owners'
<1>1. PICK n : n = made + 1
  OBVIOUS
<1>2. /\ op'.call = "connect" /\ op'.at \in {"quic", "socket"} /\ op'.n = n /\ op.call = "none"
      /\ UNCHANGED <<htype, data, os, misused>>
  BY <1>1 DEF ConnectCall, Create, NoOp, Idle
<1>3. DOMAIN net' = DOMAIN net \cup {n} /\ n \notin DOMAIN net
      /\ quic'[n] = NewQuic
      /\ \A m \in DOMAIN net : net'[m] = net[m] /\ quic'[m] = quic[m]
  <2>1. DOMAIN net \subseteq 1 .. made /\ DOMAIN quic = DOMAIN net /\ made \in Nat
    BY DEF Types, OsTypes, ConnTypes
  <2>2. n \notin DOMAIN net
    BY <1>1, <2>1
  <2>3. net' = Extended(net, n, NewNet(kind)) /\ quic' = Extended(quic, n, NewQuic)
    BY <1>1 DEF ConnectCall
  <2> QED BY <2>1, <2>2, <2>3 DEF Extended
<1>4. Alone
  BY <1>2, <1>3 DEF Alone, Busy, otherVars, gpuVars
<1>5. Part(0) = {} /\ Part(0)' = {}
  <2>1. InCall(op, net) = {}
    BY <1>2, InCallWhat
  <2>2. InCall(op', net') = {}
    <3>1. InCall(op', net') = Leftover(op'.at, op'.n, net')
      BY <1>2, InCallWhat
    <3> QED BY <1>2, <3>1, LeftoverWhat
  <2> QED BY <2>1, <2>2, PartOf, PartOfNext
<1>6. Booked'
  BY <1>2, <1>4, <1>5, StillBooked DEF Owners
<1>7. Fresh'
  BY <1>1, <1>2, Numbered DEF Fresh, Solid
<1>8. NulsOpen' /\ Piping'
  BY <1>2, PipingKept DEF NulsOpen, Owners, Types
<1>9. Tokens'
  BY <1>2, TokensKept DEF Owners, otherVars
<1>10. Heard'
  <2>1. \A m \in DOMAIN net' : quic'[m].cb => Strm(m) \in os'
    <3>1. ~NewQuic.cb
      BY DEF NewQuic
    <3> QED BY <1>2, <1>3, <3>1 DEF Owners, Heard
  <2> QED BY <2>1 DEF Heard, Strm, Object
<1> QED BY <1>2, <1>6, <1>7, <1>8, <1>9, <1>10 DEF Owners

(* The objects of one connection are of different kinds.                   *)
LEMMA ConnKinds ==
    ASSUME NEW n
    PROVE  /\ Sock(n)[1] = "socket" /\ Sock(n)[2] = n /\ Tls(n)[1] = "tls" /\ Tls(n)[2] = n
           /\ Conn(n)[1] = "conn" /\ Conn(n)[2] = n /\ Strm(n)[1] = "stream" /\ Strm(n)[2] = n
           /\ \A o \in Session(n) : o[1] \in {"session", "events"} /\ o[2] = n
BY DEF Sock, Tls, Conn, Strm, Session, Object

(* The call has an account of what it closes and opens.                    *)
LEMMA MineIs ==
    ASSUME Owners, NEW C, NEW N, os' = (os \ C) \cup N,
           N = {} \/ op.call = "connect",
           \A o \in N : o[1] # "nul" /\ o[2] = op.n /\ o \notin Part(0),
           C \subseteq Part(0),
           \A o : o \in Part(0)' <=> (o \in Part(0) /\ o \notin C) \/ o \in N
    PROVE  Mine(C, N)
<1>1. \A o \in N : o \notin Solid(os)
  BY DEF Owners, Fresh
<1>2. \A o : o \in Solid(os') <=> (o \in Solid(os) /\ o \notin C) \/ o \in N
  BY DEF Solid
<1> QED BY <1>1, <1>2 DEF Mine

(* CONNECT or CLOSE is at one of its places.                               *)
LEMMA AtPlace ==
    ASSUME Types, NEW at, op.at = at,
           op.call = "connect" \/ at \in {"close stream", "close conn", "free"}
    PROVE  /\ op.call \in {"connect", "close"} /\ op \in Op /\ op.n \in DOMAIN net
           /\ op.call = "connect" => op.h = 0
           /\ op.call = "close" => op.h \in Handle /\ htype[op.h] = "conn" /\ data[op.h].n = op.n
           /\ Part(0) = Leftover(at, op.n, net)
           /\ at \in {"quic", "connected", "ready", "close stream", "close conn", "free"} =>
                net[op.n].kind = "quic"
           /\ at = "socket" => net[op.n].kind \in {"tcp", "tls"}
           /\ at = "handshake" => net[op.n].kind = "tls"
<1>1. op.call \in {"connect", "close"} /\ op \in Op
  <2>1. op \in Op
    BY DEF Types, OpTypes
  <2>2. op.call # "connect" => op.call = "close"
    BY AtQuicEnd DEF QuicEnd
  <2> QED BY <2>1, <2>2
<1>2. Part(0) = Leftover(at, op.n, net)
  BY <1>1, InCallWhat, PartOf
<1>3. op.call = "close" => OnEntry("conn")
  BY DEF Types, OpTypes
<1>4. op.n \in DOMAIN net
  BY <1>1, <1>3 DEF Types, OpTypes, OnEntry, TableTypes, Refers
<1>5. op.call = "connect" => op.h = 0
  BY DEF Types, OpTypes
<1>6. op.call = "connect" =>
           /\ op.at = "socket" => net[op.n].kind \in {"tcp", "tls"}
           /\ op.at = "handshake" => net[op.n].kind = "tls"
           /\ op.at \in {"quic", "connected", "ready"} \cup QuicEnd => net[op.n].kind = "quic"
  BY DEF Types, OpTypes
<1>7. op.call = "close" => op.at \in QuicEnd /\ net[op.n].kind = "quic"
  BY DEF Types, OpTypes
<1> QED BY <1>1, <1>2, <1>3, <1>4, <1>5, <1>6, <1>7 DEF OnEntry, QuicEnd

(* It goes to another, or is over.                                         *)
LEMMA ToPlace ==
    ASSUME Types, op.call \in {"connect", "close"}, op \in Op, NEW to
    PROVE  /\ Goto(to) => /\ op'.call = op.call /\ op'.n = op.n /\ op'.h = op.h
                          /\ Part(0)' = Leftover(to, op.n, net')
           /\ Return => op'.call = "none" /\ Part(0)' = {}
<1>1. ASSUME Goto(to)
      PROVE  op'.call = op.call /\ op'.n = op.n /\ op'.h = op.h /\ op'.at = to
  <2>1. op' = [op EXCEPT !.at = to]
    BY <1>1 DEF Goto
  <2> QED BY <2>1 DEF Op
<1>2. ASSUME Goto(to) PROVE Part(0)' = Leftover(to, op.n, net')
  <2>1. InCall(op', net') = Leftover(op'.at, op'.n, net')
    BY <1>1, <1>2, InCallWhat
  <2> QED BY <1>1, <1>2, <2>1, PartOfNext
<1>3. ASSUME Return PROVE op'.call = "none" /\ Part(0)' = {}
  <2>1. op'.call = "none"
    BY <1>3 DEF Return, NoOp
  <2> QED BY <2>1, InCallWhat, PartOfNext
<1> QED BY <1>1, <1>2, <1>3

(* A step of CONNECT that closes C and opens N, among the rest.            *)
LEMMA Connecting ==
    ASSUME Types, Owners, NEW C, NEW N, UNCHANGED <<htype, data, net, otherVars>>,
           op.call = "connect",
           (op'.call = op.call /\ op'.n = op.n /\ op'.h = op.h) \/ op'.call = "none",
           os' = (os \ C) \cup N, ~misused',
           \A o \in N : o[1] # "nul" /\ o[2] = op.n /\ o \notin Part(0),
           C \subseteq Part(0),
           \A o : o \in Part(0)' <=> (o \in Part(0) /\ o \notin C) \/ o \in N,
           \A o \in C : o[1] # "stream",
           \A n \in DOMAIN net : quic'[n].cb = quic[n].cb
    PROVE  Owners'
<1>1. Mine(C, N)
  BY MineIs
<1>2. StreamsStay
  BY ConnKinds DEF StreamsStay
<1>3. Connects(C, N)
  BY <1>1, <1>2 DEF Connects, SameKinds
<1> QED BY <1>3, ConnectsOwners

(* The socket, and the session of TLS over it.                             *)
LEMMA SocketOwners ==
    ASSUME Types, Owners, OpenSocket \/ Handshake, UNCHANGED <<processVars, otherVars>>
    PROVE  Owners'
<1>1. PICK n : n = op.n
  OBVIOUS
<1>2. UNCHANGED <<htype, data, net, otherVars>> /\ quic' = quic
  BY DEF OpenSocket, Handshake, connVars
<1>3. op.call = "connect"
  BY DEF OpenSocket, Handshake, In
<1>4. CASE OpenSocket
  <2>1. op.at = "socket" /\ op \in Op /\ Part(0) = {} /\ net[n].kind \in {"tcp", "tls"}
    <3>1. op.at = "socket"
      BY <1>4 DEF OpenSocket, In
    <3> QED BY <1>1, <1>3, <3>1, AtPlace, LeftoverWhat
  <2>2. CASE Open({Sock(n)}) /\ Goto(IF net[op.n].kind = "tls" THEN "handshake" ELSE "entry")
    <3>1. PICK to \in {"handshake", "entry"} : to = IF net[op.n].kind = "tls" THEN "handshake" ELSE "entry"
      OBVIOUS
    <3>2. op'.call = op.call /\ op'.n = op.n /\ op'.h = op.h /\ Part(0)' = Leftover(to, n, net)
      BY <1>1, <1>2, <1>3, <2>1, <2>2, <3>1, ToPlace
    <3>3. Leftover(to, n, net) = {Sock(n)}
      <4>1. CASE net[n].kind = "tls"
        <5>1. to = "handshake"
          BY <1>1, <3>1, <4>1
        <5> QED BY <5>1, LeftoverWhat
      <4>2. CASE net[n].kind = "tcp"
        <5>1. to = "entry"
          BY <1>1, <3>1, <4>2
        <5>2. Behind(n, net) = {Sock(n)}
          BY <4>2, BehindWhat
        <5> QED BY <5>1, <5>2, LeftoverWhat
      <4> QED BY <2>1, <4>1, <4>2
    <3>4. ~misused' /\ os' = os \cup {Sock(n)}
      BY <2>2 DEF Open, Owners
    <3>5. PICK C, N : C = {} /\ N = {Sock(n)}
      OBVIOUS
    <3>6. os' = (os \ C) \cup N
      BY <3>4, <3>5
    <3>7. \A o \in N : o[1] # "nul" /\ o[2] = op.n /\ o \notin Part(0)
      BY <1>1, <2>1, <3>5, ConnKinds
    <3>8. \A o : o \in Part(0)' <=> (o \in Part(0) /\ o \notin C) \/ o \in N
      BY <2>1, <3>2, <3>3, <3>5
    <3> QED BY <1>2, <1>3, <3>2, <3>4, <3>5, <3>6, <3>7, <3>8, Connecting
  <2>3. CASE Return /\ UNCHANGED <<os, misused>>
    <3>1. op'.call = "none" /\ Part(0)' = {}
      BY <1>3, <2>1, <2>3, ToPlace
    <3>2. os' = (os \ {}) \cup {} /\ ~misused'
      BY <2>3 DEF Owners
    <3> QED BY <1>2, <1>3, <2>1, <3>1, <3>2, Connecting
  <2> QED BY <1>1, <1>4, <2>2, <2>3 DEF OpenSocket
<1>5. CASE Handshake
  <2>1. op.at = "handshake" /\ op \in Op /\ Part(0) = {Sock(n)} /\ net[n].kind = "tls"
    <3>1. op.at = "handshake"
      BY <1>5 DEF Handshake, In
    <3> QED BY <1>1, <1>3, <3>1, AtPlace, LeftoverWhat
  <2>2. ~misused'
    <3>1. {Sock(n)} \subseteq os
      BY <2>1, HeldOpen, HolderKinds DEF Owners
    <3> QED BY <1>1, <1>5, <3>1, NoMisuse DEF Handshake, Owners
  <2>3. CASE os' = os \cup {Tls(n)} /\ Goto("entry")
    <3>1. op'.call = op.call /\ op'.n = op.n /\ op'.h = op.h /\ Part(0)' = Leftover("entry", n, net)
      BY <1>1, <1>2, <1>3, <2>1, <2>3, ToPlace
    <3>2. Part(0)' = {Sock(n), Tls(n)}
      BY <2>1, <3>1, LeftoverWhat, BehindWhat
    <3>3. PICK C, N : C = {} /\ N = {Tls(n)}
      OBVIOUS
    <3>4. os' = (os \ C) \cup N
      BY <2>3, <3>3
    <3>5. \A o \in N : o[1] # "nul" /\ o[2] = op.n /\ o \notin Part(0)
      BY <1>1, <2>1, <3>3, ConnKinds
    <3>6. \A o : o \in Part(0)' <=> (o \in Part(0) /\ o \notin C) \/ o \in N
      BY <2>1, <3>2, <3>3
    <3> QED BY <1>2, <1>3, <2>2, <3>1, <3>3, <3>4, <3>5, <3>6, Connecting
  <2>4. CASE os' = os \ {Sock(n)} /\ Return
    <3>1. op'.call = "none" /\ Part(0)' = {}
      BY <1>3, <2>1, <2>4, ToPlace
    <3>2. os' = (os \ {Sock(n)}) \cup {}
      BY <2>4
    <3> QED BY <1>2, <1>3, <2>1, <2>2, <3>1, <3>2, Connecting, ConnKinds
  <2> QED BY <1>1, <1>5, <2>3, <2>4 DEF Handshake
<1> QED BY <1>4, <1>5

(* CONNECT over QUIC gets one object after the other.                      *)
LEMMA QuicGoesOn ==
    ASSUME Types, Owners, UNCHANGED <<htype, data, net, otherVars>>, op.call = "connect", op \in Op,
           NEW N, NEW to, Goto(to), os' = os \cup N, ~misused',
           \A o \in N : o[1] # "nul" /\ o[2] = op.n /\ o \notin Part(0),
           \A o : o \in Leftover(to, op.n, net) <=> o \in Part(0) \/ o \in N,
           \A m \in DOMAIN net : quic'[m].cb = quic[m].cb
    PROVE  Owners'
<1>1. op'.call = op.call /\ op'.n = op.n /\ op'.h = op.h /\ Part(0)' = Leftover(to, op.n, net)
  BY ToPlace
<1>2. PICK C : C = {}
  OBVIOUS
<1>3. os' = (os \ C) \cup N
  BY <1>2
<1>4. \A o : o \in Part(0)' <=> (o \in Part(0) /\ o \notin C) \/ o \in N
  BY <1>1, <1>2
<1> QED BY <1>1, <1>2, <1>3, <1>4, Connecting

(* The session of QUIC is opened.                                          *)
LEMMA QuicOpenOwners ==
    ASSUME Types, Owners, QuicOpen, UNCHANGED <<processVars, otherVars>>
    PROVE  Owners'
<1>1. PICK n : n = op.n
  OBVIOUS
<1>2. UNCHANGED <<htype, data, net, otherVars>> /\ op.call = "connect" /\ op.at = "quic"
  BY DEF QuicOpen, In
<1>3. op \in Op /\ Part(0) = {} /\ n \in DOMAIN net
  BY <1>1, <1>2, AtPlace, LeftoverWhat
<1>4. quic \in [DOMAIN net -> QuicSession]
  BY DEF Types, ConnTypes
<1>5. ASSUME NEW to \in {"free", "close conn", "connected"}, NEW N, Open(N), Goto(to),
             N = Leftover(to, n, net), N \subseteq Session(n) \cup {Conn(n)},
             \A m \in DOMAIN net : quic'[m].cb = quic[m].cb
      PROVE  Owners'
  <2>1. os' = os \cup N /\ ~misused'
    BY <1>5 DEF Open, Owners
  <2>2. \A o \in N : o[1] # "nul" /\ o[2] = op.n /\ o \notin Part(0)
    <3>1. \A o \in Session(n) : o[1] \in {"session", "events"} /\ o[2] = n
      BY ConnKinds
    <3>2. Conn(n)[1] = "conn" /\ Conn(n)[2] = n
      BY ConnKinds
    <3> QED BY <1>1, <1>3, <1>5, <3>1, <3>2
  <2>3. \A o : o \in Leftover(to, op.n, net) <=> o \in Part(0) \/ o \in N
    BY <1>1, <1>3, <1>5
  <2> QED BY <1>2, <1>3, <1>5, <2>1, <2>2, <2>3, QuicGoesOn
<1>6. CASE Return /\ UNCHANGED <<os, misused, quic>>
  <2>1. op'.call = "none" /\ Part(0)' = {}
    BY <1>2, <1>3, <1>6, ToPlace
  <2>2. os' = (os \ {}) \cup {} /\ ~misused'
    BY <1>6 DEF Owners
  <2>3. \A m \in DOMAIN net : quic'[m].cb = quic[m].cb
    BY <1>6
  <2> QED BY <1>2, <1>3, <2>1, <2>2, <2>3, Connecting
<1>7. CASE Open(Session(n)) /\ Goto("free") /\ UNCHANGED quic
  BY <1>5, <1>7, LeftoverWhat
<1>8. CASE Open(Session(n) \cup {Conn(n)}) /\ Goto("close conn") /\ UNCHANGED quic
  BY <1>5, <1>8, LeftoverWhat
<1>9. CASE /\ Open(Session(n) \cup {Conn(n)}) /\ Goto("connected")
           /\ quic' = [quic EXCEPT ![n].conn = "starting"]
  <2>1. \A m \in DOMAIN net : quic'[m].cb = quic[m].cb
    BY <1>3, <1>4, <1>9 DEF QuicSession
  <2> QED BY <1>5, <1>9, <2>1, LeftoverWhat
<1> QED BY <1>1, <1>6, <1>7, <1>8, <1>9 DEF QuicOpen

(* The connection of QUIC is up, or given up.                              *)
LEMMA QuicConnectedOwners ==
    ASSUME Types, Owners, QuicConnected, UNCHANGED <<processVars, otherVars>>
    PROVE  Owners'
<1>1. PICK n : n = op.n
  OBVIOUS
<1>2. UNCHANGED <<htype, data, net, otherVars>> /\ op.call = "connect" /\ op.at = "connected"
  BY DEF QuicConnected, In
<1>3. op \in Op /\ Part(0) = Session(n) \cup {Conn(n)} /\ n \in DOMAIN net
  BY <1>1, <1>2, AtPlace, LeftoverWhat
<1>4. quic \in [DOMAIN net -> QuicSession]
  BY DEF Types, ConnTypes
<1>5. CASE Goto("close conn") /\ Uses(Session(n)) /\ UNCHANGED <<os, quic>>
  <2>1. Session(n) \subseteq os
    BY <1>3, HeldOpen, HolderKinds DEF Owners
  <2>2. PICK N, to : N = {} /\ to = "close conn"
    OBVIOUS
  <2>3. ~misused' /\ os' = os \cup N /\ Goto(to)
    BY <1>5, <2>1, <2>2, NoMisuse DEF Owners
  <2>4. \A o : o \in Leftover(to, op.n, net) <=> o \in Part(0) \/ o \in N
    BY <1>1, <1>3, <2>2, LeftoverWhat
  <2>5. \A m \in DOMAIN net : quic'[m].cb = quic[m].cb
    BY <1>5
  <2>6. \A o \in N : o[1] # "nul" /\ o[2] = op.n /\ o \notin Part(0)
    BY <2>2
  <2> QED BY <1>2, <1>3, <2>3, <2>4, <2>5, <2>6, QuicGoesOn
<1>6. ASSUME NEW to \in {"close stream", "ready"}, Open({Strm(n)}), Goto(to),
             \A m \in DOMAIN net : quic'[m].cb = quic[m].cb
      PROVE  Owners'
  <2>1. PICK N : N = {Strm(n)}
    OBVIOUS
  <2>2. os' = os \cup N /\ ~misused'
    BY <1>6, <2>1 DEF Open, Owners
  <2>3. \A o \in N : o[1] # "nul" /\ o[2] = op.n /\ o \notin Part(0)
    <3>1. \A o \in Session(n) : o[1] \in {"session", "events"}
      BY ConnKinds
    <3>2. Conn(n)[1] = "conn" /\ Strm(n)[1] = "stream" /\ Strm(n)[2] = n
      BY ConnKinds
    <3> QED BY <1>1, <1>3, <2>1, <3>1, <3>2
  <2>4. \A o : o \in Leftover(to, op.n, net) <=> o \in Part(0) \/ o \in N
    <3>1. Leftover(to, n, net) = Session(n) \cup {Conn(n), Strm(n)}
      BY <1>6, LeftoverWhat
    <3> QED BY <1>1, <1>3, <2>1, <3>1
  <2> QED BY <1>2, <1>3, <1>6, <2>2, <2>3, <2>4, QuicGoesOn
<1>7. CASE Open({Strm(n)}) /\ Goto("close stream") /\ UNCHANGED quic
  BY <1>6, <1>7
<1>8. CASE Open({Strm(n)}) /\ Goto("ready") /\ quic' = [quic EXCEPT ![n].strm = "starting"]
  <2>1. \A m \in DOMAIN net : quic'[m].cb = quic[m].cb
    BY <1>3, <1>4, <1>8 DEF QuicSession
  <2> QED BY <1>6, <1>8, <2>1
<1> QED BY <1>1, <1>5, <1>7, <1>8 DEF QuicConnected

(* The stream of QUIC is up, or given up.                                  *)
LEMMA QuicReadyOwners ==
    ASSUME Types, Owners, QuicReady, UNCHANGED <<processVars, otherVars>>
    PROVE  Owners'
<1>1. PICK n : n = op.n
  OBVIOUS
<1>2. UNCHANGED <<htype, data, net, otherVars>> /\ quic' = quic /\ os' = os
      /\ op.call = "connect" /\ op.at = "ready"
  BY DEF QuicReady, In, connVars
<1>3. op \in Op /\ Part(0) = Session(n) \cup {Conn(n), Strm(n)} /\ net[n].kind = "quic"
  BY <1>1, <1>2, AtPlace, LeftoverWhat
<1>4. ~misused'
  <2>1. Session(n) \subseteq os
    BY <1>3, HeldOpen, HolderKinds DEF Owners
  <2> QED BY <1>1, <1>2, <2>1, NoMisuse DEF QuicReady, Owners
<1>5. PICK to \in {"entry", "close stream"} : Goto(to)
  BY DEF QuicReady
<1>6. Leftover(to, n, net) = Session(n) \cup {Conn(n), Strm(n)}
  <2>1. Behind(n, net) = Session(n) \cup {Conn(n), Strm(n)}
    BY <1>3, BehindWhat
  <2> QED BY <1>5, <2>1, LeftoverWhat
<1>7. PICK N : N = {}
  OBVIOUS
<1>8. \A o : o \in Leftover(to, op.n, net) <=> o \in Part(0) \/ o \in N
  BY <1>1, <1>3, <1>6, <1>7
<1>9. os' = os \cup N
  BY <1>2, <1>7
<1>10. \A m \in DOMAIN net : quic'[m].cb = quic[m].cb
  BY <1>2
<1>11. \A o \in N : o[1] # "nul" /\ o[2] = op.n /\ o \notin Part(0)
  BY <1>7
<1> QED BY <1>2, <1>3, <1>4, <1>5, <1>8, <1>9, <1>10, <1>11, QuicGoesOn

(* Nothing of CONNECT happens before the entry, or after it.               *)
LEMMA EnterConnOwners ==
    ASSUME Types, Owners, EnterConn, UNCHANGED <<processVars, otherVars>>
    PROVE  Owners'
<1>1. PICK n : n = op.n
  OBVIOUS
<1>2. UNCHANGED <<net, quic>> /\ op.call = "connect" /\ op.at = "entry"
  BY DEF EnterConn, In, connVars
<1>3. op \in Op /\ Part(0) = Behind(n, net) /\ n \in DOMAIN net
  BY <1>1, <1>2, AtPlace, LeftoverWhat
<1>4. net[n].kind \in {"tcp", "tls", "quic"}
  BY <1>3, ConnTyped DEF Types
<1>5. ASSUME NEW h \in Handle, Entry(h, "conn", [Blank EXCEPT !.n = op.n]), Return, UNCHANGED <<os, misused>>
      PROVE  Owners'
  <2>1. PICK d : d = [Blank EXCEPT !.n = op.n]
    OBVIOUS
  <2>2. d.n = n
    BY <1>1, <2>1, EntryData
  <2>3. /\ htype[h] = "free" /\ htype'[h] = "conn" /\ data'[h] = d
        /\ \A g \in Handle \ {h} : htype'[g] = htype[g] /\ data'[g] = data[g]
    BY <1>5, <2>1, ObjectAssumption, NewEntry
  <2>4. op'.call = "none" /\ Part(0)' = {}
    BY <1>2, <1>3, <1>5, ToPlace
  <2>5. Owns("conn", d, net', desk') = Behind(n, net)
    BY <1>2, <2>2, OwnsWhat
  <2>6. \A g \in Handle \ {h} : SameEntry(g)
    <3>1. desk' = desk /\ net' = net
      BY <1>2 DEF otherVars, deskVars
    <3>2. \A g \in Handle \ {h} : Busy(op', g) <=> Busy(op, g)
      BY <1>2, <2>4 DEF Busy
    <3> QED BY <2>3, <3>1, <3>2, OthersSame
  <2>7. PICK C, N : C = {} /\ N = {}
    OBVIOUS
  <2>8. Enters(h, "conn", d, C, N)
    <3>1. \A o : (o \in Part(0)' \/ o \in Owns("conn", d, net', desk')) <=> (o \in Part(0) /\ o \notin C) \/ o \in N
      BY <1>3, <2>4, <2>5, <2>7
    <3>2. \A o \in Owns("conn", d, net', desk') : o \notin Part(0)'
      BY <2>4
    <3>3. op'.call # "close" /\ UNCHANGED <<lost, leaked>>
      BY <2>4 DEF otherVars, deskVars, gpuVars
    <3> QED BY <1>5, <2>3, <2>6, <2>7, <3>1, <3>2, <3>3 DEF Enters
  <2>9. Booked'
    BY <2>8, EntersBooked DEF Owners
  <2>10. Piping' /\ Tokens'
    <3>1. "conn" \in HandleType \ TokenKind
      BY ObjectAssumption DEF TokenKind
    <3> QED BY <1>2, <1>5, <2>4, <3>1, EntryAlone DEF otherVars
  <2>11. Fresh' /\ NulsOpen' /\ ~misused'
    BY <1>5, <2>4 DEF Fresh, NulsOpen, Owners
  <2>12. Heard'
    BY <1>2, <1>5 DEF Owners, Heard, Strm, Object
  <2> QED BY <2>9, <2>10, <2>11, <2>12 DEF Owners
<1>6. CASE UNCHANGED <<htype, next, data>> /\ net[n].kind = "quic" /\ Goto("close stream") /\ UNCHANGED <<os, misused>>
  <2>1. PICK N : N = {}
    OBVIOUS
  <2>2. PICK to : to = "close stream"
    OBVIOUS
  <2>3. Leftover(to, n, net) = Behind(n, net)
    <3>1. Behind(n, net) = Session(n) \cup {Conn(n), Strm(n)}
      BY <1>6, BehindWhat
    <3> QED BY <2>2, <3>1, LeftoverWhat
  <2>4. \A o : o \in Leftover(to, op.n, net) <=> o \in Part(0) \/ o \in N
    BY <1>1, <1>3, <2>1, <2>3
  <2>5. \A o \in N : o[1] # "nul" /\ o[2] = op.n /\ o \notin Part(0)
    BY <2>1
  <2>6. os' = os \cup N /\ ~misused' /\ Goto(to)
    BY <1>6, <2>1, <2>2 DEF Owners
  <2>7. \A m \in DOMAIN net : quic'[m].cb = quic[m].cb
    BY <1>2
  <2>8. UNCHANGED <<htype, data, net, otherVars>>
    BY <1>2, <1>6
  <2> QED BY <1>2, <1>3, <2>4, <2>5, <2>6, <2>7, <2>8, QuicGoesOn
<1>7. CASE UNCHANGED <<htype, next, data>> /\ net[n].kind # "quic" /\ Close(ObjectsOf(n)) /\ Return
  <2>1. PICK C, N : C = Behind(n, net) /\ N = {}
    OBVIOUS
  <2>2. Close(C) /\ C \subseteq os
    <3>1. ObjectsOf(n) = Behind(n, net)
      BY DEF ObjectsOf, Behind
    <3>2. C \subseteq os
      BY <1>3, <2>1, HeldOpen, HolderKinds DEF Owners
    <3> QED BY <1>7, <2>1, <3>1, <3>2
  <2>3. os' = (os \ C) \cup N /\ ~misused'
    BY <2>1, <2>2, NoMisuse DEF Owners
  <2>4. op'.call = "none" /\ Part(0)' = {}
    BY <1>2, <1>3, <1>7, ToPlace
  <2>5. \A o \in C : o[1] # "stream"
    <3>1. C = {Sock(n)} \/ C = {Sock(n), Tls(n)}
      BY <1>4, <1>7, <2>1, BehindWhat
    <3>2. Sock(n)[1] = "socket" /\ Tls(n)[1] = "tls"
      BY ConnKinds
    <3> QED BY <3>1, <3>2
  <2>6. \A o : o \in Part(0)' <=> (o \in Part(0) /\ o \notin C) \/ o \in N
    BY <1>3, <2>1, <2>4
  <2>7. \A m \in DOMAIN net : quic'[m].cb = quic[m].cb
    BY <1>2
  <2>8. UNCHANGED <<htype, data, net, otherVars>> /\ C \subseteq Part(0)
    BY <1>2, <1>3, <1>7, <2>1
  <2>9. \A o \in N : o[1] # "nul" /\ o[2] = op.n /\ o \notin Part(0)
    BY <2>1
  <2> QED BY <1>2, <2>3, <2>4, <2>5, <2>6, <2>7, <2>8, <2>9, Connecting
<1> QED BY <1>1, <1>5, <1>6, <1>7 DEF EnterConn

(* CLOSE of QUIC, or the roll-back of CONNECT, closes one after the other. *)
LEMMA CloseStreamOwners ==
    ASSUME Types, Owners, CloseStream, UNCHANGED <<processVars, otherVars>>
    PROVE  Owners'
<1>1. PICK n : n = op.n
  OBVIOUS
<1>2. UNCHANGED <<htype, data, net, quic, otherVars>> /\ op.at = "close stream" /\ ~quic[n].cb
  BY <1>1 DEF CloseStream, connVars
<1>3. op \in Op /\ Part(0) = Session(n) \cup {Conn(n), Strm(n)} /\ op.call \in {"connect", "close"}
  BY <1>1, <1>2, AtPlace, LeftoverWhat
<1>4. PICK C, N : C = {Strm(n)} /\ N = {}
  OBVIOUS
<1>5. os' = (os \ C) \cup N /\ ~misused'
  <2>1. Close(C) /\ C \subseteq os
    BY <1>1, <1>3, <1>4, HeldOpen, HolderKinds DEF Owners, CloseStream
  <2> QED BY <1>4, <2>1, NoMisuse DEF Owners
<1>6. op'.call = op.call /\ op'.n = op.n /\ op'.h = op.h /\ Part(0)' = Session(n) \cup {Conn(n)}
  <2>1. Goto("close conn")
    BY DEF CloseStream
  <2>2. op'.call = op.call /\ op'.n = op.n /\ op'.h = op.h /\ Part(0)' = Leftover("close conn", op.n, net')
    BY <1>3, <2>1, ToPlace
  <2> QED BY <1>1, <2>2, LeftoverWhat
<1>7. /\ \A o \in Session(n) : o[1] \in {"session", "events"}
      /\ Conn(n)[1] = "conn" /\ Strm(n)[1] = "stream" /\ \A m : Strm(m)[2] = m
  BY ConnKinds
<1>8. \A o : o \in Part(0)' <=> (o \in Part(0) /\ o \notin C) \/ o \in N
  BY <1>3, <1>4, <1>6, <1>7
<1>9. Mine(C, N)
  <2>1. \A o \in N : o[1] # "nul" /\ o[2] = op.n /\ o \notin Part(0)
    BY <1>4
  <2>2. C \subseteq Part(0)
    BY <1>3, <1>4
  <2> QED BY <1>4, <1>5, <1>8, <2>1, <2>2, MineIs
<1>10. StreamsStay
  <2>1. \A m : m # n => Strm(m) \notin C
    BY <1>4, <1>7
  <2> QED BY <1>2, <1>5, <2>1 DEF StreamsStay
<1>11. Connects(C, N)
  BY <1>2, <1>3, <1>5, <1>6, <1>9, <1>10 DEF Connects, SameKinds
<1> QED BY <1>11, ConnectsOwners

(* The connection of QUIC is closed.                                       *)
LEMMA CloseConnOwners ==
    ASSUME Types, Owners, CloseConn, UNCHANGED <<processVars, otherVars>>
    PROVE  Owners'
<1>1. PICK n : n = op.n
  OBVIOUS
<1>2. UNCHANGED <<htype, data, net, quic, otherVars>> /\ op.at = "close conn"
  BY <1>1 DEF CloseConn, connVars
<1>3. op \in Op /\ Part(0) = Session(n) \cup {Conn(n)} /\ op.call \in {"connect", "close"}
  BY <1>1, <1>2, AtPlace, LeftoverWhat
<1>4. PICK C, N : C = {Conn(n)} /\ N = {}
  OBVIOUS
<1>5. os' = (os \ C) \cup N /\ ~misused'
  <2>1. Close(C) /\ C \subseteq os
    BY <1>1, <1>3, <1>4, HeldOpen, HolderKinds DEF Owners, CloseConn
  <2> QED BY <1>4, <2>1, NoMisuse DEF Owners
<1>6. op'.call = op.call /\ op'.n = op.n /\ op'.h = op.h /\ Part(0)' = Session(n)
  <2>1. Goto("free")
    BY DEF CloseConn
  <2>2. op'.call = op.call /\ op'.n = op.n /\ op'.h = op.h /\ Part(0)' = Leftover("free", op.n, net')
    BY <1>3, <2>1, ToPlace
  <2> QED BY <1>1, <2>2, LeftoverWhat
<1>7. /\ \A o \in Session(n) : o[1] \in {"session", "events"}
      /\ Conn(n)[1] = "conn" /\ \A m : Strm(m)[1] = "stream"
  BY ConnKinds
<1>8. \A o : o \in Part(0)' <=> (o \in Part(0) /\ o \notin C) \/ o \in N
  BY <1>3, <1>4, <1>6, <1>7
<1>9. Mine(C, N)
  <2>1. \A o \in N : o[1] # "nul" /\ o[2] = op.n /\ o \notin Part(0)
    BY <1>4
  <2>2. C \subseteq Part(0)
    BY <1>3, <1>4
  <2> QED BY <1>4, <1>5, <1>8, <2>1, <2>2, MineIs
<1>10. StreamsStay
  <2>1. \A m : Strm(m) \notin C
    BY <1>4, <1>7
  <2> QED BY <1>2, <1>5, <2>1 DEF StreamsStay
<1>11. Connects(C, N)
  BY <1>2, <1>3, <1>5, <1>6, <1>9, <1>10 DEF Connects, SameKinds
<1> QED BY <1>11, ConnectsOwners

(* The call and the entry h hand things over, and C is closed.             *)
Hands(h, C) ==
    /\ h \in Handle /\ UNCHANGED <<lost, leaked>>
    /\ \A g \in Handle \ {h} : SameEntry(g)
    /\ os' = os \ C
    /\ \A o \in C : o \in Part(0) \/ o \in Part(h)
    /\ \A o : (o \in Part(0)' \/ o \in Part(h)') <=> (o \in Part(0) \/ o \in Part(h)) /\ o \notin C
    /\ \A o \in Part(0)' : o \notin Part(h)'

(* Such a step keeps the books.                                            *)
LEMMA HandsBooked ==
    ASSUME Booked, NEW h, NEW C, Hands(h, C)
    PROVE  Booked'
<1>1. h \in Handle /\ h # 0 /\ h # Limit /\ h \in Holders /\ 0 \in Holders
  BY HolderKinds DEF Hands
<1>2. PICK X \in SUBSET Holders : X = {0, h}
  BY <1>1
<1>3. \A z \in Holders \ X : Part(z)' = Part(z)
  <2>1. \A g \in Handle \ {h} : Part(g)' = Part(g)
    BY EntryKept DEF Hands
  <2>2. Part(Limit)' = Part(Limit)
    BY PartOf, PartOfNext DEF Hands
  <2> QED BY <1>2, <2>1, <2>2 DEF Holders
<1>4. PICK p0, ph, q0, qh : p0 = Part(0) /\ ph = Part(h) /\ q0 = Part(0)' /\ qh = Part(h)'
  OBVIOUS
<1>5. /\ \A o \in C : o \in p0 \/ o \in ph
      /\ \A o : (o \in q0 \/ o \in qh) <=> (o \in p0 \/ o \in ph) /\ o \notin C
      /\ \A o \in q0 : o \notin qh
  BY <1>4 DEF Hands
<1>6. \A o : o \in Solid(os') <=> (o \in Solid(os) /\ o \notin C)
  BY DEF Hands, Solid
<1>7. PICK N : N = {}
  OBVIOUS
<1>8. /\ \A o : o \in Solid(os') <=> (o \in Solid(os) /\ o \notin C) \/ o \in N
      /\ \A o \in N : o \notin Solid(os) /\ \E x \in X : o \in Part(x)'
  BY <1>6, <1>7
<1>9. \A o \in C : o \in Solid(os) => \E x \in X : o \in Part(x)
  BY <1>2, <1>4, <1>5
<1>10. \A x \in X : \A o \in Part(x) : o \in C \/ \E y \in X : o \in Part(y)'
  BY <1>2, <1>4, <1>5
<1>11. \A x \in X : \A o \in Part(x)' : o \in N \/ (o \notin C /\ \E y \in X : o \in Part(y))
  BY <1>2, <1>4, <1>5
<1>12. \A x, y \in X : \A o \in Part(x)' : o \in Part(y)' => x = y
  BY <1>2, <1>4, <1>5
<1>13. Gives(X, C, N)
  BY <1>3, <1>8, <1>9, <1>10, <1>11, <1>12 DEF Gives
<1> QED BY <1>13, Rebook

(* The last step of CLOSE, or of the roll-back of CONNECT.                 *)
LEMMA FreeSessionOwners ==
    ASSUME Types, Owners, FreeSession, UNCHANGED <<processVars, otherVars>>
    PROVE  Owners'
<1>1. PICK n, h : n = op.n /\ h = op.h
  OBVIOUS
<1>2. UNCHANGED <<net, quic, otherVars>> /\ op.at = "free" /\ Return
  BY DEF FreeSession, connVars
<1>3. /\ op \in Op /\ Part(0) = Session(n) /\ op.call \in {"connect", "close"}
      /\ op.call = "connect" => h = 0
      /\ op.call = "close" => h \in Handle /\ htype[h] = "conn" /\ data[h].n = n
  BY <1>1, <1>2, AtPlace, LeftoverWhat
<1>4. PICK C, N : C = Session(n) /\ N = {}
  OBVIOUS
<1>5. os' = os \ C /\ ~misused'
  <2>1. Close(C) /\ C \subseteq os
    BY <1>1, <1>3, <1>4, HeldOpen, HolderKinds DEF Owners, FreeSession
  <2> QED BY <2>1, NoMisuse DEF Owners
<1>6. op'.call = "none" /\ Part(0)' = {}
  BY <1>2, <1>3, ToPlace
<1>7. \A o \in C : o[1] # "stream"
  BY <1>4, ConnKinds
<1>8. \A g \in Handle : /\ g # h => htype'[g] = htype[g] /\ data'[g] = data[g]
                        /\ g = h => htype'[g] = "free" /\ data'[g] = Blank
  BY <1>1, HolderKinds DEF FreeSession, FreeAll
<1>9. CASE op.call = "connect"
  <2>1. htype' = htype /\ data' = data
    <3>1. \A g \in Handle : htype'[g] = htype[g] /\ data'[g] = data[g]
      BY <1>3, <1>8, <1>9, HolderKinds
    <3>2. htype \in [Handle -> HandleType \cup {"free"}] /\ data \in [Handle -> Data(made)]
      BY DEF Types, TableTypes, HandleTypeOK
    <3>3. htype' = [g \in Handle |-> htype'[g]] /\ data' = [g \in Handle |-> data'[g]]
      BY DEF FreeSession, FreeAll
    <3> QED BY <3>1, <3>2, <3>3
  <2>2. os' = (os \ C) \cup N /\ \A o \in N : o[1] # "nul" /\ o[2] = op.n /\ o \notin Part(0)
    BY <1>4, <1>5
  <2>3. C \subseteq Part(0) /\ \A o : o \in Part(0)' <=> (o \in Part(0) /\ o \notin C) \/ o \in N
    BY <1>3, <1>4, <1>6
  <2>4. \A m \in DOMAIN net : quic'[m].cb = quic[m].cb
    BY <1>2
  <2>5. UNCHANGED <<htype, data, net, otherVars>>
    BY <1>2, <2>1
  <2> QED BY <1>5, <1>6, <1>7, <1>9, <2>2, <2>3, <2>4, <2>5, Connecting
<1>10. CASE op.call = "close"
  <2>1. h \in Handle /\ htype[h] = "conn" /\ htype'[h] = "free" /\ data'[h] = Blank
    BY <1>3, <1>8, <1>10
  <2>2. Part(h) = {} /\ Part(h)' = {}
    <3>1. Owns("free", Blank, net', desk') = {}
      BY OwnsWhat
    <3>2. Part(h)' = Owns(htype'[h], data'[h], net', desk')
      BY <1>6, <2>1, PartOfNext
    <3> QED BY <1>1, <1>10, <2>1, <3>1, <3>2, PartOf
  <2>3. \A g \in Handle \ {h} : SameEntry(g)
    <3>1. desk' = desk /\ net' = net
      BY <1>2 DEF otherVars, deskVars
    <3>2. \A g \in Handle \ {h} : Busy(op', g) <=> Busy(op, g)
      BY <1>1, <1>6 DEF Busy
    <3> QED BY <1>8, <3>1, <3>2, OthersSame
  <2>4. Hands(h, C)
    <3>1. \A o : (o \in Part(0)' \/ o \in Part(h)') <=> (o \in Part(0) \/ o \in Part(h)) /\ o \notin C
      BY <1>3, <1>4, <1>6, <2>2
    <3>2. (\A o \in Part(0)' : o \notin Part(h)') /\ \A o \in C : o \in Part(0) \/ o \in Part(h)
      BY <1>3, <1>4, <1>6
    <3> QED BY <1>2, <1>5, <2>1, <2>3, <3>1, <3>2 DEF Hands, otherVars, deskVars, gpuVars
  <2>5. Booked'
    BY <2>4, HandsBooked DEF Owners
  <2>6. Tokens'
    <3>1. \A g \in Handle : htype[g] \in TokenKind \/ htype'[g] \in TokenKind => g # h
      BY <2>1 DEF TokenKind
    <3> QED BY <1>2, <1>6, <1>8, <1>10, <3>1, TokensKept DEF Owners, otherVars
  <2>7. Piping'
    <3>1. \A s \in Stream : Blank.pipes[s] = 0
      BY DEF Blank
    <3>2. \A g \in Handle : \/ htype'[g] = htype[g] /\ data'[g] = data[g]
                            \/ htype[g] # "pipe" /\ \A s \in Stream : data'[g].pipes[s] = 0
      BY <1>8, <2>1, <3>1
    <3> QED BY <3>2, PipingKept DEF Owners, Types
  <2>8. Fresh' /\ NulsOpen'
    BY <1>6 DEF Fresh, NulsOpen
  <2>9. Heard'
    <3>1. StreamsStay
      BY <1>2, <1>5, <1>7, ConnKinds DEF StreamsStay
    <3> QED BY <3>1, StillHeard
  <2> QED BY <1>5, <2>5, <2>6, <2>7, <2>8, <2>9 DEF Owners
<1> QED BY <1>3, <1>9, <1>10

(* CLOSE: a socket at once, QUIC step by step.                             *)
LEMMA CloseCallOwners ==
    ASSUME Types, Owners, NEW h \in Handle, CloseCall(h), UNCHANGED <<processVars, otherVars>>
    PROVE  Owners'
<1>1. PICK n : n = data[h].n
  OBVIOUS
<1>2. UNCHANGED <<net, quic, otherVars>> /\ op.call = "none" /\ htype[h] = "conn"
  BY DEF CloseCall, connVars, Idle, IsA
<1>3. n \in DOMAIN net /\ net[n].kind \in {"tcp", "tls", "quic"}
  BY <1>1, <1>2, ConnTyped DEF Types, TableTypes, Refers
<1>4. Part(h) = Behind(n, net) /\ Behind(n, net) \subseteq os
  BY <1>1, <1>2, EntryOpen, OwnsWhat
<1>5. CASE net[n].kind # "quic"
  <2>1. ObjectsOf(n) = Behind(n, net)
    BY DEF ObjectsOf, Behind
  <2>2. Close(Behind(n, net)) /\ FreeAll({h}) /\ op' = op
    BY <1>1, <1>5, <2>1 DEF CloseCall
  <2>3. PICK H \in SUBSET Handle : H = {h}
    OBVIOUS
  <2>4. PICK C : C = Behind(n, net)
    OBVIOUS
  <2>5. ~misused' /\ os' = os \ C
    BY <1>4, <2>2, <2>4, NoMisuse DEF Owners
  <2>6. /\ \A g \in H : htype'[g] = "free" /\ data'[g] = Blank
        /\ \A g \in Handle \ H : htype'[g] = htype[g] /\ data'[g] = data[g]
    BY <2>2, <2>3 DEF FreeAll
  <2>7. \A g \in Handle \ H : SameEntry(g)
    <3>1. desk' = desk /\ net' = net
      BY <1>2 DEF otherVars, deskVars
    <3>2. \A g \in Handle \ H : Busy(op', g) <=> Busy(op, g)
      BY <2>2
    <3> QED BY <2>6, <3>1, <3>2, OthersSame
  <2>8. Frees(H, C)
    <3>1. (\A o \in C : \E g \in H : o \in Part(g)) /\ \A g \in H : Part(g) \subseteq C
      BY <1>4, <2>3, <2>4
    <3>2. UNCHANGED <<lost, leaked>>
      BY <1>2 DEF otherVars, deskVars, gpuVars
    <3> QED BY <1>2, <2>2, <2>5, <2>6, <2>7, <3>1, <3>2 DEF Frees
  <2>9. Tokens' /\ Fresh' /\ NulsOpen' /\ Booked'
    <3>1. \A g \in H : htype[g] \notin TokenKind
      BY <1>2, <2>3 DEF TokenKind
    <3> QED BY <1>2, <2>8, <3>1, FreesRest DEF otherVars
  <2>10. Heard'
    <3>1. C = {Sock(n)} \/ C = {Sock(n), Tls(n)}
      BY <1>3, <1>5, <2>4, BehindWhat
    <3>2. Sock(n)[1] = "socket" /\ Tls(n)[1] = "tls" /\ \A m : Strm(m)[1] = "stream"
      BY ConnKinds
    <3>3. StreamsStay
      BY <1>2, <2>5, <3>1, <3>2 DEF StreamsStay
    <3> QED BY <3>3, StillHeard
  <2>11. Piping'
    <3>1. \A s \in Stream : Blank.pipes[s] = 0
      BY DEF Blank
    <3>2. \A g \in Handle : \/ htype'[g] = htype[g] /\ data'[g] = data[g]
                            \/ htype[g] # "pipe" /\ \A s \in Stream : data'[g].pipes[s] = 0
      BY <1>2, <2>3, <2>6, <3>1
    <3> QED BY <3>2, PipingKept DEF Owners, Types
  <2> QED BY <2>5, <2>9, <2>10, <2>11 DEF Owners
<1>6. CASE net[n].kind = "quic"
  <2>1. UNCHANGED <<os, misused, htype, next, data>> /\ Begin("close", "close stream", h)
    BY <1>1, <1>6 DEF CloseCall
  <2>2. op'.call = "close" /\ op'.at = "close stream" /\ op'.n = n /\ op'.h = h
    BY <1>1, <2>1 DEF Begin, NoOp
  <2>3. Part(0) = {}
    BY <1>2, InCallWhat, PartOf
  <2>4. Part(0)' = Behind(n, net) /\ Part(h)' = {}
    <3>1. InCall(op', net') = Leftover("close stream", n, net')
      BY <2>2, InCallWhat
    <3>2. Leftover("close stream", n, net') = Behind(n, net)
      <4>1. Leftover("close stream", n, net') = Session(n) \cup {Conn(n), Strm(n)}
        BY LeftoverWhat
      <4>2. Behind(n, net) = Session(n) \cup {Conn(n), Strm(n)}
        BY <1>6, BehindWhat
      <4> QED BY <4>1, <4>2
    <3> QED BY <2>2, <3>1, <3>2, PartOfNext
  <2>5. PICK C : C = {}
    OBVIOUS
  <2>6. \A g \in Handle \ {h} : SameEntry(g)
    <3>1. desk' = desk /\ net' = net
      BY <1>2 DEF otherVars, deskVars
    <3>2. \A g \in Handle \ {h} : Busy(op', g) <=> Busy(op, g)
      BY <1>2, <2>2 DEF Busy
    <3>3. \A g \in Handle \ {h} : htype'[g] = htype[g] /\ data'[g].n = data[g].n /\ data'[g].stream = data[g].stream
      BY <2>1
    <3> QED BY <3>1, <3>2, <3>3, OthersSame
  <2>7. Hands(h, C)
    <3>1. \A o : (o \in Part(0)' \/ o \in Part(h)') <=> (o \in Part(0) \/ o \in Part(h)) /\ o \notin C
      BY <1>4, <2>3, <2>4, <2>5
    <3>2. (\A o \in Part(0)' : o \notin Part(h)') /\ \A o \in C : o \in Part(0) \/ o \in Part(h)
      BY <2>4, <2>5
    <3>3. UNCHANGED <<lost, leaked>>
      BY <1>2 DEF otherVars, deskVars, gpuVars
    <3>4. os' = os \ C
      BY <2>1, <2>5
    <3> QED BY <2>6, <3>1, <3>2, <3>3, <3>4 DEF Hands
  <2>8. Booked'
    BY <2>7, HandsBooked DEF Owners
  <2>9. Tokens' /\ Piping'
    BY <1>2, <2>1, <2>2, TokensKept, PipingKept DEF Owners, Types, otherVars
  <2>10. Fresh' /\ NulsOpen' /\ ~misused'
    BY <2>1, <2>2 DEF Fresh, NulsOpen, Owners
  <2>11. Heard'
    BY <1>2, <2>1 DEF Owners, Heard, Strm, Object
  <2> QED BY <2>8, <2>9, <2>10, <2>11 DEF Owners
<1> QED BY <1>5, <1>6

(* Connections keep their kinds, and no callback begins.                   *)
Steady == DOMAIN net' = DOMAIN net /\ SameKinds /\ \A n \in DOMAIN net : quic'[n].cb => quic[n].cb

(* Such a connection keeps its kind.                                       *)
LEMMA SteadyNet ==
    ASSUME Types, UNCHANGED quic, NEW n \in DOMAIN net, NEW r, r.kind = net[n].kind,
           net' = [net EXCEPT ![n] = r]
    PROVE  Steady
<1>1. \A m \in DOMAIN net : net'[m].kind = net[m].kind
  BY DEF Types, ConnTypes
<1> QED BY <1>1 DEF Steady, SameKinds, Types, ConnTypes

(* Such a session of QUIC keeps its callback.                              *)
LEMMA SteadyQuic ==
    ASSUME Types, UNCHANGED net, NEW n \in DOMAIN net, NEW q, q.cb => quic[n].cb,
           quic' = [quic EXCEPT ![n] = q]
    PROVE  Steady
<1>1. \A m \in DOMAIN net : quic'[m].cb => quic[m].cb
  BY DEF Types, ConnTypes
<1> QED BY <1>1 DEF Steady, SameKinds

(* What a call on a connection uses is open.                               *)
LEMMA CallUses ==
    ASSUME Types, Owners, op.call \in {"recv", "send"}
    PROVE  /\ net[op.n].kind = "tcp" => {Sock(op.n)} \subseteq os
           /\ net[op.n].kind = "tls" => {Sock(op.n), Tls(op.n)} \subseteq os
           /\ net[op.n].kind = "quic" => Session(op.n) \subseteq os
<1>1. op.h \in Handle /\ htype[op.h] = "conn" /\ op.n = data[op.h].n
  BY OnOp DEF OnEntry
<1>2. Behind(op.n, net) \subseteq os
  BY <1>1, EntryOpen, OwnsWhat
<1> QED BY <1>2, BehindWhat

(* A call about bytes that goes on or returns.                             *)
LEMMA BytesOwners ==
    ASSUME Types, Owners, UNCHANGED <<htype, data, os, otherVars>>, Steady,
           op.call \in {"none", "recv", "send"}, op'.call \in {"none", "recv", "send"}, ~misused'
    PROVE  Owners'
<1>1. StreamsStay
  BY DEF StreamsStay, Steady
<1>2. Heard'
  BY <1>1, StillHeard
<1>3. UNCHANGED <<deskVars, leaked>>
  BY DEF otherVars, gpuVars
<1> QED BY <1>2, <1>3, CalmOwners DEF Lean, Steady, SameKinds

(* A call that returns leaves no call in progress.                         *)
LEMMA ReturnsTo == Return => op'.call = "none"
BY DEF Return, NoOp

(* Receiving over TCP uses the socket.                                     *)
LEMMA TcpRecvOwners ==
    ASSUME Types, Owners, TcpRecv, UNCHANGED <<processVars, otherVars>>
    PROVE  Owners'
<1>1. op.call = "recv" /\ op.n \in DOMAIN net /\ net[op.n].kind = "tcp"
  BY OnOp DEF TcpRecv, In
<1>2. PICK n \in DOMAIN net : n = op.n
  BY <1>1
<1>3. ~misused'
  <2>1. {Sock(n)} \subseteq os
    BY <1>1, <1>2, CallUses
  <2> QED BY <1>2, <2>1, NoMisuse DEF TcpRecv, Owners
<1>4. net \in [DOMAIN net -> Net]
  BY DEF Types, ConnTypes
<1>5. Steady
  <2>1. CASE \E k \in 1 .. Least(op.cap, Len(net[n].wire)) :
               net' = [net EXCEPT ![n].got = @ \o Front(net[n].wire, k), ![n].wire = Beyond(net[n].wire, k)]
    <3>1. PICK k \in 1 .. Least(op.cap, Len(net[n].wire)) :
                 net' = [net EXCEPT ![n].got = @ \o Front(net[n].wire, k), ![n].wire = Beyond(net[n].wire, k)]
      BY Zenon, <2>1
    <3>2. PICK r : r = [net[n] EXCEPT !.got = @ \o Front(net[n].wire, k), !.wire = Beyond(net[n].wire, k)]
      OBVIOUS
    <3>3. net' = [net EXCEPT ![n] = r] /\ r.kind = net[n].kind
      BY <1>4, <3>1, <3>2 DEF Net
    <3> QED BY <3>3, SteadyNet DEF TcpRecv
  <2>2. CASE TellEnd(n)
    <3>1. PICK r : r = [net[n] EXCEPT !.told = TRUE]
      OBVIOUS
    <3>2. net' = [net EXCEPT ![n] = r] /\ r.kind = net[n].kind
      BY <1>4, <2>2, <3>1 DEF TellEnd, Net
    <3> QED BY <3>2, SteadyNet DEF TcpRecv
  <2> QED BY <1>2, <2>1, <2>2 DEF TcpRecv
<1>6. op'.call = "none"
  BY ReturnsTo DEF TcpRecv
<1> QED BY <1>1, <1>3, <1>5, <1>6, BytesOwners DEF TcpRecv

(* Decrypting a record changes only the bytes.                             *)
LEMMA DecryptSteady ==
    ASSUME Types, UNCHANGED quic, NEW n \in DOMAIN net, NEW buf, NEW unread, Decrypt(n, buf, unread)
    PROVE  Steady
<1>1. PICK got : got = net[n].got \o Front(Front(buf, RecordSize), op.cap)
  OBVIOUS
<1>2. PICK r : r = [net[n] EXCEPT !.got = got, !.wire = unread]
  OBVIOUS
<1>3. net \in [DOMAIN net -> Net]
  BY DEF Types, ConnTypes
<1>4. net' = [net EXCEPT ![n] = r]
  BY Zenon, <1>1, <1>2 DEF Decrypt
<1>5. r.kind = net[n].kind
  BY <1>2, <1>3 DEF Net
<1> QED BY <1>4, <1>5, SteadyNet

(* Receiving over TLS uses the socket and the session.                     *)
LEMMA TlsRecvOwners ==
    ASSUME Types, Owners, TlsRecv, UNCHANGED <<processVars, otherVars>>
    PROVE  Owners'
<1>1. op.call = "recv" /\ op.n \in DOMAIN net /\ net[op.n].kind = "tls"
  BY OnOp DEF TlsRecv, In
<1>2. PICK n \in DOMAIN net : n = op.n
  BY <1>1
<1>3. ~misused'
  <2>1. {Sock(n), Tls(n)} \subseteq os
    BY <1>1, <1>2, CallUses
  <2> QED BY <1>2, <2>1, NoMisuse DEF TlsRecv, Owners
<1>4. net \in [DOMAIN net -> Net]
  BY DEF Types, ConnTypes
<1>5. Steady
  <2>1. CASE Give(n, Front(tls[n].plain, op.cap))
    <3>1. PICK r : r = [net[n] EXCEPT !.got = @ \o Front(tls[n].plain, op.cap)]
      OBVIOUS
    <3>2. net' = [net EXCEPT ![n] = r]
      BY Zenon, <2>1, <3>1 DEF Give
    <3>3. r.kind = net[n].kind
      BY <1>4, <3>1 DEF Net
    <3> QED BY <3>2, <3>3, SteadyNet DEF TlsRecv
  <2>2. CASE Decrypt(n, tls[n].rx, net[n].wire)
    BY <2>2, DecryptSteady DEF TlsRecv
  <2>3. ASSUME NEW k \in 1 .. Len(net[n].wire), Decrypt(n, tls[n].rx \o Front(net[n].wire, k), Beyond(net[n].wire, k))
        PROVE  Steady
    BY <2>3, DecryptSteady DEF TlsRecv
  <2>4. CASE net' = [net EXCEPT ![n].wire = <<>>, ![n].told = @ \/ net[n].fin]
    <3>1. PICK told : told = (net[n].told \/ net[n].fin)
      OBVIOUS
    <3>2. PICK r : r = [net[n] EXCEPT !.wire = <<>>, !.told = told]
      OBVIOUS
    <3>3. net' = [net EXCEPT ![n] = r]
      BY Zenon, <2>4, <3>1, <3>2
    <3>4. r.kind = net[n].kind
      BY <1>4, <3>2 DEF Net
    <3> QED BY <3>3, <3>4, SteadyNet DEF TlsRecv
  <2> QED BY <1>2, <2>1, <2>2, <2>3, <2>4 DEF TlsRecv
<1>6. op'.call = "none"
  BY ReturnsTo DEF TlsRecv
<1> QED BY <1>1, <1>3, <1>5, <1>6, BytesOwners DEF TlsRecv

(* Receiving over QUIC reads the ring.                                     *)
LEMMA QuicRecvOwners ==
    ASSUME Types, Owners, QuicRecv, UNCHANGED <<processVars, otherVars>>
    PROVE  Owners'
<1>1. op.call = "recv" /\ op.n \in DOMAIN net /\ net[op.n].kind = "quic" /\ op \in Op
  BY OnOp DEF QuicRecv, In, Types, OpTypes
<1>2. PICK n \in DOMAIN net : n = op.n
  BY <1>1
<1>3. ~misused'
  <2>1. Session(n) \subseteq os
    BY <1>1, <1>2, CallUses
  <2> QED BY <1>2, <2>1, NoMisuse DEF QuicRecv, Owners
<1>4. net \in [DOMAIN net -> Net] /\ quic \in [DOMAIN net -> QuicSession]
  BY DEF Types, ConnTypes
<1>5. CASE TellEnd(n) /\ Return /\ UNCHANGED quic
  <2>1. PICK r : r = [net[n] EXCEPT !.told = TRUE]
    OBVIOUS
  <2>2. net' = [net EXCEPT ![n] = r] /\ r.kind = net[n].kind
    BY <1>4, <1>5, <2>1 DEF TellEnd, Net
  <2>3. Steady
    BY <1>5, <2>2, SteadyNet
  <2> QED BY <1>1, <1>3, <1>5, <2>3, ReturnsTo, BytesOwners DEF QuicRecv
<1>6. CASE /\ Give(n, Front(quic[n].ring, op.cap)) /\ Return
           /\ quic' = [quic EXCEPT ![n].ring = Beyond(quic[n].ring, op.cap)]
  <2>1. PICK r : r = [net[n] EXCEPT !.got = @ \o Front(quic[n].ring, op.cap)]
    OBVIOUS
  <2>2. PICK ring : ring = Beyond(quic[n].ring, op.cap)
    OBVIOUS
  <2>3. PICK q : q = [quic[n] EXCEPT !.ring = ring]
    OBVIOUS
  <2>4. net' = [net EXCEPT ![n] = r] /\ quic' = [quic EXCEPT ![n] = q]
    BY Zenon, <1>6, <2>1, <2>2, <2>3 DEF Give
  <2>5. r.kind = net[n].kind
    BY <1>4, <2>1 DEF Net
  <2>6. q.cb = quic[n].cb
    BY <1>4, <2>3 DEF QuicSession
  <2>7. Steady
    BY <1>4, <2>4, <2>5, <2>6 DEF Steady, SameKinds
  <2> QED BY <1>1, <1>3, <1>6, <2>7, ReturnsTo, BytesOwners DEF QuicRecv
<1>7. CASE Goto("wait") /\ UNCHANGED <<net, quic>>
  <2>1. op'.call = "recv"
    BY <1>1, <1>7 DEF Goto, Op
  <2>2. Steady
    BY <1>7 DEF Steady, SameKinds
  <2> QED BY <1>1, <1>3, <2>1, <2>2, BytesOwners DEF QuicRecv
<1> QED BY <1>2, <1>5, <1>6, <1>7 DEF QuicRecv

(* A wait for QUIC ends.                                                   *)
LEMMA QuicWaitOwners ==
    ASSUME Types, Owners, QuicWait \/ QuicSent, UNCHANGED <<processVars, otherVars>>
    PROVE  Owners'
<1>1. op.call \in {"recv", "send"} /\ op.n \in DOMAIN net /\ net[op.n].kind = "quic" /\ op \in Op
  BY OnOp DEF QuicWait, QuicSent, In, Types, OpTypes
<1>2. PICK n \in DOMAIN net : n = op.n
  BY <1>1
<1>3. PICK event \in {"rx", "sent"} : quic' = [quic EXCEPT ![n].signals = @ \ {event}]
  BY <1>2 DEF QuicWait, QuicSent
<1>4. PICK q : q = [quic[n] EXCEPT !.signals = @ \ {event}]
  OBVIOUS
<1>5. quic' = [quic EXCEPT ![n] = q]
  BY Zenon, <1>3, <1>4
<1>6. q.cb = quic[n].cb
  BY <1>4 DEF Types, ConnTypes, QuicSession
<1>7. Steady
  BY <1>5, <1>6, SteadyQuic DEF QuicWait, QuicSent
<1>8. ~misused'
  <2>1. Session(n) \subseteq os
    BY <1>1, <1>2, CallUses
  <2> QED BY <1>2, <2>1, NoMisuse DEF QuicWait, QuicSent, Owners
<1>9. op'.call \in {"none", "recv"}
  <2>1. CASE QuicWait
    BY <1>1, <2>1 DEF QuicWait, In, Goto, Op
  <2>2. CASE QuicSent
    BY <2>2, ReturnsTo DEF QuicSent
  <2> QED BY <2>1, <2>2
<1> QED BY <1>1, <1>7, <1>8, <1>9, BytesOwners DEF QuicWait, QuicSent

(* A call that sends or receives begins.                                   *)
LEMMA BytesCallOwners ==
    ASSUME Types, Owners, NEW h \in Handle, QuicSendCall(h) \/ \E cap \in 1 .. MaxCap : RecvCall(h, cap),
           UNCHANGED <<processVars, otherVars>>
    PROVE  Owners'
<1>1. op.call = "none" /\ UNCHANGED <<htype, data, os, misused, net>>
  BY DEF QuicSendCall, RecvCall, Idle, connVars
<1>2. op'.call \in {"recv", "send"}
  BY DEF QuicSendCall, RecvCall, Begin, NoOp
<1>3. Steady
  <2>1. CASE QuicSendCall(h)
    <3>1. PICK n \in DOMAIN net : n = data[h].n
      BY <2>1, OnConn DEF QuicSendCall, IsConn
    <3>2. PICK q : q = [quic[n] EXCEPT !.signals = @ \ {"sent"}, !.sending = TRUE]
      OBVIOUS
    <3>3. quic' = [quic EXCEPT ![n] = q] /\ q.cb = quic[n].cb
      BY <2>1, <3>1, <3>2 DEF QuicSendCall, Types, ConnTypes, QuicSession
    <3> QED BY <1>1, <3>3, SteadyQuic
  <2>2. CASE \E cap \in 1 .. MaxCap : RecvCall(h, cap)
    BY <2>2 DEF RecvCall, connVars, Steady, SameKinds
  <2> QED BY <2>1, <2>2
<1> QED BY <1>1, <1>2, <1>3, BytesOwners DEF Owners

(* A callback of msquic on the connection or on the stream of n.           *)
LEMMA CallbackOwners ==
    ASSUME Types, Owners, NEW n \in DOMAIN net, NEW q, Signal(n, q),
           Conn(n) \in os \/ Strm(n) \in os, q.cb => Strm(n) \in os,
           SameKinds, DOMAIN net' = DOMAIN net, UNCHANGED <<htype, data, os, op, otherVars>>
    PROVE  Owners'
<1>1. ~misused'
  <2>1. Session(n) \subseteq os
    BY Backed DEF Owners
  <2> QED BY <2>1, NoMisuse DEF Signal, Owners
<1>2. Heard'
  <2>1. \A m \in DOMAIN net : quic'[m] = IF m = n THEN q ELSE quic[m]
    BY DEF Signal, Types, ConnTypes
  <2>2. \A m \in DOMAIN net : quic'[m].cb => Strm(m) \in os
    BY <2>1 DEF Owners, Heard
  <2> QED BY <2>2 DEF Heard, Strm, Object
<1>3. UNCHANGED <<deskVars, leaked>>
  BY DEF otherVars, gpuVars
<1> QED BY <1>1, <1>2, <1>3, AsideOwners

(* What the peers do is no business of the host's.                         *)
LEMMA PeerOwners ==
    ASSUME Types, Owners, NEW n \in DOMAIN net, PeerStep(n), UNCHANGED <<processVars, otherVars>>
    PROVE  Owners'
<1>1. net \in [DOMAIN net -> Net]
  BY DEF Types, ConnTypes
<1>2. UNCHANGED <<htype, data, os, op, misused, quic>>
  BY DEF PeerStep, objectVars
<1>3. Steady
  <2>1. CASE net' = [net EXCEPT ![n].sent = @ + 1, ![n].wire = Append(@, net[n].sent + 1)]
    <3>1. PICK r : r = [net[n] EXCEPT !.sent = @ + 1, !.wire = Append(@, net[n].sent + 1)]
      OBVIOUS
    <3>2. net' = [net EXCEPT ![n] = r] /\ r.kind = net[n].kind
      BY <1>1, <2>1, <3>1 DEF Net
    <3> QED BY <1>2, <3>2, SteadyNet
  <2>2. CASE net' = [net EXCEPT ![n].fin = TRUE]
    <3>1. PICK r : r = [net[n] EXCEPT !.fin = TRUE]
      OBVIOUS
    <3>2. net' = [net EXCEPT ![n] = r] /\ r.kind = net[n].kind
      BY <1>1, <2>2, <3>1 DEF Net
    <3> QED BY <1>2, <3>2, SteadyNet
  <2> QED BY <2>1, <2>2 DEF PeerStep
<1>4. Heard'
  <2>1. StreamsStay
    BY <1>2, <1>3 DEF StreamsStay, Steady
  <2> QED BY <2>1, StillHeard
<1> QED BY <1>2, <1>3, <1>4, AsideOwners DEF Steady, Owners, otherVars, gpuVars

(* Callbacks of msquic that report a change.                               *)
LEMMA ControlCallbackOwners ==
    ASSUME Types, Owners, NEW n \in DOMAIN net, ConnCallback(n) \/ SetRx(n) \/ StreamCallback(n),
           UNCHANGED <<processVars, otherVars>>
    PROVE  Owners'
<1>1. quic[n] \in QuicSession
  BY DEF Types, ConnTypes
<1>2. UNCHANGED <<htype, data, os, op, net>>
  BY DEF ConnCallback, SetRx, StreamCallback, callbackOnly
<1>3. Conn(n) \in os \/ Strm(n) \in os
  BY DEF ConnCallback, SetRx, StreamCallback, Owners, Heard
<1>4. \E q : Signal(n, q) /\ (q.cb => quic[n].cb)
  <2>1. CASE SetRx(n)
    <3>1. PICK q : q = With([quic[n] EXCEPT !.cb = FALSE], "rx")
      OBVIOUS
    <3>2. ~q.cb
      BY <1>1, <3>1 DEF QuicSession, With
    <3> QED BY <2>1, <3>1, <3>2 DEF SetRx
  <2>2. CASE StreamCallback(n) /\ Signal(n, With([quic[n] EXCEPT !.strm = "up"], "ready"))
    <3>1. PICK q : q = With([quic[n] EXCEPT !.strm = "up"], "ready")
      OBVIOUS
    <3>2. q.cb = quic[n].cb
      BY <1>1, <3>1 DEF QuicSession, With
    <3> QED BY <2>2, <3>1, <3>2
  <2>3. CASE StreamCallback(n) /\ Signal(n, With([quic[n] EXCEPT !.sending = FALSE], "sent"))
    <3>1. PICK q : q = With([quic[n] EXCEPT !.sending = FALSE], "sent")
      OBVIOUS
    <3>2. q.cb = quic[n].cb
      BY <1>1, <3>1 DEF QuicSession, With
    <3> QED BY <2>3, <3>1, <3>2
  <2>4. CASE Signal(n, With([quic[n] EXCEPT !.conn = "up", !.connected = TRUE], "connected"))
    <3>1. PICK q : q = With([quic[n] EXCEPT !.conn = "up", !.connected = TRUE], "connected")
      OBVIOUS
    <3>2. q.cb = quic[n].cb
      BY <1>1, <3>1 DEF QuicSession, With
    <3> QED BY <2>4, <3>1, <3>2
  <2>5. CASE Signal(n, [quic[n] EXCEPT !.conn = "down", !.failed = @ \/ ~quic[n].connected,
                                       !.signals = @ \cup {"connected", "rx"}])
    <3>1. PICK b : b = (quic[n].failed \/ ~quic[n].connected)
      OBVIOUS
    <3>2. PICK q : q = [quic[n] EXCEPT !.conn = "down", !.failed = b,
                                       !.signals = @ \cup {"connected", "rx"}]
      OBVIOUS
    <3>3. q.cb = quic[n].cb
      BY <1>1, <3>2 DEF QuicSession
    <3>4. Signal(n, q)
      BY Zenon, <2>5, <3>1, <3>2
    <3> QED BY <3>3, <3>4
  <2> QED BY <2>1, <2>2, <2>3, <2>4, <2>5 DEF ConnCallback, StreamCallback
<1>5. PICK q : Signal(n, q) /\ (q.cb => quic[n].cb)
  BY <1>4
<1>6. q.cb => Strm(n) \in os
  BY <1>5 DEF Owners, Heard
<1>7. SameKinds /\ DOMAIN net' = DOMAIN net
  BY <1>2 DEF SameKinds
<1> QED BY <1>2, <1>3, <1>5, <1>6, <1>7, CallbackOwners

(* The callback of msquic with received bytes.                             *)
LEMMA ReceiveOwners ==
    ASSUME Types, Owners, NEW n \in DOMAIN net, Receive(n) \/ StreamEnds(n),
           UNCHANGED <<processVars, otherVars>>
    PROVE  Owners'
<1>1. net \in [DOMAIN net -> Net]
  BY DEF Types, ConnTypes
<1>2. UNCHANGED <<htype, data, os, op>> /\ Strm(n) \in os
  BY DEF Receive, StreamEnds, callbackOnly
<1>3. \E q : Signal(n, q)
  BY DEF Receive, StreamEnds
<1>4. SameKinds /\ DOMAIN net' = DOMAIN net
  <2>1. ASSUME NEW r, r.kind = net[n].kind, net' = [net EXCEPT ![n] = r]
        PROVE  SameKinds /\ DOMAIN net' = DOMAIN net
    BY <1>1, <2>1 DEF SameKinds
  <2>2. CASE Receive(n)
    <3>1. PICK k \in 1 .. 2 : net' = [net EXCEPT ![n].sent = @ + k,
                                                 ![n].lost = @ \/ Len(quic[n].ring) + k > RingSize]
      BY <2>2 DEF Receive
    <3>2. PICK b : b = (net[n].lost \/ Len(quic[n].ring) + k > RingSize)
      OBVIOUS
    <3>3. PICK r : r = [net[n] EXCEPT !.sent = @ + k, !.lost = b]
      OBVIOUS
    <3>4. net' = [net EXCEPT ![n] = r]
      BY Zenon, <3>1, <3>2, <3>3
    <3>5. r.kind = net[n].kind
      BY <1>1, <3>3 DEF Net
    <3> QED BY <2>1, <3>4, <3>5
  <2>3. CASE StreamEnds(n)
    <3>1. PICK r : r = [net[n] EXCEPT !.fin = TRUE]
      OBVIOUS
    <3>2. net' = [net EXCEPT ![n] = r] /\ r.kind = net[n].kind
      BY <1>1, <2>3, <3>1 DEF StreamEnds, Net
    <3> QED BY <2>1, <3>2
  <2> QED BY <2>2, <2>3
<1> QED BY <1>2, <1>3, <1>4, CallbackOwners

(* Every step of connections keeps the account.                            *)
LEMMA ConnectionStepOwners ==
    ASSUME Types, Owners, ConnectionStep, UNCHANGED <<processVars, otherVars>>
    PROVE  Owners'
<1>1. CASE ConnectStep
  BY <1>1, SocketOwners, EnterConnOwners, QuicOpenOwners, QuicConnectedOwners, QuicReadyOwners,
     CloseStreamOwners, CloseConnOwners, FreeSessionOwners DEF ConnectStep
<1>2. CASE RecvStep \/ QuicSent
  BY <1>2, TcpRecvOwners, TlsRecvOwners, QuicRecvOwners, QuicWaitOwners DEF RecvStep
<1>3. ASSUME NEW h \in Handle, CloseCall(h) \/ QuicSendCall(h) \/ \E cap \in 1 .. MaxCap : RecvCall(h, cap)
      PROVE  Owners'
  BY <1>3, CloseCallOwners, BytesCallOwners
<1>4. ASSUME NEW n \in DOMAIN net,
             PeerStep(n) \/ ConnCallback(n) \/ Receive(n) \/ StreamEnds(n) \/ SetRx(n) \/ StreamCallback(n)
      PROVE  Owners'
  BY <1>4, PeerOwners, ControlCallbackOwners, ReceiveOwners
<1> QED BY <1>1, <1>2, <1>3, <1>4, ConnectCallOwners DEF ConnectionStep

-----------------------------------------------------------------------------
(* Steps of the desktop.                                                   *)

(* The call's account, with the table as it was.                           *)
LEMMA MineBooked ==
    ASSUME Booked, NEW C, NEW N, Mine(C, N), UNCHANGED <<lost, leaked>>, \A h \in Handle : SameEntry(h)
    PROVE  Booked'
<1>1. PICK X \in SUBSET Holders : X = {0}
  BY HolderKinds
<1>2. \A z \in Holders \ X : Part(z)' = Part(z)
  <2>1. Part(Limit)' = Part(Limit)
    BY PartOf, PartOfNext
  <2>2. \A h \in Handle : Part(h)' = Part(h)
    BY EntryKept
  <2> QED BY <1>1, <2>1, <2>2 DEF Holders
<1>3. Gives(X, C, N)
  BY <1>1, <1>2 DEF Mine, Gives
<1> QED BY <1>3, Rebook

(* What an object of the desktop is to the system.                         *)
LEMMA ObjectsForWhat ==
    ASSUME NEW kind \in DeskKind, NEW n
    PROVE  /\ \A o \in ObjectsFor(kind, n) : o = Object(kind, n)
           /\ kind # "directory" => ObjectsFor(kind, n) = {Object(kind, n)}
           /\ Object(kind, n)[1] = kind /\ Object(kind, n)[2] = n /\ kind \notin {"nul", "stream"}
BY DEF ObjectsFor, Object, DeskKind, TokenKind

(* A tray's inner menu as a set.                                           *)
LEMMA InnerWhat ==
    ASSUME NEW n
    PROVE  /\ {Object("menu", m) : m \in {n} \ {0}} = IF n = 0 THEN {} ELSE {Object("menu", n)}
           /\ Object("menu", n)[1] = "menu" /\ Object("menu", n)[2] = n
<1>1. CASE n = 0
  <2>1. {n} \ {0} = {}
    BY <1>1
  <2>2. {Object("menu", m) : m \in {n} \ {0}} = {}
    BY <2>1
  <2> QED BY <1>1, <2>2 DEF Object
<1>2. CASE n # 0
  <2>1. {n} \ {0} = {n}
    BY <1>2
  <2>2. {Object("menu", m) : m \in {n} \ {0}} = {Object("menu", n)}
    BY <2>1
  <2> QED BY <1>2, <2>2 DEF Object
<1> QED BY <1>1, <1>2

(* What the streams and the null devices are about, no desktop's step      *)
(* touches.                                                                *)
LEMMA DeskAside ==
    ASSUME Owners, UNCHANGED <<processVars, connVars, gpuVars>>,
           op.call \in {"none", "make"}, op'.call \in {"none", "make"},
           \A n : Strm(n) \in os => Strm(n) \in os'
    PROVE  Fresh' /\ NulsOpen' /\ Heard'
<1>1. Fresh' /\ NulsOpen'
  BY DEF Fresh, NulsOpen
<1>2. Heard'
  BY DEF Owners, Heard, connVars
<1> QED BY <1>1, <1>2

(* The numbers of a kind are those of its entries and of the new object.   *)
LEMMA NumbersWhat ==
    ASSUME NEW kind, NEW types, NEW entries, NEW o
    PROVE  \A n : n \in Numbers(kind, types, entries, o) <=>
                     \/ \E h \in Handle : types[h] = kind /\ n = entries[h].n
                     \/ o.call = "make" /\ o.at = kind /\ n = o.n
BY DEF Numbers

(* They are creations, with a token each.                                  *)
LEMMA OwnDesk ==
    ASSUME Types, NEW kind \in TokenKind, NEW n \in Numbers(kind, htype, data, op)
    PROVE  n \in DOMAIN desk /\ n \in 1 .. made
<1>1. n \in DOMAIN desk
  <2>1. CASE \E h \in Handle : htype[h] = kind /\ n = data[h].n
    BY <2>1 DEF Types, TableTypes, Refers
  <2>2. CASE op.call = "make" /\ op.at = kind /\ n = op.n
    BY <2>2 DEF Types, OpTypes
  <2> QED BY <2>1, <2>2, NumbersWhat
<1> QED BY <1>1 DEF Types, DeskTypes

(* Tokens, kind by kind: those of the numbers own and no other.            *)
Tokened(own, tokens, desks) ==
    /\ tokens = {desks[n].token : n \in own}
    /\ \A m, n \in own : desks[m].token = desks[n].token => m = n

(* The account of tokens, kind by kind.                                    *)
LEMMA TokensWhat ==
    /\ Tokens =>
         /\ \A kind \in TokenKind : Tokened(Numbers(kind, htype, data, op), taken[kind], desk)
         /\ \A t \in SmallToken : menus[t] # 0 => /\ menus[t] \in Numbers("menu", htype, data, op)
                                                  /\ desk[menus[t]].token = t
         /\ op.call = "make" /\ op.at = "tray" => desk[op.n].inner = 0
    /\ (/\ \A kind \in TokenKind : Tokened(Numbers(kind, htype', data', op'), taken'[kind], desk')
        /\ \A t \in SmallToken : menus'[t] # 0 => /\ menus'[t] \in Numbers("menu", htype', data', op')
                                                  /\ desk'[menus'[t]].token = t
        /\ op'.call = "make" /\ op'.at = "tray" => desk'[op'.n].inner = 0)
       => Tokens'
<1>1. TokenKind' = TokenKind /\ SmallToken' = SmallToken
  BY DEF TokenKind, SmallToken
<1> QED BY <1>1 DEF Tokens, Tokened

(* One more of a kind, with a token nobody has.                            *)
LEMMA TokenedMore ==
    ASSUME NEW own, NEW tokens, NEW desks, NEW desks1, NEW n, NEW t, Tokened(own, tokens, desks),
           t \notin tokens, \A m \in own : desks1[m].token = desks[m].token, desks1[n].token = t
    PROVE  Tokened(own \cup {n}, tokens \cup {t}, desks1)
<1>1. PICK more : more = own \cup {n}
  OBVIOUS
<1>2. \A m \in own : desks1[m].token \in tokens /\ desks1[m].token # t
  BY DEF Tokened
<1>3. \A m, k \in more : desks1[m].token = desks1[k].token => m = k
  BY <1>1, <1>2 DEF Tokened
<1>4. tokens \cup {t} = {desks1[m].token : m \in more}
  <2>1. \A x \in tokens : \E m \in own : x = desks1[m].token
    BY DEF Tokened
  <2>2. \A m \in more : desks1[m].token \in tokens \cup {t}
    BY <1>1, <1>2
  <2>3. \A x \in tokens \cup {t} : \E m \in more : x = desks1[m].token
    BY <1>1, <2>1
  <2> QED BY <2>2, <2>3
<1> QED BY <1>1, <1>3, <1>4 DEF Tokened

(* One less, and its token.                                                *)
LEMMA TokenedLess ==
    ASSUME NEW own, NEW tokens, NEW desks, NEW n \in own, Tokened(own, tokens, desks)
    PROVE  Tokened(own \ {n}, tokens \ {desks[n].token}, desks)
<1>1. PICK less : less = own \ {n}
  OBVIOUS
<1>2. \A m, k \in less : desks[m].token = desks[k].token => m = k
  BY <1>1 DEF Tokened
<1>3. tokens \ {desks[n].token} = {desks[m].token : m \in less}
  <2>1. \A x \in tokens \ {desks[n].token} : \E m \in less : x = desks[m].token
    BY <1>1 DEF Tokened
  <2>2. \A m \in less : desks[m].token \in tokens /\ desks[m].token # desks[n].token
    BY <1>1 DEF Tokened
  <2> QED BY <2>1, <2>2
<1> QED BY <1>1, <1>2, <1>3 DEF Tokened

(* The same ones with the same tokens.                                     *)
LEMMA TokenedSame ==
    ASSUME NEW own, NEW tokens, NEW desks, NEW desks1, Tokened(own, tokens, desks),
           \A m \in own : desks1[m].token = desks[m].token
    PROVE  Tokened(own, tokens, desks1)
<1>1. \A m, k \in own : desks1[m].token = desks1[k].token => m = k
  BY DEF Tokened
<1>2. tokens = {desks1[m].token : m \in own}
  BY DEF Tokened
<1> QED BY <1>1, <1>2 DEF Tokened

(* A window, menu, tray, file or directory is made: the call has it.       *)
LEMMA MakeDeskOwners ==
    ASSUME Types, Owners, NEW kind \in DeskKind, MakeDesk(kind), UNCHANGED <<processVars, connVars, gpuVars>>
    PROVE  Owners'
<1>1. PICK n : n = made + 1
  OBVIOUS
<1>2. PICK N : N = ObjectsFor(kind, n)
  OBVIOUS
<1>3. /\ op.call = "none" /\ op'.call = "make" /\ op'.at = kind /\ op'.n = n
      /\ UNCHANGED <<htype, data, lost, leaked, net>>
      /\ IF kind \in TokenKind THEN TakeToken(kind, n) ELSE UNCHANGED <<taken, menus, desk>>
  BY <1>1 DEF MakeDesk, Create, NoOp, Idle, connVars, gpuVars
<1>4. os' = os \cup N /\ ~misused'
  BY <1>1, <1>2 DEF MakeDesk, Open, Owners
<1>5. \A o \in N : o[1] = kind /\ o[2] = n /\ o[1] \notin {"nul", "stream"} /\ o \notin os
  <2>1. \A o \in N : o[1] = kind /\ o[2] = n /\ o[1] \notin {"nul", "stream"}
    BY <1>2, ObjectsForWhat
  <2> QED BY <1>1, <2>1, Numbered
<1>6. n \notin DOMAIN desk /\ \A m \in DOMAIN desk : desk'[m] = desk[m]
  <2>1. n \notin DOMAIN desk
    BY <1>1 DEF Types, DeskTypes, OsTypes
  <2>2. CASE kind \in TokenKind
    <3>1. PICK x : desk' = Extended(desk, n, x)
      BY <1>3, <2>2 DEF TakeToken
    <3> QED BY <2>1, <3>1 DEF Extended
  <2> QED BY <1>3, <2>1, <2>2
<1>7. \A h \in Handle : SameEntry(h)
  <2>1. ASSUME NEW h \in Handle PROVE SameEntry(h)
    <3>1. htype[h] = "tray" => data[h].n \in DOMAIN desk
      BY DEF Types, TableTypes, Refers, TokenKind
    <3>2. htype[h] = "conn" => net[data[h].n].kind \in {"tcp", "tls", "quic"}
      BY ConnTyped DEF Types, TableTypes, Refers
    <3> QED BY <1>3, <1>6, <3>1, <3>2 DEF SameEntry, Busy
  <2> QED BY <2>1
<1>8. Part(0) = {} /\ Part(0)' = N
  BY <1>2, <1>3, InCallWhat, PartOf, PartOfNext
<1>9. PICK C : C = {}
  OBVIOUS
<1>10. Mine(C, N)
  BY <1>4, <1>5, <1>8, <1>9 DEF Mine, Solid
<1>11. Booked'
  BY <1>3, <1>7, <1>10, MineBooked DEF Owners
<1>12. Fresh' /\ NulsOpen' /\ Heard'
  BY <1>3, <1>4, DeskAside
<1>13. Piping'
  BY <1>3, PipingKept DEF Owners, Types
<1>14. /\ \A k \in TokenKind : Tokened(Numbers(k, htype, data, op), taken[k], desk)
       /\ \A t \in SmallToken : menus[t] # 0 => /\ menus[t] \in Numbers("menu", htype, data, op)
                                                /\ desk[menus[t]].token = t
  BY TokensWhat DEF Owners
<1>15. \A k : \A m : m \in Numbers(k, htype', data', op') <=> m \in Numbers(k, htype, data, op) \/ (k = kind /\ m = n)
  BY <1>3, NumbersWhat
<1>16. \A k \in TokenKind : \A m \in Numbers(k, htype, data, op) : desk'[m] = desk[m]
  BY <1>6, OwnDesk
<1>17. ASSUME NEW k \in TokenKind, k # kind PROVE Tokened(Numbers(k, htype', data', op'), taken'[k], desk')
  <2>1. Numbers(k, htype', data', op') = Numbers(k, htype, data, op)
    <3>1. PICK own, own1 : own = Numbers(k, htype, data, op) /\ own1 = Numbers(k, htype', data', op')
      OBVIOUS
    <3>2. \A m : m \in own1 <=> m \in own
      BY <1>15, <1>17, <3>1
    <3> QED BY <3>1, <3>2
  <2>2. taken'[k] = taken[k]
    BY <1>3, <1>17 DEF TakeToken, Types, DeskTypes
  <2> QED BY <1>14, <1>16, <2>1, <2>2, TokenedSame
<1>18. CASE kind \in TokenKind
  <2>1. PICK t \in Token[kind] \ taken[kind] :
          /\ (kind = "menu" /\ t \in SmallToken) => menus[t] = 0
          /\ taken' = [taken EXCEPT ![kind] = @ \cup {t}]
          /\ menus' = IF kind = "menu" /\ t \in SmallToken THEN [menus EXCEPT ![t] = n] ELSE menus
          /\ desk' = Extended(desk, n, [token |-> t, inner |-> 0])
    BY <1>3, <1>18 DEF TakeToken
  <2>2. desk'[n] = [token |-> t, inner |-> 0]
    BY <2>1 DEF Extended
  <2>3. desk'[n].token = t /\ desk'[n].inner = 0
    BY <2>2
  <2>4. Tokened(Numbers(kind, htype', data', op'), taken'[kind], desk')
    <3>1. PICK own, own1 : own = Numbers(kind, htype, data, op) /\ own1 = Numbers(kind, htype', data', op')
      OBVIOUS
    <3>2. own1 = own \cup {n}
      BY <1>15, <3>1
    <3>3. taken'[kind] = taken[kind] \cup {t}
      BY <1>18, <2>1 DEF Types, DeskTypes
    <3>4. \A m \in own : desk'[m].token = desk[m].token
      BY <1>16, <1>18, <3>1
    <3>5. Tokened(own, taken[kind], desk) /\ t \notin taken[kind]
      BY <1>14, <1>18, <2>1, <3>1
    <3>6. PICK desks1 : desks1 = desk'
      OBVIOUS
    <3>7. (\A m \in own : desks1[m].token = desk[m].token) /\ desks1[n].token = t
      BY <2>3, <3>4, <3>6
    <3>8. Tokened(own \cup {n}, taken[kind] \cup {t}, desks1)
      BY <3>5, <3>7, TokenedMore
    <3> QED BY <3>1, <3>2, <3>3, <3>6, <3>8
  <2>5. \A s \in SmallToken : menus'[s] # 0 => /\ menus'[s] \in Numbers("menu", htype', data', op')
                                               /\ desk'[menus'[s]].token = s
    <3>1. ASSUME NEW s \in SmallToken, menus'[s] # 0, menus'[s] = menus[s]
          PROVE  menus'[s] \in Numbers("menu", htype', data', op') /\ desk'[menus'[s]].token = s
      <4>1. menus[s] \in Numbers("menu", htype, data, op) /\ desk[menus[s]].token = s
        BY <1>14, <3>1
      <4>2. "menu" \in TokenKind
        BY DEF TokenKind
      <4>3. desk'[menus[s]] = desk[menus[s]]
        BY <1>16, <4>1, <4>2
      <4> QED BY <1>15, <3>1, <4>1, <4>3
    <3>2. ASSUME NEW s \in SmallToken, menus'[s] # 0, menus'[s] # menus[s]
          PROVE  menus'[s] \in Numbers("menu", htype', data', op') /\ desk'[menus'[s]].token = s
      <4>1. kind = "menu" /\ s = t /\ menus'[s] = n
        BY <2>1, <3>2 DEF Types, DeskTypes
      <4> QED BY <1>15, <2>3, <4>1
    <3> QED BY <3>1, <3>2
  <2>6. \A k \in TokenKind : Tokened(Numbers(k, htype', data', op'), taken'[k], desk')
    BY <1>17, <2>4
  <2>7. op'.at = "tray" => desk'[op'.n].inner = 0
    BY <1>3, <2>3
  <2>8. Tokens'
    BY <2>5, <2>6, <2>7, TokensWhat
  <2> QED BY <1>4, <1>11, <1>12, <1>13, <2>8 DEF Owners
<1>19. CASE kind \notin TokenKind
  <2>1. UNCHANGED <<taken, menus, desk>>
    BY <1>3, <1>19
  <2>2. \A k \in TokenKind : Tokened(Numbers(k, htype', data', op'), taken'[k], desk')
    BY <1>17, <1>19
  <2>3. \A s \in SmallToken : menus'[s] # 0 => /\ menus'[s] \in Numbers("menu", htype', data', op')
                                               /\ desk'[menus'[s]].token = s
    BY <1>14, <1>15, <2>1
  <2>4. op'.at # "tray"
    BY <1>3, <1>19 DEF TokenKind
  <2>5. Tokens'
    BY <2>2, <2>3, <2>4, TokensWhat
  <2> QED BY <1>4, <1>11, <1>12, <1>13, <2>5 DEF Owners
<1> QED BY <1>18, <1>19

(* A number of a kind goes, and its token with it.                         *)
LEMMA TokensGiven ==
    ASSUME Types, Tokens, NEW kind \in TokenKind, NEW n, GiveToken(kind, n), UNCHANGED desk,
           op'.call = "none", n \in Numbers(kind, htype, data, op),
           \A k \in TokenKind : \A m : m \in Numbers(k, htype', data', op') <=>
                                         m \in Numbers(k, htype, data, op) /\ ~(k = kind /\ m = n)
    PROVE  Tokens'
<1>1. /\ \A k \in TokenKind : Tokened(Numbers(k, htype, data, op), taken[k], desk)
      /\ \A t \in SmallToken : menus[t] # 0 => /\ menus[t] \in Numbers("menu", htype, data, op)
                                               /\ desk[menus[t]].token = t
  BY TokensWhat
<1>2. /\ taken' = [taken EXCEPT ![kind] = @ \ {desk[n].token}]
      /\ menus' = [t \in SmallToken |-> IF menus[t] = n THEN 0 ELSE menus[t]]
      /\ taken \in [TokenKind -> SUBSET (Nat \ {0})]
  BY DEF GiveToken, Types, DeskTypes
<1>3. ASSUME NEW k \in TokenKind PROVE Tokened(Numbers(k, htype', data', op'), taken'[k], desk')
  <2>1. PICK own, own1 : own = Numbers(k, htype, data, op) /\ own1 = Numbers(k, htype', data', op')
    OBVIOUS
  <2>2. Tokened(own, taken[k], desk)
    BY <1>1, <2>1
  <2>3. CASE k # kind
    <3>1. \A m : m \in own1 <=> m \in own
      BY <2>1, <2>3
    <3>2. own1 = own /\ taken'[k] = taken[k]
      BY <1>2, <2>3, <3>1
    <3> QED BY <2>1, <2>2, <3>2
  <2>4. CASE k = kind
    <3>1. \A m : m \in own1 <=> m \in own /\ m # n
      BY <2>1, <2>4
    <3>2. own1 = own \ {n} /\ n \in own
      BY <2>1, <2>4, <3>1
    <3>3. taken'[k] = taken[k] \ {desk[n].token}
      BY <1>2, <2>4
    <3>4. Tokened(own \ {n}, taken[k] \ {desk[n].token}, desk)
      BY <2>2, <3>2, TokenedLess
    <3> QED BY <2>1, <3>2, <3>3, <3>4
  <2> QED BY <2>3, <2>4
<1>4. ASSUME NEW t \in SmallToken, menus'[t] # 0
      PROVE  menus'[t] \in Numbers("menu", htype', data', op') /\ desk'[menus'[t]].token = t
  <2>1. menus'[t] = menus[t] /\ menus[t] # n /\ menus[t] # 0
    BY <1>2, <1>4
  <2>2. "menu" \in TokenKind
    BY DEF TokenKind
  <2> QED BY <1>1, <2>1, <2>2
<1> QED BY <1>3, <1>4, TokensWhat

(* A number is that of one object: of the one that has it.                 *)
LEMMA OneNumber ==
    ASSUME Types, Booked, NEW kind \in TokenKind, NEW x \in Holders, NEW n, Object(kind, n) \in Part(x),
           op.call # "close"
    PROVE  \A h \in Handle : htype[h] = kind /\ data[h].n = n => x = h
<1>1. ASSUME NEW h \in Handle, htype[h] = kind, data[h].n = n PROVE x = h
  <2>1. Part(h) = Owns(htype[h], data[h], net, desk)
    BY PartOf
  <2>2. kind \in DeskKind /\ kind # "directory"
    BY DEF DeskKind, TokenKind
  <2>3. ObjectsFor(kind, n) \subseteq Owns(htype[h], data[h], net, desk)
    BY <1>1, <2>2, OwnsWhat
  <2>4. Object(kind, n) \in Part(h) /\ h \in Holders
    BY <2>1, <2>2, <2>3, ObjectsForWhat, HolderKinds
  <2> QED BY <2>4, HeldOpen
<1> QED BY <1>1

(* It gets its entry, or is given back.                                    *)
LEMMA EnterDeskOwners ==
    ASSUME Types, Owners, EnterDesk, UNCHANGED <<processVars, connVars, gpuVars>>
    PROVE  Owners'
<1>1. op.call = "make" /\ op.at \in DeskKind /\ UNCHANGED <<desk, lost, leaked, net>>
  BY DEF EnterDesk, Types, OpTypes, connVars, gpuVars
<1>2. PICK kind \in DeskKind, n \in {op.n} : kind = op.at
  BY <1>1
<1>3. op'.call = "none" /\ Part(0)' = {}
  <2>1. op'.call = "none"
    BY ReturnsTo DEF EnterDesk
  <2> QED BY <2>1, InCallWhat, PartOfNext
<1>4. Part(0) = ObjectsFor(kind, n)
  BY <1>1, <1>2, InCallWhat, PartOf
<1>5. kind = "tray" => desk[n].inner = 0
  BY <1>1, <1>2 DEF Owners, Tokens
<1>6. \A o \in ObjectsFor(kind, n) : o[1] \notin {"nul", "stream"}
  BY ObjectsForWhat
<1>7. CASE (\E h \in Handle : Entry(h, op.at, [Blank EXCEPT !.n = op.n])) /\ UNCHANGED <<os, misused, taken, menus>>
  <2>1. PICK h \in Handle : Entry(h, kind, [Blank EXCEPT !.n = op.n])
    BY <1>2, <1>7
  <2>2. PICK d : d = [Blank EXCEPT !.n = op.n]
    OBVIOUS
  <2>3. d.n = n /\ \A s \in Stream : d.pipes[s] = 0
    BY <1>2, <2>2, EntryData
  <2>4. /\ htype[h] = "free" /\ htype'[h] = kind /\ data'[h] = d
        /\ \A g \in Handle \ {h} : htype'[g] = htype[g] /\ data'[g] = data[g]
    <3>1. kind \in HandleType
      BY ObjectAssumption DEF DeskKind, TokenKind
    <3> QED BY <2>1, <2>2, <3>1, NewEntry
  <2>5. Owns(kind, d, net', desk') = ObjectsFor(kind, n)
    <3>1. CASE kind # "tray"
      BY <2>3, <3>1, OwnsWhat
    <3>2. CASE kind = "tray"
      <4>1. Owns(kind, d, net', desk') = ObjectsFor(kind, n) \cup {Object("menu", m) : m \in {desk[n].inner} \ {0}}
        BY <1>1, <2>3, <3>2, OwnsWhat
      <4>2. {Object("menu", m) : m \in {desk[n].inner} \ {0}} = {}
        BY <1>5, <3>2, InnerWhat
      <4> QED BY <4>1, <4>2
    <3> QED BY <3>1, <3>2
  <2>6. \A g \in Handle \ {h} : SameEntry(g)
    <3>1. \A g \in Handle \ {h} : Busy(op', g) <=> Busy(op, g)
      BY <1>1, <1>3 DEF Busy
    <3> QED BY <1>1, <2>4, <3>1, OthersSame
  <2>7. PICK C, N : C = {} /\ N = {}
    OBVIOUS
  <2>8. Enters(h, kind, d, C, N)
    <3>1. \A o : (o \in Part(0)' \/ o \in Owns(kind, d, net', desk')) <=> (o \in Part(0) /\ o \notin C) \/ o \in N
      BY <1>3, <1>4, <2>5, <2>7
    <3>2. \A o \in Owns(kind, d, net', desk') : o \notin Part(0)'
      BY <1>3
    <3> QED BY <1>1, <1>3, <1>7, <2>4, <2>6, <2>7, <3>1, <3>2 DEF Enters
  <2>9. Booked'
    BY <2>8, EntersBooked DEF Owners
  <2>10. Fresh' /\ NulsOpen' /\ Heard'
    BY <1>1, <1>3, <1>7, DeskAside
  <2>11. Piping'
    BY <2>3, <2>4, PipingKept DEF Owners, Types
  <2>12. Tokens'
    <3>1. \A k \in TokenKind : \A m : m \in Numbers(k, htype', data', op') <=> m \in Numbers(k, htype, data, op)
      <4>1. \A k \in TokenKind : \A m : m \in Numbers(k, htype', data', op') <=>
                                          \E g \in Handle : htype'[g] = k /\ m = data'[g].n
        BY <1>3, NumbersWhat
      <4>2. \A k \in TokenKind : \A m : m \in Numbers(k, htype, data, op) <=>
                                          \/ \E g \in Handle : htype[g] = k /\ m = data[g].n
                                          \/ k = kind /\ m = n
        BY <1>1, <1>2, NumbersWhat
      <4>3. "free" \notin TokenKind
        BY DEF TokenKind
      <4> QED BY <2>3, <2>4, <4>1, <4>2, <4>3
    <3>2. \A k \in TokenKind : Numbers(k, htype', data', op') = Numbers(k, htype, data, op)
      <4>1. ASSUME NEW k \in TokenKind PROVE Numbers(k, htype', data', op') = Numbers(k, htype, data, op)
        <5>1. PICK own, own1 : own = Numbers(k, htype, data, op) /\ own1 = Numbers(k, htype', data', op')
          OBVIOUS
        <5>2. \A m : m \in own1 <=> m \in own
          BY <3>1, <5>1
        <5> QED BY <5>1, <5>2
      <4> QED BY <4>1
    <3>3. "menu" \in TokenKind
      BY DEF TokenKind
    <3>4. UNCHANGED <<taken, menus, desk>>
      BY <1>1, <1>7
    <3>5. /\ \A k \in TokenKind : Tokened(Numbers(k, htype, data, op), taken[k], desk)
          /\ \A t \in SmallToken : menus[t] # 0 => /\ menus[t] \in Numbers("menu", htype, data, op)
                                                   /\ desk[menus[t]].token = t
      BY TokensWhat DEF Owners
    <3>6. /\ \A k \in TokenKind : Tokened(Numbers(k, htype', data', op'), taken'[k], desk')
          /\ \A t \in SmallToken : menus'[t] # 0 => /\ menus'[t] \in Numbers("menu", htype', data', op')
                                                    /\ desk'[menus'[t]].token = t
      BY <3>2, <3>3, <3>4, <3>5
    <3> QED BY <1>3, <3>6, TokensWhat
  <2> QED BY <1>7, <2>9, <2>10, <2>11, <2>12 DEF Owners
<1>8. CASE GiveBack(kind, n) /\ UNCHANGED <<htype, next, data>>
  <2>1. PICK C, N : C = ObjectsFor(kind, n) /\ N = {}
    OBVIOUS
  <2>2. Close(C)
    <3>1. PICK inner : inner = IF kind = "tray" /\ desk[n].inner # 0 THEN {Object("menu", desk[n].inner)} ELSE {}
      OBVIOUS
    <3>2. inner = {}
      BY <1>5, <3>1
    <3>3. Close(C \cup inner)
      BY <1>8, <2>1, <3>1 DEF GiveBack
    <3>4. C \cup inner = C
      BY <3>2
    <3> QED BY <3>3, <3>4
  <2>3. C \subseteq os
    BY <1>4, <2>1, HeldOpen, HolderKinds DEF Owners
  <2>4. os' = os \ C /\ ~misused'
    BY <2>2, <2>3, NoMisuse DEF Owners
  <2>5. \A h \in Handle : SameEntry(h)
    <3>1. PICK H : H = {}
      OBVIOUS
    <3>2. \A g \in Handle \ H : Busy(op', g) <=> Busy(op, g)
      BY <1>1, <1>3 DEF Busy
    <3>3. \A g \in Handle \ H : htype'[g] = htype[g] /\ data'[g].n = data[g].n /\ data'[g].stream = data[g].stream
      BY <1>8
    <3>4. \A g \in Handle \ H : SameEntry(g)
      BY <1>1, <3>2, <3>3, OthersSame
    <3> QED BY <3>1, <3>4
  <2>6. Mine(C, N)
    BY <1>3, <1>4, <2>1, <2>4 DEF Mine, Solid
  <2>7. Booked'
    BY <1>1, <2>5, <2>6, MineBooked DEF Owners
  <2>8. Fresh' /\ NulsOpen' /\ Heard'
    <3>1. \A m : Strm(m)[1] = "stream"
      BY ConnKinds
    <3>2. \A m : Strm(m) \in os => Strm(m) \in os'
      BY <1>6, <2>1, <2>4, <3>1
    <3> QED BY <1>1, <1>3, <3>2, DeskAside
  <2>9. Piping'
    BY <1>8, PipingKept DEF Owners, Types
  <2>10. Tokens'
    <3>1. CASE kind \in TokenKind
      <4>1. GiveToken(kind, n)
        BY <1>8, <3>1 DEF GiveBack
      <4>2. n \in Numbers(kind, htype, data, op)
        BY <1>1, <1>2, NumbersWhat
      <4>3. Object(kind, n) \in Part(0)
        BY <1>4, <3>1, ObjectsForWhat DEF TokenKind
      <4>4. \A h \in Handle : ~(htype[h] = kind /\ data[h].n = n)
        BY <1>1, <3>1, <4>3, OneNumber, HolderKinds DEF Owners
      <4>5. \A k \in TokenKind : \A m : m \in Numbers(k, htype', data', op') <=>
                                          m \in Numbers(k, htype, data, op) /\ ~(k = kind /\ m = n)
        <5>1. \A k \in TokenKind : \A m : m \in Numbers(k, htype', data', op') <=>
                                            \E g \in Handle : htype[g] = k /\ m = data[g].n
          BY <1>3, <1>8, NumbersWhat
        <5>2. \A k \in TokenKind : \A m : m \in Numbers(k, htype, data, op) <=>
                                            \/ \E g \in Handle : htype[g] = k /\ m = data[g].n
                                            \/ k = kind /\ m = n
          BY <1>1, <1>2, NumbersWhat
        <5> QED BY <4>4, <5>1, <5>2
      <4> QED BY <1>1, <1>3, <3>1, <4>1, <4>2, <4>5, TokensGiven DEF Owners
    <3>2. CASE kind \notin TokenKind
      <4>1. UNCHANGED <<taken, menus>>
        BY <1>8, <3>2 DEF GiveBack
      <4>2. \A k \in TokenKind : Numbers(k, htype', data', op') = Numbers(k, htype, data, op)
        BY <1>1, <1>2, <1>3, <1>8, <3>2 DEF Numbers
      <4>3. "menu" \in TokenKind
        BY DEF TokenKind
      <4>4. /\ \A k \in TokenKind : Tokened(Numbers(k, htype, data, op), taken[k], desk)
            /\ \A t \in SmallToken : menus[t] # 0 => /\ menus[t] \in Numbers("menu", htype, data, op)
                                                     /\ desk[menus[t]].token = t
        BY TokensWhat DEF Owners
      <4>5. /\ \A k \in TokenKind : Tokened(Numbers(k, htype', data', op'), taken'[k], desk')
            /\ \A t \in SmallToken : menus'[t] # 0 => /\ menus'[t] \in Numbers("menu", htype', data', op')
                                                      /\ desk'[menus'[t]].token = t
        BY <1>1, <4>1, <4>2, <4>3, <4>4
      <4> QED BY <1>3, <4>5, TokensWhat
    <3> QED BY <3>1, <3>2
  <2> QED BY <2>4, <2>7, <2>8, <2>9, <2>10 DEF Owners
<1> QED BY <1>2, <1>7, <1>8 DEF EnterDesk

(* Each kind's tokens are as they were when no menu or tray comes or goes. *)
LEMMA TokensStay ==
    ASSUME Types, Owners, NEW desks, desks = desk', UNCHANGED <<taken, menus>>,
           op.call = "none", op'.call = "none",
           \A h \in Handle : htype[h] \in TokenKind \/ htype'[h] \in TokenKind =>
                               htype'[h] = htype[h] /\ data'[h].n = data[h].n,
           \A n \in DOMAIN desk : desks[n].token = desk[n].token
    PROVE  Tokens'
<1>1. \A k \in TokenKind : \A n : n \in Numbers(k, htype', data', op') <=> n \in Numbers(k, htype, data, op)
  <2>1. ASSUME NEW k \in TokenKind, NEW n
        PROVE  n \in Numbers(k, htype', data', op') <=> n \in Numbers(k, htype, data, op)
    BY NumbersWhat
  <2> QED BY <2>1
<1>2. ASSUME NEW k \in TokenKind PROVE Tokened(Numbers(k, htype', data', op'), taken'[k], desks)
  <2>1. PICK own, own1 : own = Numbers(k, htype, data, op) /\ own1 = Numbers(k, htype', data', op')
    OBVIOUS
  <2>2. \A n : n \in own1 <=> n \in own
    BY <1>1, <2>1
  <2>3. own1 = own
    BY <2>2
  <2>4. Tokened(own, taken[k], desk)
    BY <2>1, TokensWhat DEF Owners
  <2>5. \A n \in own : desks[n].token = desk[n].token
    BY <2>1, OwnDesk
  <2>6. Tokened(own, taken[k], desks)
    BY <2>4, <2>5, TokenedSame
  <2> QED BY <2>1, <2>3, <2>6
<1>3. ASSUME NEW t \in SmallToken, menus'[t] # 0
      PROVE  menus'[t] \in Numbers("menu", htype', data', op') /\ desks[menus'[t]].token = t
  <2>1. "menu" \in TokenKind
    BY DEF TokenKind
  <2>2. menus[t] \in Numbers("menu", htype, data, op) /\ desk[menus[t]].token = t
    BY <1>3, TokensWhat DEF Owners
  <2>3. desks[menus[t]].token = desk[menus[t]].token
    BY <2>1, <2>2, OwnDesk
  <2> QED BY <1>1, <2>1, <2>2, <2>3
<1> QED BY <1>2, <1>3, TokensWhat

(* What a window, a menu, a tray, a file or a directory holds: what its    *)
(* destruction closes.                                                     *)
LEMMA DeskOwns ==
    ASSUME NEW t \in DeskKind, NEW d, NEW conns, NEW desks
    PROVE  Owns(t, d, conns, desks) = ObjectsFor(t, d.n) \cup
             (IF t = "tray" /\ desks[d.n].inner # 0 THEN {Object("menu", desks[d.n].inner)} ELSE {})
<1>1. CASE t # "tray"
  BY <1>1, OwnsWhat
<1>2. CASE t = "tray"
  <2>1. PICK m : m = desks[d.n].inner
    OBVIOUS
  <2>2. {Object("menu", k) : k \in {m} \ {0}} = IF m = 0 THEN {} ELSE {Object("menu", m)}
    BY InnerWhat
  <2>3. Owns(t, d, conns, desks) = ObjectsFor(t, d.n) \cup {Object("menu", k) : k \in {m} \ {0}}
    BY <1>2, <2>1, OwnsWhat
  <2> QED BY <1>2, <2>1, <2>2, <2>3
<1> QED BY <1>1, <1>2

(* It is destroyed, and its token given back.                              *)
LEMMA DestroyDeskOwners ==
    ASSUME Types, Owners, NEW h \in Handle, DestroyDesk(h), UNCHANGED <<processVars, connVars, gpuVars>>
    PROVE  Owners'
<1>1. PICK kind \in DeskKind, n \in {data[h].n} : kind = htype[h] /\ n = data[h].n
  BY DEF DestroyDesk
<1>2. /\ op.call = "none" /\ UNCHANGED <<op, desk, lost, leaked, net>>
      /\ GiveBack(kind, n) /\ FreeAll({h})
  BY <1>1 DEF DestroyDesk, Idle, connVars, gpuVars
<1>3. PICK C : C = ObjectsFor(kind, n) \cup
                     (IF kind = "tray" /\ desk[n].inner # 0 THEN {Object("menu", desk[n].inner)} ELSE {})
  OBVIOUS
<1>4. Owns(kind, data[h], net, desk) = C
  <2>1. PICK d : d = data[h]
    OBVIOUS
  <2>2. C = ObjectsFor(kind, d.n) \cup
              (IF kind = "tray" /\ desk[d.n].inner # 0 THEN {Object("menu", desk[d.n].inner)} ELSE {})
    BY <1>1, <1>3, <2>1
  <2>3. Owns(kind, d, net, desk) = C
    <3>1. PICK conns, desks : conns = net /\ desks = desk
      OBVIOUS
    <3>2. Owns(kind, d, conns, desks) = ObjectsFor(kind, d.n) \cup
              (IF kind = "tray" /\ desks[d.n].inner # 0 THEN {Object("menu", desks[d.n].inner)} ELSE {})
      BY DeskOwns
    <3> QED BY <2>2, <3>1, <3>2
  <2> QED BY <2>1, <2>3
<1>5. Part(h) = C /\ C \subseteq os
  BY <1>1, <1>2, <1>4, EntryOpen DEF DeskKind, TokenKind
<1>6. Close(C)
  BY <1>2, <1>3 DEF GiveBack
<1>7. os' = os \ C /\ ~misused'
  BY <1>5, <1>6, NoMisuse DEF Owners
<1>8. /\ htype'[h] = "free" /\ data'[h] = Blank
      /\ \A g \in Handle \ {h} : htype'[g] = htype[g] /\ data'[g] = data[g]
  BY <1>2 DEF FreeAll
<1>9. PICK H : H = {h}
  OBVIOUS
<1>10. \A g \in Handle \ H : SameEntry(g)
  <2>1. \A g \in Handle \ H : Busy(op', g) <=> Busy(op, g)
    BY <1>2 DEF Busy
  <2>2. \A g \in Handle \ H : htype'[g] = htype[g] /\ data'[g].n = data[g].n /\ data'[g].stream = data[g].stream
    BY <1>8, <1>9
  <2> QED BY <1>2, <2>1, <2>2, OthersSame
<1>11. Frees(H, C)
  BY <1>2, <1>5, <1>7, <1>8, <1>9, <1>10 DEF Frees
<1>12. Booked'
  BY <1>11, FreesBooked DEF Owners
<1>13. Fresh' /\ NulsOpen' /\ Heard'
  <2>1. \A o \in C : o[1] # "stream"
    BY <1>3, ObjectsForWhat, InnerWhat
  <2>2. \A m : Strm(m)[1] = "stream"
    BY ConnKinds
  <2>3. \A m : Strm(m) \in os => Strm(m) \in os'
    BY <1>7, <2>1, <2>2
  <2> QED BY <1>2, <2>3, DeskAside
<1>14. Piping'
  <2>1. htype[h] # "pipe" /\ \A s \in Stream : data'[h].pipes[s] = 0
    BY <1>1, <1>8 DEF Blank, DeskKind, TokenKind
  <2> QED BY <1>8, <2>1, PipingKept DEF Owners, Types
<1>15. Tokens'
  <2>1. "free" \notin TokenKind
    BY DEF TokenKind
  <2>2. CASE kind \in TokenKind
    <3>1. GiveToken(kind, n)
      BY <1>2, <2>2 DEF GiveBack
    <3>2. n \in Numbers(kind, htype, data, op)
      BY <1>1, NumbersWhat
    <3>3. Object(kind, n) \in Part(h) /\ h \in Holders
      <4>1. Object(kind, n) \in ObjectsFor(kind, n)
        BY <2>2, ObjectsForWhat DEF TokenKind
      <4> QED BY <1>3, <1>5, <4>1, HolderKinds
    <3>4. \A g \in Handle : htype[g] = kind /\ data[g].n = n => h = g
      BY <1>2, <2>2, <3>3, OneNumber DEF Owners
    <3>5. \A k \in TokenKind : \A m : m \in Numbers(k, htype', data', op') <=>
                                        m \in Numbers(k, htype, data, op) /\ ~(k = kind /\ m = n)
      <4>1. \A k \in TokenKind : \A m : m \in Numbers(k, htype', data', op') <=>
                                          \E g \in Handle : htype'[g] = k /\ m = data'[g].n
        BY <1>2, NumbersWhat
      <4>2. \A k \in TokenKind : \A m : m \in Numbers(k, htype, data, op) <=>
                                          \E g \in Handle : htype[g] = k /\ m = data[g].n
        BY <1>2, NumbersWhat
      <4> QED BY <1>1, <1>8, <2>1, <3>4, <4>1, <4>2
    <3> QED BY <1>2, <2>2, <3>1, <3>2, <3>5, TokensGiven DEF Owners
  <2>3. CASE kind \notin TokenKind
    <3>1. UNCHANGED <<taken, menus>>
      BY <1>2, <2>3 DEF GiveBack
    <3>2. PICK desks : desks = desk'
      OBVIOUS
    <3>3. \A m \in DOMAIN desk : desks[m].token = desk[m].token
      BY <1>2, <3>2
    <3>4. \A g \in Handle : htype[g] \in TokenKind \/ htype'[g] \in TokenKind =>
                              htype'[g] = htype[g] /\ data'[g].n = data[g].n
      BY <1>1, <1>8, <2>1, <2>3
    <3> QED BY <1>2, <3>1, <3>2, <3>3, <3>4, TokensStay
  <2> QED BY <2>2, <2>3
<1> QED BY <1>7, <1>12, <1>13, <1>14, <1>15 DEF Owners

(* A tray's inner menu: the old one goes, the new one is the tray's or     *)
(* nobody's.                                                               *)
LEMMA SetTrayMenuOwners ==
    ASSUME Types, Owners, NEW h \in Handle, SetTrayMenu(h), UNCHANGED <<processVars, connVars, gpuVars>>
    PROVE  Owners'
<1>1. PICK n, m : n = data[h].n /\ m = desk[n].inner
  OBVIOUS
<1>2. PICK C : C = IF m = 0 THEN {} ELSE {Object("menu", m)}
  OBVIOUS
<1>3. PICK new : new = Object("menu", made + 1)
  OBVIOUS
<1>4. /\ op.call = "none" /\ htype[h] = "tray" /\ n \in DOMAIN desk
      /\ UNCHANGED <<htype, data, op, taken, menus, net, leaked>>
  <2>1. op.call = "none" /\ htype[h] = "tray" /\ UNCHANGED <<htype, data, op, taken, menus, net, leaked>>
    BY DEF SetTrayMenu, Idle, IsA, connVars, gpuVars
  <2> QED BY <1>1, <2>1 DEF Types, TableTypes, Refers, TokenKind
<1>5. PICK i \in {0, made + 1}, N \in {{}, {new}}, L \in {{}, {new}} :
        /\ desk' = [desk EXCEPT ![n].inner = i] /\ lost' = lost \cup L
        /\ os' = (os \ C) \cup N /\ misused' = (misused \/ ~(C \subseteq os))
        /\ N = L \cup (IF i = 0 THEN {} ELSE {new})
        /\ (i # 0 => i = made + 1 /\ L = {})
  <2>1. \/ Close(C) /\ desk' = [desk EXCEPT ![n].inner = 0] /\ lost' = lost
        \/ /\ os' = (os \ C) \cup {new} /\ misused' = (misused \/ ~(C \subseteq os))
           /\ \/ desk' = [desk EXCEPT ![n].inner = made + 1] /\ lost' = lost
              \/ desk' = [desk EXCEPT ![n].inner = 0] /\ lost' = lost \cup {new}
    BY Zenon, <1>1, <1>2, <1>3 DEF SetTrayMenu
  <2>2. CASE Close(C) /\ desk' = [desk EXCEPT ![n].inner = 0] /\ lost' = lost
    <3>1. os' = (os \ C) /\ misused' = (misused \/ ~(C \subseteq os))
      BY Zenon, <2>2 DEF Close
    <3>2. PICK N : N = {}
      OBVIOUS
    <3>3. os' = (os \ C) \cup N /\ lost' = lost \cup N /\ N = N \cup {}
      BY <2>2, <3>1, <3>2
    <3> QED BY <2>2, <3>1, <3>2, <3>3
  <2>3. CASE /\ os' = (os \ C) \cup {new} /\ misused' = (misused \/ ~(C \subseteq os))
             /\ desk' = [desk EXCEPT ![n].inner = made + 1] /\ lost' = lost
    <3>1. made + 1 # 0
      BY DEF Types, OsTypes
    <3>2. PICK N, L : N = {new} /\ L = {}
      OBVIOUS
    <3>3. N = L \cup {new} /\ lost' = lost \cup L
      BY <2>3, <3>2
    <3> QED BY <2>3, <3>1, <3>2, <3>3
  <2>4. CASE /\ os' = (os \ C) \cup {new} /\ misused' = (misused \/ ~(C \subseteq os))
             /\ desk' = [desk EXCEPT ![n].inner = 0] /\ lost' = lost \cup {new}
    <3>1. PICK N : N = {new}
      OBVIOUS
    <3>2. N = N \cup {}
      OBVIOUS
    <3> QED BY <2>4, <3>1, <3>2
  <2> QED BY <2>1, <2>2, <2>3, <2>4
<1>6. /\ \A o : o \in Part(h) <=> o = Object("tray", n) \/ o \in C
      /\ C \subseteq os
  <2>1. Owns("tray", data[h], net, desk) =
          ObjectsFor("tray", n) \cup {Object("menu", j) : j \in {m} \ {0}}
    BY <1>1, OwnsWhat
  <2>2. {Object("menu", j) : j \in {m} \ {0}} = C
    BY <1>2, InnerWhat
  <2>3. ObjectsFor("tray", n) = {Object("tray", n)}
    BY ObjectsForWhat DEF DeskKind, TokenKind
  <2>4. Part(h) = Owns("tray", data[h], net, desk) /\ Part(h) \subseteq os
    BY <1>4, EntryOpen
  <2> QED BY <2>1, <2>2, <2>3, <2>4
<1>7. ~misused'
  BY <1>5, <1>6 DEF Owners
<1>8. /\ new \notin os /\ new[1] = "menu" /\ \A o \in C : o[1] = "menu"
      /\ Object("tray", n)[1] = "tray" /\ \A o \in N : o = new
  BY <1>2, <1>3, <1>5, Numbered, InnerWhat DEF Object
<1>9. PICK r : /\ desk' = [desk EXCEPT ![n] = r]
               /\ r.inner = i /\ r.token = desk[n].token
  <2>1. PICK r : r = [desk[n] EXCEPT !.inner = i]
    OBVIOUS
  <2>2. desk' = [desk EXCEPT ![n] = r]
    BY Zenon, <1>5, <2>1
  <2>3. r.inner = i /\ r.token = desk[n].token
    BY <1>4, <2>1 DEF Types, DeskTypes
  <2> QED BY <2>2, <2>3
<1>10. desk'[n] = r /\ \A k : k # n => desk'[k] = desk[k]
  BY <1>4, <1>9 DEF Types, DeskTypes
<1>11. \A o : o \in Part(h)' <=> o = Object("tray", n) \/ (o \in N /\ o \notin L)
  <2>1. PICK desks : desks = desk'
    OBVIOUS
  <2>2. Owns("tray", data'[h], net', desks) =
          ObjectsFor("tray", n) \cup {Object("menu", j) : j \in {i} \ {0}}
    <3>1. desks[n].inner = i
      BY <1>9, <1>10, <2>1
    <3> QED BY <1>1, <1>4, <3>1, OwnsWhat
  <2>3. {Object("menu", j) : j \in {i} \ {0}} = IF i = 0 THEN {} ELSE {Object("menu", i)}
    BY InnerWhat
  <2>4. ObjectsFor("tray", n) = {Object("tray", n)}
    BY ObjectsForWhat DEF DeskKind, TokenKind
  <2>5. Part(h)' = Owns("tray", data'[h], net', desks)
    BY <1>4, <2>1, PartOfNext
  <2>6. \A o : o \in {Object("menu", j) : j \in {i} \ {0}} <=> o \in N /\ o \notin L
    BY <1>3, <1>5, <2>3
  <2> QED BY <2>2, <2>4, <2>5, <2>6
<1>12. \A o : o \in Part(Limit)' <=> o \in Part(Limit) \/ o \in L
  BY <1>4, <1>5, PartOf, PartOfNext
<1>13. PICK X \in SUBSET Holders : X = {h, Limit}
  BY HolderKinds
<1>14. \A o \in Part(h) : o \notin Part(Limit)
  BY HeldOpen, HolderKinds DEF Owners
<1>15. \A o \in Part(Limit) : o \in os
  BY HeldOpen, HolderKinds DEF Owners
<1>16. \A z \in Holders \ X : Part(z)' = Part(z)
  <2>1. "tray" \in TokenKind
    BY DEF TokenKind
  <2>2. \A g \in Handle : htype[g] = "tray" /\ data[g].n = n => h = g
    BY <1>4, <1>6, <2>1, OneNumber, HolderKinds DEF Owners
  <2>3. ASSUME NEW g \in Handle, g # h PROVE Part(g)' = Part(g)
    <3>1. htype[g] = "tray" => desk'[data[g].n] = desk[data[g].n]
      BY <1>10, <2>2, <2>3
    <3>2. htype[g] = "conn" => net[data[g].n].kind \in {"tcp", "tls", "quic"}
      BY ConnTyped DEF Types, TableTypes, Refers
    <3>3. SameEntry(g)
      BY <1>4, <3>1, <3>2 DEF SameEntry, Busy
    <3> QED BY <3>3, EntryKept
  <2>4. Part(0)' = Part(0)
    BY <1>4, InCallWhat, PartOf, PartOfNext
  <2> QED BY <1>13, <2>3, <2>4 DEF Holders
<1>17. Gives(X, C, N)
  <2>1. \A o : o \in Solid(os') <=> (o \in Solid(os) /\ o \notin C) \/ o \in N
    BY <1>5, <1>8 DEF Solid
  <2>2. \A o \in N : o \notin Solid(os) /\ \E x \in X : o \in Part(x)'
    BY <1>8, <1>11, <1>12, <1>13 DEF Solid
  <2>3. \A o \in C : \E x \in X : o \in Part(x)
    BY <1>6, <1>13
  <2>4. \A x \in X : \A o \in Part(x) : o \in C \/ \E y \in X : o \in Part(y)'
    BY <1>6, <1>11, <1>12, <1>13
  <2>5. \A x \in X : \A o \in Part(x)' : o \in N \/ (o \notin C /\ \E y \in X : o \in Part(y))
    <3>1. \A o \in Part(h)' : o \in N \/ (o \notin C /\ o \in Part(h))
      BY <1>6, <1>8, <1>11
    <3>2. \A o \in Part(Limit)' : o \in N \/ (o \notin C /\ o \in Part(Limit))
      BY <1>5, <1>6, <1>12, <1>14
    <3> QED BY <1>13, <3>1, <3>2
  <2>6. \A o \in Part(h)' : o \notin Part(Limit)'
    BY <1>5, <1>6, <1>8, <1>11, <1>12, <1>14, <1>15
  <2>7. \A x, y \in X : \A o \in Part(x)' : o \in Part(y)' => x = y
    BY <1>13, <2>6
  <2> QED BY <1>16, <2>1, <2>2, <2>3, <2>4, <2>5, <2>7 DEF Gives
<1>18. Booked'
  BY <1>17, Rebook DEF Owners
<1>19. Fresh' /\ NulsOpen' /\ Heard'
  <2>1. \A k : Strm(k)[1] = "stream"
    BY ConnKinds
  <2>2. \A k : Strm(k) \in os => Strm(k) \in os'
    BY <1>5, <1>8, <2>1
  <2> QED BY <1>4, <2>2, DeskAside
<1>20. Piping'
  BY <1>4, PipingKept DEF Owners, Types
<1>21. Tokens'
  <2>1. PICK desks : desks = desk'
    OBVIOUS
  <2>2. \A k \in DOMAIN desk : desks[k].token = desk[k].token
    BY <1>9, <1>10, <2>1
  <2> QED BY <1>4, <2>1, <2>2, TokensStay
<1> QED BY <1>7, <1>18, <1>19, <1>20, <1>21 DEF Owners

(* Every step of the desktop keeps the account.                            *)
LEMMA DesktopStepOwners ==
    ASSUME Types, Owners, DesktopStep, UNCHANGED <<processVars, connVars, gpuVars>>
    PROVE  Owners'
BY MakeDeskOwners, EnterDeskOwners, DestroyDeskOwners, SetTrayMenuOwners DEF DesktopStep

-----------------------------------------------------------------------------
(* Steps of WebGPU.                                                        *)

(* Such a step leaves the other parts' accounts as they are.               *)
LEMMA GpuAside ==
    ASSUME Types, Owners, UNCHANGED <<processVars, connVars, deskVars>>,
           op.call \in Lean \cup {"gpu"}, op'.call \in Lean \cup {"gpu"},
           \A n : Strm(n) \in os => Strm(n) \in os'
    PROVE  /\ Fresh' /\ NulsOpen' /\ Heard'
           /\ (\A h \in Handle : htype[h] \in TokenKind \/ htype'[h] \in TokenKind =>
                                   htype'[h] = htype[h] /\ data'[h].n = data[h].n) => Tokens'
           /\ \A g : Busy(op', g) <=> Busy(op, g)
           /\ op.call # "close" /\ op'.call # "close"
<1>1. op.call \notin {"create", "connect", "make", "close"} /\ op'.call \notin {"create", "connect", "make", "close"}
  BY DEF Lean
<1>2. Fresh' /\ NulsOpen'
  BY <1>1 DEF Fresh, NulsOpen
<1>3. Heard'
  BY DEF Owners, Heard, connVars
<1>4. (\A h \in Handle : htype[h] \in TokenKind \/ htype'[h] \in TokenKind =>
                           htype'[h] = htype[h] /\ data'[h].n = data[h].n) => Tokens'
  BY <1>1, TokensKept DEF Owners
<1> QED BY <1>1, <1>2, <1>3, <1>4 DEF Busy

(* With the table as it was, every entry holds what it held.               *)
LEMMA AllSame ==
    ASSUME Types, UNCHANGED <<htype, data, connVars, deskVars>>, \A g : Busy(op', g) <=> Busy(op, g)
    PROVE  \A h \in Handle : SameEntry(h)
<1>1. PICK H : H = {}
  OBVIOUS
<1>2. UNCHANGED <<net, desk>>
  BY DEF connVars, deskVars
<1>3. \A g \in Handle \ H : Busy(op', g) <=> Busy(op, g)
  OBVIOUS
<1>4. \A g \in Handle \ H : htype'[g] = htype[g] /\ data'[g].n = data[g].n /\ data'[g].stream = data[g].stream
  OBVIOUS
<1>5. \A g \in Handle \ H : SameEntry(g)
  BY <1>2, <1>3, <1>4, OthersSame
<1> QED BY <1>1, <1>5

(* An object of WebGPU.                                                    *)
LEMMA NativeIs ==
    ASSUME NEW n
    PROVE  Native(n)[1] = "gpu" /\ Native(n)[2] = n
BY DEF Native, Object

(* The call's objects change, the table does not.                          *)
LEMMA GpuMine ==
    ASSUME Types, Owners, UNCHANGED <<htype, data, lost, leaked, processVars, connVars, deskVars>>,
           op.call \in Lean \cup {"gpu"}, op'.call \in Lean \cup {"gpu"}, ~misused',
           \A n : Strm(n) \in os => Strm(n) \in os',
           NEW C, NEW N, Mine(C, N)
    PROVE  Owners'
<1>1. Fresh' /\ NulsOpen' /\ Heard'
  BY GpuAside
<1>2. Tokens'
  BY GpuAside
<1>3. \A g : Busy(op', g) <=> Busy(op, g)
  BY GpuAside
<1>4. \A h \in Handle : SameEntry(h)
  BY <1>3, AllSame
<1>5. Booked'
  BY <1>4, MineBooked DEF Owners
<1>6. Piping'
  BY PipingKept DEF Owners, Types
<1> QED BY <1>1, <1>2, <1>5, <1>6 DEF Owners

(* A creation's object is the call's.                                      *)
LEMMA CreateGpuOwners ==
    ASSUME Types, Owners, op.call = "none", op'.call = "gpu", op'.n = made + 1, Open({Native(made + 1)}),
           UNCHANGED <<htype, data, leaked, processVars, connVars, deskVars>>
    PROVE  Owners'
<1>1. PICK n, o : n = made + 1 /\ o = Native(n)
  OBVIOUS
<1>2. PICK C, N : C = {} /\ N = {o}
  OBVIOUS
<1>3. os' = os \cup N /\ ~misused'
  BY <1>1, <1>2 DEF Open, Owners
<1>4. o[1] = "gpu" /\ o \notin os
  BY <1>1, NativeIs, Numbered
<1>5. Part(0) = {} /\ Part(0)' = N
  BY <1>1, <1>2, InCallWhat, PartOf, PartOfNext
<1>6. Mine(C, N)
  BY <1>2, <1>3, <1>4, <1>5 DEF Mine, Solid
<1> QED BY <1>3, <1>6, GpuMine DEF Lean, deskVars

(* Every creation is one of those.                                         *)
LEMMA CreateOwners ==
    ASSUME Types, Owners, UNCHANGED <<processVars, connVars, deskVars>>,
           (\E addr \in Address : CreateInstance(addr)) \/ (\E h \in Handle : CreateChild(h))
    PROVE  Owners'
<1>1. ASSUME NEW addr \in Address, CreateInstance(addr) PROVE Owners'
  <2>1. /\ op.call = "none" /\ op'.call = "gpu" /\ op'.n = made + 1 /\ Open({Native(made + 1)})
        /\ UNCHANGED <<htype, data, leaked>>
    BY <1>1 DEF CreateInstance, Create, NoOp, Idle
  <2> QED BY <2>1, CreateGpuOwners
<1>2. ASSUME NEW parent \in Handle, NEW type, NEW what, CreateFrom(parent, type, what) PROVE Owners'
  <2>1. /\ op.call = "none" /\ op'.call = "gpu" /\ op'.n = made + 1 /\ Open({Native(made + 1)})
        /\ UNCHANGED <<htype, data, leaked>>
    BY <1>2 DEF CreateFrom, NoOp, Idle
  <2> QED BY <2>1, CreateGpuOwners
<1>3. ASSUME NEW h \in Handle, CreateChild(h) PROVE Owners'
  <2>1. \E type, what : CreateFrom(h, type, what)
    BY <1>3 DEF CreateChild, CreateSurface, GetQueue, CreateShaderModule, CreateRenderPipeline,
                CreateBuffer, CreateSampler, CreateBindGroupLayout, CreateBindGroup,
                CreatePipelineLayout, CreateTexture, GetCurrentTexture, CreateView,
                CreateCommandEncoder, BeginRenderPass, Finish
  <2> QED BY <1>2, <2>1
<1> QED BY <1>1, <1>3

(* An object of WebGPU gets an entry.                                      *)
LEMMA GpuEnters ==
    ASSUME Types, Owners, UNCHANGED <<lost, leaked, processVars, connVars, deskVars>>, ~misused',
           op.call \in Lean \cup {"gpu"}, op'.call \in Lean, NEW t \in GpuType, NEW n,
           \E h \in Handle : Entry(h, t, [Blank EXCEPT !.n = n]),
           NEW N, os' = os \cup N, \A o \in N : o[1] = "gpu" /\ o \notin os,
           \A o : o \in Part(0) \/ o \in N <=> o = Native(n)
    PROVE  Owners'
<1>1. PICK h \in Handle : Entry(h, t, [Blank EXCEPT !.n = n])
  OBVIOUS
<1>2. PICK d : d = [Blank EXCEPT !.n = n]
  OBVIOUS
<1>3. d.n = n
  BY <1>2, EntryData
<1>4. t \in HandleType \ TokenKind
  BY ObjectAssumption DEF GpuType, TokenKind
<1>5. /\ htype[h] = "free" /\ htype'[h] = t /\ data'[h] = d
      /\ \A g \in Handle \ {h} : htype'[g] = htype[g] /\ data'[g] = data[g]
  BY <1>1, <1>2, <1>4, NewEntry
<1>6. Owns(t, d, net', desk') = {Native(n)}
  BY <1>3, OwnsWhat
<1>7. Part(0)' = {}
  BY InCallWhat, PartOfNext DEF Lean
<1>8. \A k : Strm(k) \in os => Strm(k) \in os'
  OBVIOUS
<1>9. op.call # "close" /\ op'.call # "close" /\ \A g : Busy(op', g) <=> Busy(op, g)
  BY <1>8, GpuAside
<1>10. \A g \in Handle \ {h} : SameEntry(g)
  <2>1. PICK H : H = {h}
    OBVIOUS
  <2>2. UNCHANGED <<net, desk>>
    BY DEF connVars, deskVars
  <2>3. \A g \in Handle \ H : Busy(op', g) <=> Busy(op, g)
    BY <1>9
  <2>4. \A g \in Handle \ H : htype'[g] = htype[g] /\ data'[g].n = data[g].n /\ data'[g].stream = data[g].stream
    BY <1>5, <2>1
  <2>5. \A g \in Handle \ H : SameEntry(g)
    BY <2>2, <2>3, <2>4, OthersSame
  <2> QED BY <2>1, <2>5
<1>11. PICK C : C = {}
  OBVIOUS
<1>12. Enters(h, t, d, C, N)
  <2>1. \A o : o \in Solid(os') <=> (o \in Solid(os) /\ o \notin C) \/ o \in N
    BY <1>11 DEF Solid
  <2>2. \A o \in N : o \notin Solid(os)
    BY DEF Solid
  <2>3. \A o : (o \in Part(0)' \/ o \in Owns(t, d, net', desk')) <=> (o \in Part(0) /\ o \notin C) \/ o \in N
    BY <1>6, <1>7, <1>11
  <2>4. \A o \in Owns(t, d, net', desk') : o \notin Part(0)'
    BY <1>7
  <2> QED BY <1>5, <1>9, <1>10, <1>11, <2>1, <2>2, <2>3, <2>4 DEF Enters
<1>13. Booked'
  BY <1>12, EntersBooked DEF Owners
<1>14. Fresh' /\ NulsOpen' /\ Heard'
  BY <1>8, GpuAside
<1>15. Piping'
  BY <1>1, <1>4, EntryAlone
<1>16. Tokens'
  <2>1. \A g \in Handle : htype[g] \in TokenKind \/ htype'[g] \in TokenKind =>
                            htype'[g] = htype[g] /\ data'[g].n = data[g].n
    BY <1>4, <1>5 DEF TokenKind
  <2> QED BY <1>8, <2>1, GpuAside
<1> QED BY <1>13, <1>14, <1>15, <1>16 DEF Owners

(* An object of WebGPU is left without an entry.                           *)
LEMMA GpuLeaks ==
    ASSUME Types, Owners, UNCHANGED <<htype, data, lost, processVars, connVars, deskVars>>, ~misused',
           op.call \in Lean \cup {"gpu"}, op'.call \in Lean, NEW n, leaked' = leaked \cup {Native(n)},
           NEW N, os' = os \cup N, \A o \in N : o[1] = "gpu" /\ o \notin os,
           \A o : o \in Part(0) \/ o \in N <=> o = Native(n)
    PROVE  Owners'
<1>1. PICK X \in SUBSET Holders : X = {0, Limit}
  BY HolderKinds
<1>2. Part(0)' = {}
  BY InCallWhat, PartOfNext DEF Lean
<1>3. \A k : Strm(k) \in os => Strm(k) \in os'
  OBVIOUS
<1>4. \A g : Busy(op', g) <=> Busy(op, g)
  BY <1>3, GpuAside
<1>5. \A h \in Handle : Part(h)' = Part(h)
  BY <1>4, AllSame, EntryKept
<1>6. PICK C : C = {}
  OBVIOUS
<1>7. \A o : o \in Part(Limit)' <=> o \in Part(Limit) \/ o = Native(n)
  BY PartOf, PartOfNext
<1>8. Gives(X, C, N)
  <2>1. \A o : o \in Solid(os') <=> (o \in Solid(os) /\ o \notin C) \/ o \in N
    BY <1>6 DEF Solid
  <2>2. \A o \in N : o \notin Solid(os) /\ \E x \in X : o \in Part(x)'
    BY <1>1, <1>7 DEF Solid
  <2>3. \A z \in Holders \ X : Part(z)' = Part(z)
    BY <1>1, <1>5 DEF Holders
  <2>4. \A x \in X : \A o \in Part(x) : o \in C \/ \E y \in X : o \in Part(y)'
    BY <1>1, <1>7
  <2>5. \A x \in X : \A o \in Part(x)' : o \in N \/ (o \notin C /\ \E y \in X : o \in Part(y))
    BY <1>1, <1>2, <1>6, <1>7
  <2>6. \A x, y \in X : \A o \in Part(x)' : o \in Part(y)' => x = y
    BY <1>1, <1>2
  <2> QED BY <1>6, <2>1, <2>2, <2>3, <2>4, <2>5, <2>6 DEF Gives
<1>9. Booked'
  BY <1>8, Rebook DEF Owners
<1>10. Fresh' /\ NulsOpen' /\ Heard'
  BY <1>3, GpuAside
<1>11. Tokens'
  BY <1>3, GpuAside
<1>12. Piping'
  BY PipingKept DEF Owners, Types
<1> QED BY <1>9, <1>10, <1>11, <1>12 DEF Owners

(* The object gets its entry, or is released, or left.                     *)
LEMMA EnterGpuOwners ==
    ASSUME Types, Owners, EnterGpu, UNCHANGED <<processVars, connVars, deskVars>>
    PROVE  Owners'
<1>1. op.call = "gpu" /\ op.at \in GpuType /\ op'.call = "none" /\ UNCHANGED lost
  BY ReturnsTo DEF EnterGpu, Types, OpTypes, deskVars
<1>2. PICK t \in GpuType, n \in {op.n} : t = op.at
  BY <1>1
<1>3. Part(0) = {Native(n)}
  BY <1>1, <1>2, InCallWhat, PartOf
<1>4. op.call \in Lean \cup {"gpu"} /\ op'.call \in Lean
  BY <1>1 DEF Lean
<1>5. PICK none : none = {}
  OBVIOUS
<1>6. \A o : o \in Part(0) \/ o \in none <=> o = Native(n)
  BY <1>3, <1>5
<1>7. CASE (\E h \in Handle : Entry(h, t, [Blank EXCEPT !.n = n])) /\ UNCHANGED <<os, misused, leaked>>
  <2>1. os' = os \cup none /\ ~misused'
    BY <1>5, <1>7 DEF Owners
  <2>2. \A o \in none : o[1] = "gpu" /\ o \notin os
    BY <1>5
  <2> QED BY <1>1, <1>4, <1>6, <1>7, <2>1, <2>2, GpuEnters
<1>8. CASE UNCHANGED <<htype, data, os, misused>> /\ leaked' = leaked \cup {Native(n)}
  <2>1. os' = os \cup none /\ ~misused'
    BY <1>5, <1>8 DEF Owners
  <2>2. \A o \in none : o[1] = "gpu" /\ o \notin os
    BY <1>5
  <2> QED BY <1>1, <1>4, <1>6, <1>8, <2>1, <2>2, GpuLeaks
<1>9. CASE UNCHANGED <<htype, data, leaked>> /\ Close({Native(n)})
  <2>1. PICK C : C = {Native(n)}
    OBVIOUS
  <2>2. C \subseteq os
    BY <1>3, <2>1, HeldOpen, HolderKinds DEF Owners
  <2>3. os' = os \ C /\ ~misused'
    BY <1>9, <2>1, <2>2, NoMisuse DEF Owners
  <2>4. Part(0)' = {}
    BY <1>1, InCallWhat, PartOfNext
  <2>5. Mine(C, none)
    BY <1>3, <1>5, <2>1, <2>3, <2>4 DEF Mine, Solid
  <2>6. \A k : Strm(k) \in os => Strm(k) \in os'
    <3>1. \A k : Strm(k)[1] = "stream"
      BY ConnKinds
    <3> QED BY <2>1, <2>3, <3>1, NativeIs
  <2> QED BY <1>1, <1>4, <1>9, <2>3, <2>5, <2>6, GpuMine
<1> QED BY <1>2, <1>7, <1>8, <1>9 DEF EnterGpu

(* Steps that touch no entry and no object.                                *)
LEMMA GpuCalmOwners ==
    ASSUME Types, Owners, UNCHANGED <<htype, data, os, leaked, connVars, deskVars>>,
           op.call \in Lean, op'.call \in Lean, ~misused'
    PROVE  Owners'
<1>1. Heard'
  BY DEF Owners, Heard, connVars
<1>2. \A n \in DOMAIN net : net'[n].kind = net[n].kind
  BY DEF connVars
<1> QED BY <1>1, <1>2, CalmOwners

(* Uses, requests and callbacks.                                           *)
LEMMA GpuCallOwners ==
    ASSUME Types, Owners, UNCHANGED <<processVars, connVars, deskVars>>,
           \/ RequestReturns \/ NativeDone \/ CallbackReturns
           \/ \E h \in Handle : UseGpu(h) \/ RequestAdapter(h) \/ RequestDevice(h) \/ ProcessEvents(h)
    PROVE  Owners'
<1>1. ASSUME NEW h \in Handle, UseGpu(h) PROVE Owners'
  <2>1. /\ op.call = "none" /\ op'.call = "none" /\ htype[h] = "gpu" /\ UNCHANGED <<htype, data, os, leaked>>
        /\ Uses({Native(data[h].n)})
    BY <1>1 DEF UseGpu, Idle, IsA, gpuVars
  <2>2. {Native(data[h].n)} \subseteq os
    BY <2>1, EntryOpen, OwnsWhat DEF GpuType
  <2>3. ~misused'
    BY <2>1, <2>2, NoMisuse DEF Owners
  <2> QED BY <2>1, <2>3, GpuCalmOwners DEF Lean
<1>2. ASSUME NEW kind, NEW s, NEW inst, Ask(kind, s, inst) PROVE Owners'
  <2>1. op.call = "none" /\ op'.call = "request" /\ ~misused' /\ UNCHANGED <<htype, data, os, leaked>>
    BY <1>2 DEF Ask, Idle, NoOp, Owners
  <2> QED BY <2>1, GpuCalmOwners DEF Lean
<1>3. ASSUME NEW h \in Handle, RequestAdapter(h) \/ RequestDevice(h) PROVE Owners'
  <2>1. \E kind, s, inst : Ask(kind, s, inst)
    BY <1>3 DEF RequestAdapter, RequestDevice
  <2> QED BY <1>2, <2>1
<1>4. ASSUME NEW h \in Handle, ProcessEvents(h) PROVE Owners'
  <2>1. op.call = "none" /\ op'.call = "process" /\ ~misused' /\ UNCHANGED <<htype, data, os, leaked>>
    BY <1>4 DEF ProcessEvents, Idle, NoOp, Owners, gpuVars
  <2> QED BY <2>1, GpuCalmOwners DEF Lean
<1>5. CASE RequestReturns \/ NativeDone
  <2>1. /\ op.call \in {"request", "process"} /\ op'.call = "none" /\ ~misused'
        /\ UNCHANGED <<htype, data, os, leaked>>
    BY <1>5, ReturnsTo DEF RequestReturns, NativeDone, In, Owners, gpuVars
  <2> QED BY <2>1, GpuCalmOwners DEF Lean
<1>6. CASE CallbackReturns
  <2>1. op.call = "none" /\ op'.call = "none" /\ ~misused' /\ UNCHANGED <<htype, data, os, leaked>>
    BY <1>6 DEF CallbackReturns, Idle, Owners
  <2> QED BY <2>1, GpuCalmOwners DEF Lean
<1> QED BY <1>1, <1>3, <1>4, <1>5, <1>6

(* A release frees the entry and its object.                               *)
LEMMA ReleaseGpuOwners ==
    ASSUME Types, Owners, NEW h \in Handle, ReleaseGpu(h), UNCHANGED <<processVars, connVars, deskVars>>
    PROVE  Owners'
<1>1. /\ op.call = "none" /\ htype[h] \in GpuType /\ UNCHANGED <<op, lost, leaked, net, desk>>
      /\ Close({Native(data[h].n)}) /\ FreeAll({h})
  BY DEF ReleaseGpu, Idle, gpuVars, deskVars, connVars
<1>2. PICK C, H : C = {Native(data[h].n)} /\ H = {h}
  OBVIOUS
<1>3. Part(h) = C /\ C \subseteq os
  BY <1>1, <1>2, EntryOpen, OwnsWhat DEF GpuType
<1>4. os' = os \ C /\ ~misused'
  BY <1>1, <1>2, <1>3, NoMisuse DEF Owners
<1>5. /\ htype'[h] = "free" /\ data'[h] = Blank
      /\ \A g \in Handle \ {h} : htype'[g] = htype[g] /\ data'[g] = data[g]
  BY <1>1 DEF FreeAll
<1>6. \A g \in Handle \ H : SameEntry(g)
  <2>1. \A g \in Handle \ H : Busy(op', g) <=> Busy(op, g)
    BY <1>1 DEF Busy
  <2>2. \A g \in Handle \ H : htype'[g] = htype[g] /\ data'[g].n = data[g].n /\ data'[g].stream = data[g].stream
    BY <1>2, <1>5
  <2> QED BY <1>1, <2>1, <2>2, OthersSame
<1>7. Frees(H, C)
  BY <1>1, <1>2, <1>3, <1>4, <1>5, <1>6 DEF Frees
<1>8. \A k \in H : htype[k] \notin TokenKind
  BY <1>1, <1>2 DEF GpuType, TokenKind
<1>9. Tokens' /\ Fresh' /\ NulsOpen' /\ Booked'
  BY <1>7, <1>8, FreesRest
<1>10. Heard'
  <2>1. \A k : Strm(k)[1] = "stream"
    BY ConnKinds
  <2>2. \A k : Strm(k) \in os => Strm(k) \in os'
    BY <1>2, <1>4, <2>1, NativeIs
  <2> QED BY <2>2 DEF Owners, Heard, connVars
<1>11. Piping'
  <2>1. htype[h] # "pipe" /\ \A s \in Stream : data'[h].pipes[s] = 0
    BY <1>1, <1>5 DEF Blank, GpuType
  <2> QED BY <1>5, <2>1, PipingKept DEF Owners, Types
<1> QED BY <1>4, <1>9, <1>10, <1>11 DEF Owners

(* The result of a request gets an entry, or is left.                      *)
LEMMA AnswerOwners ==
    ASSUME Types, Owners, NEW r \in DOMAIN asked, Answer(r), UNCHANGED <<processVars, connVars, deskVars>>
    PROVE  Owners'
<1>1. PICK n, o, t : n = made + 1 /\ o = Native(n) /\ t = asked[r].kind
  OBVIOUS
<1>2. /\ op.call \in {"request", "process"} /\ UNCHANGED <<op, lost>> /\ ~misused'
      /\ op.call \in Lean /\ op'.call \in Lean
  BY DEF Answer, In, Owners, deskVars, Lean
<1>3. o[1] = "gpu" /\ o \notin os
  BY <1>1, NativeIs, Numbered
<1>4. t \in GpuType
  <2>1. asked[r] \in Request
    BY DEF Types, GpuTypes, Asking
  <2> QED BY <1>1, <2>1 DEF Request, GpuType
<1>5. PICK N : N = {o}
  OBVIOUS
<1>6. Part(0) = {}
  BY <1>2, InCallWhat, PartOf
<1>7. \A x : x \in Part(0) \/ x \in N <=> x = Native(n)
  BY <1>1, <1>5, <1>6
<1>8. \A x \in N : x[1] = "gpu" /\ x \notin os
  BY <1>3, <1>5
<1>9. CASE UNCHANGED <<htype, data, os, leaked>>
  BY <1>2, <1>9, GpuCalmOwners
<1>10. CASE os' = os \cup N /\ UNCHANGED leaked /\ \E h \in Handle : Entry(h, t, [Blank EXCEPT !.n = n])
  BY <1>2, <1>4, <1>7, <1>8, <1>10, GpuEnters
<1>11. CASE os' = os \cup N /\ leaked' = leaked \cup {Native(n)} /\ UNCHANGED <<htype, data>>
  BY <1>2, <1>7, <1>8, <1>11, GpuLeaks
<1>12. \/ UNCHANGED <<htype, data, os, leaked>>
       \/ os' = os \cup N /\ UNCHANGED leaked /\ \E h \in Handle : Entry(h, t, [Blank EXCEPT !.n = n])
       \/ os' = os \cup N /\ leaked' = leaked \cup {Native(n)} /\ UNCHANGED <<htype, data>>
  BY <1>1, <1>5 DEF Answer
<1> QED BY <1>9, <1>10, <1>11, <1>12

(* Every step of WebGPU keeps the account.                                 *)
LEMMA GpuStepOwners ==
    ASSUME Types, Owners, GpuStep, UNCHANGED <<processVars, connVars, deskVars>>
    PROVE  Owners'
BY CreateOwners, EnterGpuOwners, GpuCallOwners, ReleaseGpuOwners, AnswerOwners DEF GpuStep

-----------------------------------------------------------------------------
(* The theorem.                                                            *)

(* Nothing is open before the first call.                                  *)
LEMMA InitOwners == Init => Owners
<1> SUFFICES ASSUME Init PROVE Owners
  OBVIOUS
<1>1. PICK start \in Starts : htype = [h \in Handle |-> IF h \in start.others THEN "other" ELSE "free"]
  BY DEF Init, ObjectInit
<1>2. /\ data = [h \in Handle |-> Blank] /\ os = {} /\ misused = FALSE /\ op = NoOp /\ op.call = "none"
      /\ DOMAIN net = {} /\ lost = {} /\ leaked = {}
      /\ taken = [kind \in TokenKind |-> {}] /\ menus = [t \in SmallToken |-> 0]
  BY EmptySeq DEF Init, ObjectInit, ConnInit, DeskInit, GpuInit, NoOp
<1>3. \A x \in Holders : Part(x) = {}
  <2>1. Part(0) = {}
    BY <1>2, InCallWhat, PartOf
  <2>2. Part(Limit) = {}
    BY <1>2, PartOf
  <2>3. \A h \in Handle : Part(h) = {}
    <3>1. \A h \in Handle : htype[h] \in {"other", "free"}
      BY <1>1
    <3> QED BY <1>2, <3>1, OwnsWhat, PartOf
  <2> QED BY <2>1, <2>2, <2>3 DEF Holders
<1>4. Booked
  <2>1. \A x \in Holders : Ledger[x] = {}
    BY <1>3 DEF Ledger
  <2> QED BY <1>2, <2>1 DEF Booked, Tidy, Solid
<1>5. Tokens
  <2>1. \A kind \in TokenKind : \A n : n \notin Numbers(kind, htype, data, op)
    <3>1. \A kind \in TokenKind : kind \notin {"other", "free"}
      BY DEF TokenKind
    <3> QED BY <1>1, <1>2, <3>1, NumbersWhat
  <2>2. ASSUME NEW kind \in TokenKind
        PROVE  /\ taken[kind] = {desk[n].token : n \in Numbers(kind, htype, data, op)}
               /\ \A m, n \in Numbers(kind, htype, data, op) : desk[m].token = desk[n].token => m = n
    <3>1. PICK own : own = Numbers(kind, htype, data, op)
      OBVIOUS
    <3>2. own = {} /\ taken[kind] = {}
      BY <1>2, <2>1, <3>1
    <3>3. {desk[n].token : n \in own} = {}
      BY <3>2
    <3> QED BY <3>1, <3>2, <3>3
  <2> QED BY <1>2, <2>2 DEF Tokens
<1>6. Piping
  BY <1>2 DEF Piping, Blank
<1> QED BY <1>2, <1>4, <1>5, <1>6 DEF Owners, Fresh, NulsOpen, Heard

(* Every step keeps the account.                                           *)
LEMMA StepOwners == Types /\ Owners /\ [Next]_vars => Owners'
<1> SUFFICES ASSUME Types, Owners, [Next]_vars PROVE Owners'
  OBVIOUS
<1>1. CASE ProcessStep /\ UNCHANGED <<connVars, otherVars>>
  BY <1>1, ProcessStepOwners
<1>2. CASE ConnectionStep /\ UNCHANGED <<processVars, otherVars>>
  BY <1>2, ConnectionStepOwners
<1>3. CASE DesktopStep /\ UNCHANGED <<processVars, connVars, gpuVars>>
  BY <1>3, DesktopStepOwners
<1>4. CASE GpuStep /\ UNCHANGED <<processVars, connVars, deskVars>>
  BY <1>4, GpuStepOwners
<1>5. CASE UNCHANGED vars
  BY <1>5, OwnersSame DEF vars, objectVars, otherVars, gpuVars
<1> QED BY <1>1, <1>2, <1>3, <1>4, <1>5 DEF Next, Rest

(* Between two calls each open object, the strays apart, is one handle's.  *)
LEMMA OneOwner ==
    ASSUME Types, Owners, op.call \notin {"create", "wrap", "connect", "close", "make", "gpu"}
    PROVE  /\ os \ Stray = UNION {OwnedBy(h) : h \in Handle}
           /\ \A g, h \in Handle : g # h => OwnedBy(g) \cap OwnedBy(h) = {}
<1>1. op.call \in Lean
  BY DEF Types, OpTypes, Op, Lean
<1>2. \A h \in Handle : OwnedBy(h) = Part(h)
  <2>1. \A h \in Handle : OwnedBy(h) = Owns(htype[h], data[h], net, desk)
    BY DEF OwnedBy, Owns, PipeOf, ObjectsOf, Behind
  <2> QED BY <2>1, PartOf
<1>3. Part(0) = {} /\ Part(Limit) = lost \cup leaked
  BY <1>1, InCallWhat, PartOf DEF Lean
<1>4. \A o : o \in os \ Stray <=> o \in os /\ o[1] # "nul" /\ o \notin Part(Limit)
  BY <1>3 DEF Stray
<1>5. ASSUME NEW o \in os \ Stray PROVE \E h \in Handle : o \in OwnedBy(h)
  <2>1. \E x \in Holders : o \in Part(x)
    BY <1>4, OpenHeld DEF Owners
  <2> QED BY <1>2, <1>3, <1>4, <2>1 DEF Holders
<1>6. ASSUME NEW h \in Handle, NEW o \in OwnedBy(h)
      PROVE  o \in os \ Stray /\ \A g \in Handle : o \in OwnedBy(g) => g = h
  <2>1. o \in Part(h)
    BY <1>2
  <2>2. o \in os /\ o[1] # "nul" /\ \A y \in Holders : o \in Part(y) => h = y
    BY <2>1, HeldOpen, HolderKinds DEF Owners
  <2> QED BY <1>2, <1>4, <2>2, HolderKinds
<1> QED BY <1>5, <1>6

(* The tokens, as the property has them.                                   *)
LEMMA TokensMatch ==
    ASSUME Types, Owners, op.call # "make"
    PROVE  /\ \A kind \in TokenKind : taken[kind] = TokensInUse(kind)
           /\ \A t \in SmallToken :
                menus[t] # 0 <=> \E h \in Handle : IsA(h, "menu") /\ data[h].n = menus[t]
                                                  /\ desk[menus[t]].token = t
<1>1. \A kind : \A n : n \in Numbers(kind, htype, data, op) <=> \E h \in Handle : htype[h] = kind /\ n = data[h].n
  BY NumbersWhat
<1>2. ASSUME NEW kind \in TokenKind PROVE taken[kind] = TokensInUse(kind)
  <2>1. PICK own : own = Numbers(kind, htype, data, op)
    OBVIOUS
  <2>2. taken[kind] = {desk[n].token : n \in own}
    BY <2>1, TokensWhat DEF Owners, Tokened
  <2>3. \A n : n \in own <=> \E h \in Handle : htype[h] = kind /\ n = data[h].n
    BY <1>1, <2>1
  <2>4. PICK used : used = TokensInUse(kind)
    OBVIOUS
  <2>5. \A t : t \in used <=> \E h \in Handle : htype[h] = kind /\ t = desk[data[h].n].token
    BY <2>4 DEF TokensInUse
  <2>6. \A t : t \in taken[kind] <=> \E n \in own : t = desk[n].token
    BY <2>2
  <2>7. \A t : t \in taken[kind] <=> t \in used
    BY <2>3, <2>5, <2>6
  <2>8. taken[kind] = used
    BY <2>7 DEF Types, DeskTypes
  <2> QED BY <2>4, <2>8
<1>3. ASSUME NEW t \in SmallToken, menus[t] # 0
      PROVE  \E h \in Handle : IsA(h, "menu") /\ data[h].n = menus[t] /\ desk[menus[t]].token = t
  <2>1. menus[t] \in Numbers("menu", htype, data, op) /\ desk[menus[t]].token = t
    BY <1>3, TokensWhat DEF Owners
  <2> QED BY <1>1, <2>1 DEF IsA
<1>4. ASSUME NEW t \in SmallToken, NEW h \in Handle, IsA(h, "menu"), data[h].n = menus[t] PROVE menus[t] # 0
  <2>1. data[h].n \in DOMAIN desk
    BY <1>4 DEF IsA, Types, TableTypes, Refers, TokenKind
  <2> QED BY <1>4, <2>1 DEF Types, DeskTypes
<1> QED BY <1>2, <1>3, <1>4

(* No object of the system is closed twice or used closed, whichever step  *)
(* of a creation fails; between the calls each open one, the strays apart, *)
(* is that of exactly one handle, the tokens are those of the menus and    *)
(* trays there are, and a process names its own pipes.                     *)
THEOREM ObjectsAccounted == Spec => []ObjectsOwned
<1>1. ASSUME Types, Owners PROVE ObjectsOwned
  <2>1. ASSUME op.call \notin {"create", "wrap", "connect", "close", "make", "gpu"}
        PROVE  /\ os \ Stray = UNION {OwnedBy(h) : h \in Handle}
               /\ \A g, h \in Handle : g # h => OwnedBy(g) \cap OwnedBy(h) = {}
               /\ \A kind \in TokenKind : taken[kind] = TokensInUse(kind)
               /\ \A t \in SmallToken :
                    menus[t] # 0 <=> \E h \in Handle : IsA(h, "menu") /\ data[h].n = menus[t]
                                                      /\ desk[menus[t]].token = t
    BY <1>1, <2>1, OneOwner, TokensMatch
  <2>2. \A h \in Handle, s \in Stream :
          data[h].pipes[s] # 0 =>
            LET p == data[h].pipes[s]
            IN  htype[p] = "pipe" /\ data[p].n = data[h].n /\ data[p].stream = s
    BY <1>1 DEF Owners, Piping
  <2> QED BY <1>1, <2>1, <2>2 DEF ObjectsOwned, Owners
<1>2. Init => Types /\ Owners
  BY InitTypes, InitOwners
<1>3. Types /\ Owners /\ [Next]_vars => (Types /\ Owners)'
  BY StepTypes, StepOwners
<1> QED BY <1>1, <1>2, <1>3, PTL DEF Spec
=============================================================================
