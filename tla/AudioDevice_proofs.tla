-------------------------- MODULE AudioDevice_proofs ------------------------
(***************************************************************************)
(* The rings of AudioDevice keep their units and its threads keep to their *)
(* side of them, for every size of ring that divides the range of the      *)
(* counters, any number of streams and any number of units.                *)
(*                                                                         *)
(* First the arithmetic of counters that wrap, then one ring by itself as  *)
(* a relation between its fields and its history, then the threads.        *)
(***************************************************************************)
EXTENDS AudioDevice, SequenceTheorems, TLAPS

(* Remainders, kept as an operator so that the provers see terms and not   *)
(* arithmetic; so is equality up to a multiple of c.                       *)
Mod(a, c) == a % c

Congruent(a, b, c) == \E q \in Int : a = c * q + b

(* What division by c leaves.                                              *)
LEMMA DivMod ==
    ASSUME NEW c \in Nat \ {0}, NEW a \in Int
    PROVE  Mod(a, c) \in 0 .. c - 1 /\ \E q \in Int : a = c * q + Mod(a, c)
<1>1. a \div c \in Int /\ a % c \in 0 .. c - 1 /\ a = c * (a \div c) + (a % c)
  BY SMTT(30)
<1> QED BY <1>1 DEF Mod

(* The remainder is the only number below c that is a multiple away.       *)
LEMMA ModUnique ==
    ASSUME NEW c \in Nat \ {0}, NEW r \in 0 .. c - 1, NEW a \in Int, Congruent(a, r, c)
    PROVE  Mod(a, c) = r
<1>1. PICK q \in Int : a = c * q + r
  BY DEF Congruent
<1>2. (c * q + r) % c = r
  BY SMTT(30)
<1> QED BY <1>1, <1>2 DEF Mod

(* Congruent numbers leave the same remainder.                             *)
LEMMA ModSame ==
    ASSUME NEW c \in Nat \ {0}, NEW x \in Int, NEW y \in Int, Congruent(x, y, c)
    PROVE  Mod(x, c) = Mod(y, c)
<1>1. PICK p \in Int, r \in 0 .. c - 1 : y = c * p + r /\ Mod(y, c) = r
  BY DivMod
<1>2. PICK q \in Int : x = c * q + y
  BY DEF Congruent
<1>3. x = c * (q + p) + r /\ q + p \in Int
  BY <1>1, <1>2
<1>4. Congruent(x, r, c)
  BY <1>3 DEF Congruent
<1> QED BY <1>1, <1>4, ModUnique

(* Congruence only depends on the difference.                              *)
LEMMA CongruentShift ==
    ASSUME NEW c \in Nat \ {0}, NEW a \in Int, NEW b \in Int, Congruent(a, b, c),
           NEW x \in Int, NEW y \in Int, x - y = a - b
    PROVE  Congruent(x, y, c)
<1>1. PICK q \in Int : a = c * q + b
  BY DEF Congruent
<1>2. PICK k \in Int : k = c * q
  BY <1>1
<1>3. x = k + y
  BY <1>1, <1>2
<1> QED BY <1>2, <1>3 DEF Congruent

(* A counter that wraps at a multiple R of c keeps its place modulo c.     *)
LEMMA ModOfMod ==
    ASSUME NEW c \in Nat \ {0}, NEW R \in Nat \ {0}, Mod(R, c) = 0, NEW a \in Int
    PROVE  Mod(a, R) \in 0 .. R - 1 /\ Congruent(a, Mod(a, R), c)
<1>1. PICK m \in Int : R = c * m
  <2>1. R \in Int
    OBVIOUS
  <2>2. \E q \in Int : R = c * q + Mod(R, c)
    BY <2>1, DivMod
  <2> QED BY <2>2
<1>2. PICK q \in Int, r \in 0 .. R - 1 : a = R * q + r /\ Mod(a, R) = r
  BY DivMod
<1>3. R * q = c * (m * q) /\ m * q \in Int
  BY <1>1
<1>4. a = c * (m * q) + r
  BY <1>2, <1>3
<1> QED BY <1>2, <1>3, <1>4 DEF Congruent

(* Numbers one turn away at most.                                          *)
LEMMA ModNear ==
    ASSUME NEW c \in Nat \ {0}, NEW a \in Int, -c <= a, a < 2 * c
    PROVE  Mod(a, c) = IF a < 0 THEN a + c ELSE IF a < c THEN a ELSE a - c
<1> DEFINE q == IF a < 0 THEN -1 ELSE IF a < c THEN 0 ELSE 1
           r == IF a < 0 THEN a + c ELSE IF a < c THEN a ELSE a - c
<1>1. a = c * q + r /\ q \in Int /\ r \in 0 .. c - 1
  OBVIOUS
<1> HIDE DEF q, r
<1>2. Congruent(a, r, c)
  BY <1>1 DEF Congruent
<1>3. Mod(a, c) = r
  BY <1>1, <1>2, ModUnique
<1> QED BY <1>3 DEF r

-----------------------------------------------------------------------------
(* The counters of a ring: the units from t to h, the counter k units      *)
(* after t, the place of the j-th unit from t on in a ring of size c, and  *)
(* how far place s is past the one of counter h.                           *)

Between(t, h)  == Mod(h - t, CounterRange)
After(t, k)    == Mod(t + k, CounterRange)
Place(t, j, c) == Mod(t + j - 1, c)
Offset(s, h, c) == Mod(s - h, c)

Counter == 0 .. CounterRange - 1

(* The width of a counter is a positive number.                            *)
LEMMA RangeType == CounterRange \in Nat \ {0}
BY AudioAssumption

(* Counters are numbers below their width.                                 *)
LEMMA CounterNat == \A k \in Counter : k \in Nat /\ k \in Int /\ k < CounterRange
BY RangeType DEF Counter

(* Advancing a counter takes as many units from what is between, or adds   *)
(* as many to it, through every wrap.                                      *)
LEMMA Counters ==
    ASSUME NEW h \in Counter, NEW t \in Counter
    PROVE  /\ Between(t, h) \in Counter
           /\ h = After(t, Between(t, h))
           /\ \A k \in 0 .. Between(t, h) :
                /\ After(t, k) \in Counter
                /\ Between(After(t, k), h) = Between(t, h) - k
           /\ \A k \in Nat : Between(t, h) + k < CounterRange =>
                /\ After(h, k) \in Counter
                /\ Between(t, After(h, k)) = Between(t, h) + k
<1> DEFINE R == CounterRange
           n == IF h < t THEN h - t + R ELSE h - t
<1>0. R \in Nat \ {0} /\ Counter = 0 .. R - 1
  BY RangeType DEF Counter
<1>1. Mod(h - t, R) = n /\ n \in 0 .. R - 1
  BY <1>0, ModNear
<1>2. h = Mod(t + n, R)
  BY <1>0, <1>1, ModNear
<1>3. ASSUME NEW k \in 0 .. n
      PROVE  Mod(t + k, R) \in 0 .. R - 1 /\ Mod(h - Mod(t + k, R), R) = n - k
  <2>1. PICK u \in 0 .. R - 1 : u = Mod(t + k, R) /\ u = IF t + k < R THEN t + k ELSE t + k - R
    BY <1>0, <1>1, <1>3, ModNear
  <2>2. Mod(h - u, R) = IF h < u THEN h - u + R ELSE h - u
    BY <1>0, ModNear
  <2> QED BY <1>0, <1>1, <1>3, <2>1, <2>2
<1>4. ASSUME NEW k \in Nat, n + k < R
      PROVE  Mod(h + k, R) \in 0 .. R - 1 /\ Mod(Mod(h + k, R) - t, R) = n + k
  <2>1. PICK u \in 0 .. R - 1 : u = Mod(h + k, R) /\ u = IF h + k < R THEN h + k ELSE h + k - R
    BY <1>0, <1>1, <1>4, ModNear
  <2>2. Mod(u - t, R) = IF u < t THEN u - t + R ELSE u - t
    BY <1>0, ModNear
  <2> QED BY <1>0, <1>1, <1>4, <2>1, <2>2
<1> HIDE DEF n
<1>5. Between(t, h) = n
  BY <1>1 DEF Between
<1>6. \A k \in Nat : n + k < R => After(h, k) \in Counter /\ Between(t, After(h, k)) = n + k
  BY <1>0, <1>4 DEF After, Between
<1>7. \A k \in 0 .. n : After(t, k) \in Counter /\ Between(After(t, k), h) = n - k
  BY <1>0, <1>3 DEF After, Between
<1>8. n \in Counter /\ h = After(t, n)
  BY <1>0, <1>1, <1>2 DEF After
<1> QED BY <1>5, <1>6, <1>7, <1>8

(* With n units in the ring from t on, the place of the j-th one is past   *)
(* the head only when that one has yet to be written.                      *)
LEMMA Places ==
    ASSUME NEW c \in Nat \ {0}, Mod(CounterRange, c) = 0,
           NEW t \in Counter, NEW n \in 0 .. c, NEW j \in 1 .. c
    PROVE  /\ Place(t, j, c) \in 0 .. c - 1
           /\ Offset(Place(t, j, c), After(t, n), c) =
                IF j > n THEN j - n - 1 ELSE j - n - 1 + c
<1> DEFINE R == CounterRange
<1>1. R \in Nat \ {0} /\ t \in 0 .. R - 1
  BY RangeType DEF Counter
<1>2. PICK x \in Int, y \in Int : x = t + j - 1 /\ y = t + n
  BY <1>1
<1>3. Mod(c, c) = 0
  BY ModNear
<1>4. PICK p \in Int : p \in 0 .. c - 1 /\ p = Mod(x, c) /\ Congruent(x, p, c)
  BY <1>3, ModOfMod
<1>5. PICK m \in 0 .. R - 1 : m = Mod(y, R) /\ Congruent(y, m, c)
  BY <1>1, ModOfMod
<1>6. PICK z \in Int, w \in Int, v \in Int : z = p - m /\ w = x - m /\ v = x - y
  BY <1>2
<1>7. Mod(w, c) = Mod(z, c)
  <2>1. w - z = x - p
    BY <1>6
  <2>2. Congruent(w, z, c)
    BY <1>4, <2>1, CongruentShift
  <2> QED BY <2>2, ModSame
<1>8. Mod(w, c) = Mod(v, c)
  <2>1. w - v = y - m
    BY <1>6
  <2>2. Congruent(w, v, c)
    BY <1>5, <2>1, CongruentShift
  <2> QED BY <2>2, ModSame
<1>9. v = j - 1 - n
  BY <1>1, <1>2, <1>6
<1>10. Mod(v, c) = IF v < 0 THEN v + c ELSE v
  BY <1>9, ModNear
<1>11. Mod(z, c) = IF j > n THEN j - n - 1 ELSE j - n - 1 + c
  BY <1>7, <1>8, <1>9, <1>10
<1>12. p = Place(t, j, c) /\ m = After(t, n) /\ Mod(z, c) = Offset(p, m, c)
  BY <1>2, <1>4, <1>5, <1>6 DEF Place, After, Offset
<1> QED BY <1>4, <1>6, <1>11, <1>12

(* The j-th unit from a counter k further on is the (k + j)-th.            *)
LEMMA PlaceShift ==
    ASSUME NEW c \in Nat \ {0}, Mod(CounterRange, c) = 0,
           NEW t \in Int, NEW k \in Int, NEW j \in Int
    PROVE  Place(After(t, k), j, c) = Place(t, k + j, c)
<1>1. PICK x \in Int : x = t + k
  OBVIOUS
<1>2. PICK u \in Int : u = Mod(x, CounterRange) /\ Congruent(x, u, c)
  BY RangeType, ModOfMod
<1>3. PICK v \in Int, w \in Int : v = u + j - 1 /\ w = t + (k + j) - 1
  OBVIOUS
<1>4. w - v = x - u
  BY <1>1, <1>3
<1>5. Congruent(w, v, c)
  BY <1>2, <1>4, CongruentShift
<1>6. Mod(w, c) = Mod(v, c)
  BY <1>5, ModSame
<1> QED BY <1>1, <1>2, <1>3, <1>6 DEF Place, After

-----------------------------------------------------------------------------
(* One ring: of size c, with counters h and t and contents d.  Of the p    *)
(* units written to it, the consumer got q and x were thrown away; the     *)
(* last w of them are copied in and not published, and the a oldest ones   *)
(* still counted as queued are already copied out.                         *)

Elems(q) == {q[i] : i \in 1 .. Len(q)}

Out(c, t, d, k) == [j \in 1 .. k |-> d[Place(t, j, c)]]

RingSize(c) == c \in Nat \ {0} /\ c < CounterRange /\ Mod(CounterRange, c) = 0

(* What became of the first g units.                                       *)
Fates(q, x, g) ==
    /\ q \in Seq(Nat) /\ x \subseteq Nat
    /\ \A i, j \in 1 .. Len(q) : i < j => q[i] < q[j]
    /\ \A u \in Elems(q) : u \notin x
    /\ \A u \in Nat : u \in Elems(q) \/ u \in x <=> u \in 1 .. g

Ring(c, h, t, d, p, q, x, w, a) ==
    LET n == Between(t, h)
    IN  /\ RingSize(c) /\ h \in Counter /\ t \in Counter
        /\ d \in [0 .. c - 1 -> Nat]
        /\ p \in Nat /\ w \in Nat /\ a \in Nat
        /\ n + w <= c /\ a <= n /\ n + w <= p
        /\ \A j \in 1 .. n + w : d[Place(t, j, c)] = p - (n + w) + j
        /\ Fates(q, x, p - (n + w) + a)

(* A new ring is empty, and so is one that replaces a full one once what   *)
(* was queued is counted as thrown away.                                   *)
LEMMA RingEmpty ==
    ASSUME NEW c, RingSize(c), NEW p \in Nat, NEW q, NEW x, Fates(q, x, p)
    PROVE  Ring(c, 0, 0, [i \in 0 .. c - 1 |-> 0], p, q, x, 0, 0)
<1>1. 0 \in Counter /\ Between(0, 0) = 0
  <2>1. Mod(0, CounterRange) = 0
    BY RangeType, ModNear
  <2> QED BY <2>1, RangeType DEF Counter, Between
<1>2. p - (0 + 0) + 0 = p
  OBVIOUS
<1> QED BY <1>1, <1>2, RangeType DEF Ring, RingSize

(* The b units that ring_write copies in come after those in the ring.     *)
LEMMA RingWrite ==
    ASSUME NEW c, NEW h, NEW t, NEW d, NEW p, NEW q, NEW x, NEW a,
           Ring(c, h, t, d, p, q, x, 0, a),
           NEW b \in Nat, b <= c - Between(t, h)
    PROVE  LET e == [i \in 0 .. c - 1 |->
                       IF Offset(i, h, c) < b THEN p + Offset(i, h, c) + 1 ELSE d[i]]
           IN  Ring(c, h, t, e, p + b, q, x, b, a)
<1> DEFINE e == [i \in 0 .. c - 1 |->
                   IF Offset(i, h, c) < b THEN p + Offset(i, h, c) + 1 ELSE d[i]]
<1>1. /\ c \in Nat \ {0} /\ Mod(CounterRange, c) = 0
      /\ h \in Counter /\ t \in Counter /\ d \in [0 .. c - 1 -> Nat]
      /\ p \in Nat /\ a \in Nat /\ h \in Nat
  BY CounterNat DEF Ring, RingSize
<1>2. PICK n \in 0 .. c : /\ n = Between(t, h) /\ h = After(t, n) /\ n <= p /\ a <= n
                          /\ \A j \in 1 .. n : d[Place(t, j, c)] = p - n + j
                          /\ Fates(q, x, p - n + a)
  <2>0. Between(t, h) \in Counter /\ h = After(t, Between(t, h))
    BY <1>1, Counters
  <2>1. PICK n \in Nat : n = Between(t, h) /\ h = After(t, n)
    BY <2>0, CounterNat
  <2>2. /\ n + 0 <= c /\ n + 0 <= p /\ a <= n
        /\ \A j \in 1 .. n + 0 : d[Place(t, j, c)] = p - (n + 0) + j
        /\ Fates(q, x, p - (n + 0) + a)
    BY <2>1 DEF Ring
  <2>3. n + 0 = n /\ p - (n + 0) = p - n
    OBVIOUS
  <2>4. n \in 0 .. c /\ n <= p
    BY <1>1, <2>2, <2>3
  <2>5. \A j \in 1 .. n : d[Place(t, j, c)] = p - n + j
    BY <2>2, <2>3
  <2>6. Fates(q, x, p - n + a)
    BY <2>2, <2>3
  <2> QED BY <2>1, <2>2, <2>4, <2>5, <2>6
<1>3. ASSUME NEW i \in 0 .. c - 1 PROVE e[i] \in Nat
  <2>1. PICK y \in Int : y = i - h
    BY <1>1
  <2>2. Offset(i, h, c) \in 0 .. c - 1
    BY <1>1, <2>1, DivMod DEF Offset
  <2> QED BY <1>1, <2>1, <2>2
<1>4. e \in [0 .. c - 1 -> Nat]
  BY <1>3
<1>5. n \in Nat /\ c \in Nat /\ n + b <= c
  BY <1>1, <1>2
<1>6. ASSUME NEW j \in 1 .. n + b PROVE e[Place(t, j, c)] = p - n + j
  <2>1. j \in 1 .. c /\ (j > n => j - n - 1 < b) /\ (j <= n => ~(j - n - 1 + c < b))
    BY <1>5
  <2>2. Place(t, j, c) \in 0 .. c - 1
        /\ Offset(Place(t, j, c), h, c) = IF j > n THEN j - n - 1 ELSE j - n - 1 + c
    <3>1. /\ Place(t, j, c) \in 0 .. c - 1
          /\ Offset(Place(t, j, c), After(t, n), c) =
               IF j > n THEN j - n - 1 ELSE j - n - 1 + c
      <4>1. n \in 0 .. c
        BY <1>2
      <4>2. c \in Nat \ {0} /\ Mod(CounterRange, c) = 0 /\ t \in Counter
        BY <1>1
      <4> QED BY <2>1, <4>1, <4>2, Places
    <3>2. h = After(t, n)
      BY <1>2
    <3> QED BY <3>1, <3>2
  <2>3. CASE j > n
    <3>1. e[Place(t, j, c)] = p + (j - n - 1) + 1
      BY <2>1, <2>2, <2>3
    <3> QED BY <1>1, <1>5, <2>3, <3>1
  <2>4. CASE ~(j > n)
    <3>1. j \in 1 .. n /\ j <= n
      BY <1>5, <2>4
    <3>2. e[Place(t, j, c)] = d[Place(t, j, c)]
      BY <2>1, <2>2, <3>1
    <3> QED BY <1>2, <3>1, <3>2
  <2> QED BY <2>3, <2>4
<1>7. (p + b) - (n + b) = p - n /\ n + b <= c /\ n + b <= p + b /\ p + b \in Nat
  BY <1>1, <1>2
<1>8. \A j \in 1 .. n + b : e[Place(t, j, c)] = (p + b) - (n + b) + j
  BY <1>6, <1>7
<1>9. Fates(q, x, (p + b) - (n + b) + a)
  BY <1>2, <1>7
<1> HIDE DEF e
<1>10. Ring(c, h, t, e, p + b, q, x, b, a)
  BY <1>2, <1>4, <1>7, <1>8, <1>9 DEF Ring
<1> QED BY <1>10 DEF e

(* Advancing head by what was copied in makes it count as queued.          *)
LEMMA RingPublish ==
    ASSUME NEW c, NEW h, NEW t, NEW d, NEW p, NEW q, NEW x, NEW w, NEW a,
           Ring(c, h, t, d, p, q, x, w, a)
    PROVE  Ring(c, After(h, w), t, d, p, q, x, 0, a)
<1>1. PICK n \in Nat : n = Between(t, h)
  BY Counters, CounterNat DEF Ring
<1>2. After(h, w) \in Counter /\ Between(t, After(h, w)) = n + w
  <2>1. h \in Counter /\ t \in Counter /\ w \in Nat /\ n + w <= c /\ c < CounterRange /\ c \in Nat
    BY <1>1 DEF Ring, RingSize
  <2>2. n + w < CounterRange
    BY <2>1, RangeType
  <2> QED BY <1>1, <2>1, <2>2, Counters
<1>3. w \in Nat /\ a \in Nat /\ a <= n
  BY <1>1 DEF Ring
<1>4. (n + w) + 0 = n + w /\ a <= n + w
  BY <1>3
<1> QED BY <1>1, <1>2, <1>4 DEF Ring

(* The next units to be copied out are the oldest ones whose fate is open. *)
LEMMA OutUnits ==
    ASSUME NEW c, NEW h, NEW t, NEW d, NEW p, NEW q, NEW x, NEW w, NEW a,
           Ring(c, h, t, d, p, q, x, w, a),
           NEW k \in 0 .. Between(t, h)
    PROVE  LET g == p - (Between(t, h) + w)
           IN  /\ g \in Nat
               /\ Out(c, t, d, k) \in Seq(Nat) /\ Len(Out(c, t, d, k)) = k
               /\ \A j \in 1 .. k : Out(c, t, d, k)[j] = g + j
               /\ \A u \in Nat : u \in Elems(Out(c, t, d, k)) <=> u \in g + 1 .. g + k
<1>1. PICK n \in Nat : n = Between(t, h)
  BY Counters, CounterNat DEF Ring
<1>2. PICK g \in Nat : g = p - (n + w) /\ \A j \in 1 .. n + w : d[Place(t, j, c)] = g + j
  BY <1>1 DEF Ring
<1>3. k \in Nat /\ w \in Nat /\ k <= n + w
  BY <1>1 DEF Ring
<1> DEFINE o == Out(c, t, d, k)
<1>4. o = [j \in 1 .. k |-> g + j]
  BY <1>1, <1>2, <1>3 DEF Out
<1> HIDE DEF o
<1>5. o \in Seq(Nat) /\ Len(o) = k /\ \A j \in 1 .. k : o[j] = g + j
  BY <1>2, <1>3, <1>4
<1>6. ASSUME NEW u \in Nat PROVE u \in Elems(o) <=> u \in g + 1 .. g + k
  <2>1. ASSUME u \in g + 1 .. g + k PROVE u \in Elems(o)
    <3>1. u - g \in 1 .. k /\ g + (u - g) = u
      BY <1>2, <1>3, <2>1
    <3> QED BY <1>5, <3>1 DEF Elems
  <2>2. ASSUME u \in Elems(o) PROVE u \in g + 1 .. g + k
    <3>1. PICK j \in 1 .. k : u = g + j
      BY <1>5, <2>2 DEF Elems
    <3> QED BY <1>2, <1>3, <3>1
  <2> QED BY <2>1, <2>2
<1> QED BY <1>1, <1>2, <1>5, <1>6 DEF o

(* The units that ring_read copies out reach the consumer in order.        *)
LEMMA RingTake ==
    ASSUME NEW c, NEW h, NEW t, NEW d, NEW p, NEW q, NEW x, NEW w,
           Ring(c, h, t, d, p, q, x, w, 0),
           NEW k \in 0 .. Between(t, h)
    PROVE  Ring(c, h, t, d, p, q \o Out(c, t, d, k), x, w, k)
<1> DEFINE o == Out(c, t, d, k)
           r == q \o o
<1>1. PICK g \in Nat :
        /\ g = p - (Between(t, h) + w)
        /\ o \in Seq(Nat) /\ Len(o) = k /\ k \in Nat
        /\ \A j \in 1 .. k : o[j] = g + j
        /\ \A u \in Nat : u \in Elems(o) <=> u \in g + 1 .. g + k
  BY OutUnits
<1>2. g + 0 = g
  OBVIOUS
<1>3. Fates(q, x, g)
  BY <1>1, <1>2 DEF Ring
<1> HIDE DEF o
<1>4. /\ r \in Seq(Nat) /\ Len(r) = Len(q) + k /\ Len(q) \in Nat
      /\ \A i \in 1 .. Len(r) : r[i] = IF i <= Len(q) THEN q[i] ELSE o[i - Len(q)]
  <2>1. q \in Seq(Nat)
    BY <1>3 DEF Fates
  <2>2. /\ q \o o \in Seq(Nat) /\ Len(q \o o) = Len(q) + Len(o)
        /\ \A i \in 1 .. Len(q) + Len(o) :
             (q \o o)[i] = IF i <= Len(q) THEN q[i] ELSE o[i - Len(q)]
    BY <1>1, <2>1, ConcatProperties
  <2> QED BY <1>1, <2>1, <2>2
<1> HIDE DEF r
<1>5. ASSUME NEW u \in Nat PROVE u \in Elems(r) <=> u \in Elems(q) \/ u \in Elems(o)
  <2>1. ASSUME u \in Elems(r) PROVE u \in Elems(q) \/ u \in Elems(o)
    <3>1. PICK i \in 1 .. Len(r) : u = r[i]
      BY <2>1 DEF Elems
    <3>2. CASE i <= Len(q)
      <4>1. i \in 1 .. Len(q) /\ u = q[i]
        BY <1>4, <3>1, <3>2
      <4> QED BY <4>1 DEF Elems
    <3>3. CASE ~(i <= Len(q))
      <4>1. i - Len(q) \in 1 .. k /\ u = o[i - Len(q)]
        BY <1>1, <1>4, <3>1, <3>3
      <4> QED BY <1>1, <4>1 DEF Elems
    <3> QED BY <3>2, <3>3
  <2>2. ASSUME u \in Elems(q) PROVE u \in Elems(r)
    <3>1. PICK i \in 1 .. Len(q) : u = q[i]
      BY <2>2 DEF Elems
    <3>2. i \in 1 .. Len(r) /\ r[i] = u
      BY <1>1, <1>4, <3>1
    <3> QED BY <3>2 DEF Elems
  <2>3. ASSUME u \in Elems(o) PROVE u \in Elems(r)
    <3>1. PICK i \in 1 .. k : u = o[i]
      BY <1>1, <2>3 DEF Elems
    <3>2. PICK m \in Int : m = Len(q) + i
      BY <1>1, <1>4, <3>1
    <3>3. m \in 1 .. Len(r) /\ ~(m <= Len(q)) /\ m - Len(q) = i
      <4>1. Len(q) \in Nat /\ Len(r) = Len(q) + k /\ k \in Nat /\ i \in 1 .. k
        BY <1>1, <1>4
      <4> QED BY <3>2, <4>1
    <3>4. r[m] = o[i]
      BY <1>4, <3>3
    <3> QED BY <3>1, <3>3, <3>4 DEF Elems
  <2> QED BY <2>1, <2>2, <2>3
<1>6. \A u \in Elems(r) : u \in Nat
  BY <1>4 DEF Elems
<1>7. \A i, j \in 1 .. Len(r) : i < j => r[i] < r[j]
  <2>1. PICK m \in Nat : m = Len(q) /\ Len(r) = m + k
    BY <1>4
  <2>2. \A i \in 1 .. m + k : i <= m => r[i] = q[i] /\ r[i] \in Elems(q)
    BY <1>4, <2>1 DEF Elems
  <2>3. ASSUME NEW i \in 1 .. m + k, ~(i <= m)
        PROVE  r[i] = g + (i - m) /\ g < r[i]
    <3>1. i - m \in 1 .. k
      BY <1>1, <2>1, <2>3
    <3>2. r[i] = o[i - m]
      BY <1>4, <2>1, <2>3
    <3> QED BY <1>1, <3>1, <3>2
  <2>4. ASSUME NEW u \in Elems(q) PROVE u \in Nat /\ u <= g
    <3>1. u \in Nat
      BY <1>3, <2>4 DEF Fates, Elems
    <3>2. u \in 1 .. g
      BY <1>3, <2>4, <3>1 DEF Fates
    <3> QED BY <3>1, <3>2
  <2>5. \A i, j \in 1 .. m : i < j => q[i] < q[j]
    BY <1>3, <2>1 DEF Fates
  <2> SUFFICES ASSUME NEW i \in 1 .. Len(r), NEW j \in 1 .. Len(r), i < j
               PROVE  r[i] < r[j]
    OBVIOUS
  <2>9. i \in 1 .. m + k /\ j \in 1 .. m + k
    BY <2>1
  <2>6. CASE j <= m
    <3>1. i \in 1 .. m /\ j \in 1 .. m
      BY <2>6, <2>9
    <3> QED BY <2>2, <2>5, <2>6, <2>9, <3>1
  <2>7. CASE ~(j <= m) /\ i <= m
    <3>1. r[i] \in Nat /\ r[i] <= g
      BY <2>2, <2>4, <2>7, <2>9
    <3>2. r[j] = g + (j - m) /\ g < r[j]
      BY <2>3, <2>7, <2>9
    <3> QED BY <3>1, <3>2
  <2>8. CASE ~(i <= m)
    <3>1. r[i] = g + (i - m) /\ ~(j <= m)
      BY <2>3, <2>8, <2>9
    <3>2. r[j] = g + (j - m)
      BY <2>3, <2>9, <3>1
    <3> QED BY <1>1, <2>9, <3>1, <3>2
  <2> QED BY <2>6, <2>7, <2>8
<1>8. Fates(r, x, g + k)
  <2>1. \A u \in Nat : u \in Elems(r) => u \notin x
    BY <1>1, <1>3, <1>5 DEF Fates
  <2>2. \A u \in Nat : u \in Elems(r) \/ u \in x <=> u \in 1 .. g + k
    BY <1>1, <1>3, <1>5 DEF Fates
  <2> QED BY <1>3, <1>4, <1>6, <1>7, <2>1, <2>2 DEF Fates
<1>9. Ring(c, h, t, d, p, r, x, w, k)
  BY <1>1, <1>8 DEF Ring
<1> QED BY <1>9 DEF r, o

(* The units a full capture ring drops are the oldest ones.                *)
LEMMA RingDrop ==
    ASSUME NEW c, NEW h, NEW t, NEW d, NEW p, NEW q, NEW x, NEW w,
           Ring(c, h, t, d, p, q, x, w, 0),
           NEW k \in 0 .. Between(t, h)
    PROVE  LET y == x \cup Elems(Out(c, t, d, k))
           IN  /\ Ring(c, h, t, d, p, q, y, w, k)
               /\ Fates(q, y, p - (Between(t, h) + w) + k)
<1> DEFINE o == Out(c, t, d, k)
           y == x \cup Elems(o)
<1>1. PICK g \in Nat :
        /\ g = p - (Between(t, h) + w)
        /\ o \in Seq(Nat) /\ Len(o) = k /\ k \in Nat
        /\ \A u \in Nat : u \in Elems(o) <=> u \in g + 1 .. g + k
  BY OutUnits
<1>2. g + 0 = g
  OBVIOUS
<1>3. Fates(q, x, g)
  BY <1>1, <1>2 DEF Ring
<1>4. Elems(o) \subseteq Nat /\ Elems(q) \subseteq Nat
  BY <1>1, <1>3 DEF Elems, Fates
<1>5. Fates(q, y, g + k)
  <2>1. \A u \in Elems(q) : u \notin y
    BY <1>1, <1>3, <1>4 DEF Fates
  <2>2. \A u \in Nat : u \in Elems(q) \/ u \in y <=> u \in 1 .. g + k
    BY <1>1, <1>3 DEF Fates
  <2> QED BY <1>3, <1>4, <2>1, <2>2 DEF Fates
<1>6. Ring(c, h, t, d, p, q, y, w, k)
  BY <1>1, <1>5 DEF Ring
<1> QED BY <1>1, <1>5, <1>6

(* Advancing tail by what was copied out.                                  *)
LEMMA RingAdvance ==
    ASSUME NEW c, NEW h, NEW t, NEW d, NEW p, NEW q, NEW x, NEW w, NEW a,
           Ring(c, h, t, d, p, q, x, w, a)
    PROVE  Ring(c, h, After(t, a), d, p, q, x, w, 0)
<1>1. PICK n \in Nat : n = Between(t, h)
  BY Counters, CounterNat DEF Ring
<1>2. /\ c \in Nat \ {0} /\ Mod(CounterRange, c) = 0
      /\ h \in Counter /\ t \in Counter /\ t \in Int
      /\ a \in 0 .. n /\ w \in Nat /\ p \in Nat /\ n + w <= p /\ n + w <= c
      /\ \A j \in 1 .. n + w : d[Place(t, j, c)] = p - (n + w) + j
      /\ Fates(q, x, p - (n + w) + a)
  BY <1>1, CounterNat DEF Ring, RingSize
<1>3. PICK v \in Counter : v = After(t, a) /\ Between(v, h) = n - a
  <2>1. a \in 0 .. Between(t, h)
    BY <1>1, <1>2
  <2>2. After(t, a) \in Counter /\ Between(After(t, a), h) = Between(t, h) - a
    BY <1>2, <2>1, Counters
  <2> QED BY <1>1, <2>2
<1>4. ASSUME NEW j \in 1 .. (n - a) + w
      PROVE  d[Place(v, j, c)] = p - ((n - a) + w) + j
  <2>1. PICK i \in Int : i = a + j
    BY <1>2
  <2>2. Place(v, j, c) = Place(t, a + j, c)
    <3>1. /\ a \in Int /\ j \in Int /\ t \in Int
          /\ c \in Nat \ {0} /\ Mod(CounterRange, c) = 0 /\ v = After(t, a)
      BY <1>2, <1>3
    <3> QED BY <3>1, PlaceShift
  <2>3. i \in 1 .. n + w
    BY <1>2, <2>1
  <2>4. d[Place(t, i, c)] = p - (n + w) + i
    BY <1>2, <2>3
  <2>5. p - (n + w) + i = p - ((n - a) + w) + j
    BY <1>2, <2>1
  <2> QED BY <2>1, <2>2, <2>4, <2>5
<1>5. p - (n + w) + a = p - ((n - a) + w) + 0 /\ (n - a) + w <= c /\ (n - a) + w <= p
      /\ 0 <= n - a
  BY <1>2
<1>6. Ring(c, h, v, d, p, q, x, w, 0)
  <2>1. RingSize(c) /\ d \in [0 .. c - 1 -> Nat]
    BY DEF Ring
  <2> QED BY <1>2, <1>3, <1>4, <1>5, <2>1 DEF Ring
<1> QED BY <1>3, <1>6

(* What such a ring says of its units.                                     *)
LEMMA RingMeans ==
    ASSUME NEW c, NEW h, NEW t, NEW d, NEW p, NEW q, NEW x, NEW w, NEW a,
           Ring(c, h, t, d, p, q, x, w, a)
    PROVE  /\ \A i, j \in 1 .. Len(q) : i < j => q[i] < q[j]
           /\ \A i \in 1 .. Len(q) : q[i] \in (1 .. p) \ x
           /\ Between(t, h) <= c
           /\ \A u \in 1 .. p : \/ u \in Elems(q) \/ u \in x
                                \/ u \in Elems(Out(c, t, d, Between(t, h)))
                                \/ u \in p - w + 1 .. p
<1>1. PICK n \in Nat : n = Between(t, h)
  BY Counters, CounterNat DEF Ring
<1>2. PICK g \in Nat :
        /\ g = p - (n + w)
        /\ \A u \in Nat : u \in Elems(Out(c, t, d, n)) <=> u \in g + 1 .. g + n
  BY <1>1, OutUnits
<1>3. w \in Nat /\ a \in Nat /\ a <= n /\ n + w <= c /\ p \in Nat /\ c \in Nat
      /\ Fates(q, x, g + a)
  BY <1>1, <1>2 DEF Ring, RingSize
<1>4. ASSUME NEW i \in 1 .. Len(q) PROVE q[i] \in (1 .. p) \ x
  <2>1. q[i] \in Nat /\ q[i] \in Elems(q)
    BY <1>3 DEF Fates, Elems
  <2> QED BY <1>2, <1>3, <2>1 DEF Fates
<1>5. ASSUME NEW u \in 1 .. p
      PROVE  \/ u \in Elems(q) \/ u \in x \/ u \in Elems(Out(c, t, d, n))
             \/ u \in p - w + 1 .. p
  BY <1>2, <1>3 DEF Fates
<1> QED BY <1>1, <1>3, <1>4, <1>5 DEF Fates

-----------------------------------------------------------------------------
(* The inductive invariant.  Every ring is as above with what the threads  *)
(* inside it have copied and not yet advanced past.                        *)

Ahead(s) == IF GuestAt("get", s) THEN guest.k
            ELSE IF WorkerAt("taken", s) \/ WorkerAt("drop", s) THEN worker.k ELSE 0

RingOK(s) ==
    /\ status[s] # "none" =>
         /\ Block <= cap[s] /\ Packet <= cap[s]
         /\ Ring(cap[s], head[s], tail[s], data[s], put[s], taken[s], dropped[s],
                 Copied(s), Ahead(s))
    /\ status[s] = "none" =>
         /\ head[s] = 0 /\ tail[s] = 0 /\ put[s] = 0
         /\ taken[s] = <<>> /\ dropped[s] = {}

RingsOK == /\ data = [s \in Stream |-> data[s]]
           /\ \A s \in Stream : RingOK(s)

(* The bound streams are live and their rings fit the device; no two       *)
(* places of the list hold the same stream.                                *)
Distinct(q) == \A i, j \in 1 .. Len(q) : q[i] = q[j] => i = j

BoundOK == /\ Distinct(dev.bound)
           /\ \A s \in Bound : status[s] = "live" /\ cap[s] >= DeviceSize

GuestOK ==
    /\ guest.pc \in {"join", "put", "publish", "get"} =>
         guest.s \in Stream /\ status[guest.s] = "live"
    /\ guest.pc = "join" => dev.bound = <<>>
    /\ guest.pc = "get" => dev.capture

(* Where the worker is inside a ring, and what it may still find in its    *)
(* copy of the list: a stream that was unbound since is among those left,  *)
(* or is the one the guest waits for the worker with.                      *)
Inside == {"taken", "drop", "dropped", "publish"}

WorkerOK ==
    /\ worker.pc = "none" => worker.snap = <<>>
    /\ worker.pc \in {"read", "taken"} => ~dev.capture
    /\ worker.pc \in {"room", "drop", "dropped", "publish", "more"} => dev.capture
    /\ worker.pc \in {"read", "room"} \cup Inside => worker.i >= 1
    /\ worker.pc \in Inside => worker.i <= Len(worker.snap)
    /\ \A s \in Elems(worker.snap) :
         /\ status[s] # "none" /\ cap[s] >= DeviceSize
         /\ s \in Bound \/ s \in left \/ (guest.pc = "join" /\ guest.s = s)

(* No two threads are on one side of a ring.                               *)
SidesOK == \A s \in Stream :
    /\ ~(GuestAt("get", s) /\ WorkerAt("drop", s))
    /\ ~(GuestAt("publish", s) /\ WorkerAt("publish", s))

ThreadsOK == BoundOK /\ GuestOK /\ WorkerOK /\ SidesOK

IInv == TypeOK /\ RingsOK /\ ThreadsOK /\ WorkerServesBound /\ SafeUse

-----------------------------------------------------------------------------
(* The initial states.                                                     *)

(* What the sequence operators say of the empty sequence.                  *)
LEMMA EmptySum ==
    /\ <<>> \in Seq(Stream) /\ <<>> \in Seq(Nat)
    /\ Elems(<<>>) = {} /\ Distinct(<<>>)
    /\ \A q : q \in Seq(Stream) => (q = <<>> <=> Len(q) = 0) /\ Len(q) \in Nat
BY EmptySeq DEF Elems, Distinct

(* The bound streams are the members of the device's list.                 *)
LEMMA BoundElems == Bound = Elems(dev.bound)
BY DEF Bound, Elems

(* The members of a sequence over S are in S.                              *)
LEMMA ElemsIn == ASSUME NEW S, NEW q \in Seq(S) PROVE Elems(q) \subseteq S
BY ElementOfSeq DEF Elems

(* The lists hold streams.                                                 *)
LEMMA ListsOfStreams ==
    ASSUME TypeOK
    PROVE  /\ dev.bound \in Seq(Stream) /\ Len(dev.bound) <= MaxStreams
           /\ worker.snap \in Seq(Stream)
           /\ Bound \subseteq Stream /\ Elems(worker.snap) \subseteq Stream
<1>1. dev.bound \in Seq(Stream) /\ Len(dev.bound) <= MaxStreams /\ worker.snap \in Seq(Stream)
  BY DEF TypeOK, Device, Work
<1> QED BY <1>1, ElemsIn, BoundElems

(* A device without streams and without a worker satisfies the invariant.  *)
LEMMA InitOK == Init => IInv
<1> SUFFICES ASSUME Init PROVE IInv
  OBVIOUS
<1>1. PICK capture \in BOOLEAN : dev = NewDevice(capture)
  BY DEF Init
<1>2. /\ dev.bound = <<>> /\ ~dev.thread /\ Bound = {}
      /\ guest.pc = "idle" /\ worker.pc = "none" /\ worker.snap = <<>>
  BY <1>1, EmptySum, BoundElems DEF Init, NewDevice, Idle, Resting
<1>3. TypeOK
  <2>1. 0 \in 0 .. CounterRange - 1 /\ MaxStreams \in Nat /\ Buffer \in Nat /\ MaxPackets \in Nat
    BY AudioAssumption
  <2> QED BY <1>1, <2>1, EmptySum DEF Init, TypeOK, Device, Call, Work, NewDevice, Idle, Resting
<1>4. RingsOK
  BY DEF Init, RingsOK, RingOK
<1>5. ThreadsOK
  BY <1>2, EmptySum DEF ThreadsOK, BoundOK, GuestOK, WorkerOK, SidesOK, GuestAt, WorkerAt, Inside
<1>6. WorkerServesBound /\ SafeUse
  BY <1>2 DEF WorkerServesBound, SafeUse, Init
<1> QED BY <1>3, <1>4, <1>5, <1>6 DEF IInv

-----------------------------------------------------------------------------
(* The list of bound streams.                                              *)

(* Taking an entry off a list without repetitions, the last one put in its *)
(* place, takes its stream off and no other.                               *)
LEMMA WithoutOne ==
    ASSUME NEW q \in Seq(Stream), NEW i \in 1 .. Len(q), Distinct(q)
    PROVE  /\ Without(q, i) \in Seq(Stream)
           /\ Len(Without(q, i)) = Len(q) - 1
           /\ Distinct(Without(q, i))
           /\ Elems(Without(q, i)) = Elems(q) \ {q[i]}
<1> DEFINE m == Len(q) - 1
           r == Without(q, i)
<1>1. m \in Nat /\ Len(q) = m + 1 /\ i \in 1 .. m + 1 /\ \A j \in 1 .. m + 1 : q[j] \in Stream
  OBVIOUS
<1>2. r = [j \in 1 .. m |-> IF j = i THEN q[m + 1] ELSE q[j]]
  BY <1>1 DEF Without
<1> HIDE DEF m, r
<1>3. /\ r \in Seq(Stream) /\ Len(r) = m
      /\ \A j \in 1 .. m : r[j] = IF j = i THEN q[m + 1] ELSE q[j]
  BY <1>1, <1>2
<1>4. Distinct(r)
  BY <1>1, <1>3 DEF Distinct
<1>5. ASSUME NEW x PROVE x \in Elems(r) <=> x \in Elems(q) /\ x # q[i]
  <2>1. ASSUME x \in Elems(r) PROVE x \in Elems(q) /\ x # q[i]
    <3>1. PICK j \in 1 .. m : x = r[j]
      BY <1>3, <2>1 DEF Elems
    <3>2. PICK k \in 1 .. m + 1 : x = q[k] /\ k # i
      BY <1>1, <1>3, <3>1
    <3> QED BY <1>1, <3>2 DEF Elems, Distinct
  <2>2. ASSUME x \in Elems(q), x # q[i] PROVE x \in Elems(r)
    <3>1. PICK k \in 1 .. m + 1 : x = q[k] /\ k # i
      BY <1>1, <2>2 DEF Elems
    <3>2. \E j \in 1 .. m : x = r[j]
      BY <1>1, <1>3, <3>1
    <3> QED BY <1>3, <3>2 DEF Elems
  <2> QED BY <2>1, <2>2
<1> QED BY <1>3, <1>4, <1>5 DEF m, r

(* Appending a stream that is not on the list keeps it free of             *)
(* repetitions.                                                            *)
LEMMA WithOneMore ==
    ASSUME NEW q \in Seq(Stream), NEW s \in Stream, s \notin Elems(q), Distinct(q)
    PROVE  /\ Append(q, s) \in Seq(Stream)
           /\ Len(Append(q, s)) = Len(q) + 1
           /\ Distinct(Append(q, s))
           /\ Elems(Append(q, s)) = Elems(q) \cup {s}
<1> DEFINE r == Append(q, s)
<1>1. /\ r \in Seq(Stream) /\ Len(r) = Len(q) + 1 /\ Len(q) \in Nat
      /\ \A i \in 1 .. Len(q) : r[i] = q[i]
      /\ r[Len(q) + 1] = s
  OBVIOUS
<1> HIDE DEF r
<1>2. \A i \in 1 .. Len(q) + 1 : i \in 1 .. Len(q) \/ i = Len(q) + 1
  BY <1>1
<1>3. Distinct(r)
  BY <1>1, <1>2 DEF Distinct, Elems
<1>4. Elems(r) = Elems(q) \cup {s}
  BY <1>1, <1>2 DEF Elems
<1> QED BY <1>1, <1>3, <1>4 DEF r

-----------------------------------------------------------------------------
(* The operators of the model in these terms.                              *)

(* The model's ring operators in terms of those of this module.            *)
LEMMA RingOperators ==
    ASSUME NEW s, NEW n
    PROVE  /\ Count(s) = Between(tail[s], head[s])
           /\ Queued(s, n) = Out(cap[s], tail[s], data[s], n)
BY DEF Count, Between, Queued, Out, Place, Mod

(* A published counter is the counter n units further.                     *)
LEMMA AdvancedIsAfter == ASSUME NEW c, NEW n PROVE Advanced(c, n) = After(c, n)
BY DEF Advanced, After, Mod

(* Room is what the units in the ring leave of its size.                   *)
LEMMA RoomLeft ==
    ASSUME NEW s, NEW w, NEW a,
           Ring(cap[s], head[s], tail[s], data[s], put[s], taken[s], dropped[s], w, a)
    PROVE  /\ cap[s] \in Nat \ {0} /\ Count(s) \in Nat
           /\ w \in Nat /\ a \in Nat /\ a <= Count(s) /\ Count(s) + w <= cap[s]
           /\ Room(s) = cap[s] - Count(s)
<1>1. PICK n \in Nat : n = Between(tail[s], head[s])
  BY Counters, CounterNat DEF Ring
<1>2. /\ w \in Nat /\ a \in Nat /\ n + w <= cap[s] /\ a <= n
      /\ cap[s] \in Nat \ {0} /\ cap[s] < CounterRange
  BY <1>1 DEF Ring, RingSize
<1>3. PICK m \in Int : m = cap[s] - n /\ 0 <= m /\ m < CounterRange
  BY <1>1, <1>2, RangeType
<1>4. Mod(m, CounterRange) = m
  BY <1>3, RangeType, ModNear
<1>5. Count(s) = n
  BY <1>1, RingOperators
<1>6. Room(s) = m
  BY <1>3, <1>4, <1>5 DEF Room, Mod
<1> QED BY <1>2, <1>3, <1>5, <1>6

(* Least is the smaller of two numbers.                                    *)
LEMMA LeastIs ==
    ASSUME NEW a \in Int, NEW b \in Int
    PROVE  Least(a, b) \in {a, b} /\ Least(a, b) <= a /\ Least(a, b) <= b
BY DEF Least

(* The ring of a stream that a step leaves alone.                          *)
LEMMA RingKept ==
    ASSUME NEW s, RingOK(s),
           status'[s] = status[s] \/ (status[s] # "none" /\ status'[s] # "none"),
           cap'[s] = cap[s], head'[s] = head[s], tail'[s] = tail[s], data'[s] = data[s],
           put'[s] = put[s], taken'[s] = taken[s], dropped'[s] = dropped[s],
           Copied(s)' = Copied(s), Ahead(s)' = Ahead(s)
    PROVE  RingOK(s)'
BY DEF RingOK

(* A thread that is not inside a ring, before or after.                    *)
LEMMA GuestOutside ==
    ASSUME worker' = worker,
           guest.pc \notin {"publish", "get"}, guest'.pc \notin {"publish", "get"}
    PROVE  \A s : Copied(s)' = Copied(s) /\ Ahead(s)' = Ahead(s)
BY DEF Copied, Ahead, GuestAt, WorkerAt

(* A worker that is not between copying and publishing, before or after    *)
(* the step, leaves what is copied and what is ahead as it was.            *)
LEMMA WorkerOutside ==
    ASSUME guest' = guest,
           worker.pc \notin {"taken", "drop", "publish"},
           worker'.pc \notin {"taken", "drop", "publish"}
    PROVE  \A s : Copied(s)' = Copied(s) /\ Ahead(s)' = Ahead(s)
BY DEF Copied, Ahead, GuestAt, WorkerAt

(* A step that changes no ring and no thread's place in one.               *)
LEMMA RingsKept ==
    ASSUME RingsOK, UNCHANGED <<ringVars, historyVars>>,
           \A s \in Stream : \/ status'[s] = status[s]
                             \/ status[s] # "none" /\ status'[s] # "none",
           \A s : Copied(s)' = Copied(s) /\ Ahead(s)' = Ahead(s)
    PROVE  RingsOK'
<1>1. ASSUME NEW s \in Stream PROVE RingOK(s)'
  <2>1. RingOK(s)
    BY DEF RingsOK
  <2> QED BY <2>1, RingKept DEF ringVars, historyVars
<1> QED BY <1>1 DEF RingsOK, ringVars

(* The worker inside a ring is at a stream of its list, which was created  *)
(* and whose ring fits the device.                                         *)
LEMMA WorkerPlace ==
    ASSUME IInv, worker.pc \in Inside \/ AtStream, worker.pc \in {"read", "room"} \cup Inside
    PROVE  /\ Current \in Stream /\ Current \in Elems(worker.snap)
           /\ status[Current] # "none" /\ cap[Current] >= DeviceSize
           /\ Current \in Bound \/ Current \in left \/ (guest.pc = "join" /\ guest.s = Current)
<1>1. worker.snap \in Seq(Stream) /\ worker.i \in Nat
  BY DEF IInv, TypeOK, Work
<1>2. worker.i \in 1 .. Len(worker.snap)
  BY <1>1 DEF IInv, ThreadsOK, WorkerOK, AtStream
<1>3. Current \in Stream /\ Current \in Elems(worker.snap)
  BY <1>1, <1>2 DEF Current, Elems
<1> QED BY <1>3 DEF IInv, ThreadsOK, WorkerOK

(* Nobody is inside the ring of a stream that does not exist yet or whose  *)
(* ring does not fit the device, while the guest is between calls.         *)
LEMMA NobodyInside ==
    ASSUME IInv, GuestIdle, NEW s, status[s] = "none" \/ ~(cap[s] >= DeviceSize)
    PROVE  Copied(s) = 0 /\ Ahead(s) = 0 /\ s \notin Elems(worker.snap)
<1>1. ~GuestAt("get", s) /\ ~GuestAt("publish", s)
  BY DEF GuestIdle, GuestAt
<1>2. s \notin Elems(worker.snap)
  BY DEF IInv, ThreadsOK, WorkerOK
<1>3. \A pc \in Inside : ~WorkerAt(pc, s)
  BY <1>2, WorkerPlace DEF WorkerAt, Current, Inside
<1> QED BY <1>1, <1>2, <1>3 DEF Copied, Ahead, Inside

-----------------------------------------------------------------------------
(* The steps.  First those that end in undefined behaviour, and those that *)
(* change the device only.                                                 *)

(* A step that only records an accident, of a kind that SafeUse admits in  *)
(* this state.                                                             *)
LEMMA BrokenOK ==
    ASSUME IInv, NEW how \in {"freed", "race", "late"}, Broken(how),
           how = "freed" => left # {}, how = "race" => dev.capture
    PROVE  IInv'
<1>1. TypeOK'
  BY DEF IInv, TypeOK, Broken, ringVars, historyVars
<1>2. RingsOK'
  BY DEF IInv, RingsOK, RingOK, Copied, Ahead, GuestAt, WorkerAt, Broken, ringVars, historyVars
<1>3. ThreadsOK'
  BY DEF IInv, ThreadsOK, BoundOK, GuestOK, WorkerOK, SidesOK, GuestAt, WorkerAt, Bound,
         Broken, ringVars
<1>4. WorkerServesBound' /\ SafeUse'
  BY DEF IInv, WorkerServesBound, SafeUse, Broken
<1> QED BY <1>1, <1>2, <1>3, <1>4 DEF IInv

(* A change of the device record that keeps its list, its worker and its   *)
(* direction keeps the invariant.                                          *)
LEMMA DeviceOK ==
    ASSUME IInv, UNCHANGED <<status, ringVars, guest, worker, historyVars, left, broken>>,
           dev' \in Device, dev'.capture = dev.capture, dev'.thread = dev.thread, dev'.bound = dev.bound
    PROVE  IInv'
<1>1. TypeOK'
  BY DEF IInv, TypeOK, ringVars, historyVars
<1>2. RingsOK'
  BY DEF IInv, RingsOK, RingOK, Copied, Ahead, GuestAt, WorkerAt, ringVars, historyVars
<1>3. ThreadsOK'
  BY DEF IInv, ThreadsOK, BoundOK, GuestOK, WorkerOK, SidesOK, GuestAt, WorkerAt, Bound, ringVars
<1>4. WorkerServesBound' /\ SafeUse'
  BY DEF IInv, WorkerServesBound, SafeUse
<1> QED BY <1>1, <1>2, <1>3, <1>4 DEF IInv

(* The endpoint's own steps, and the calls that pause and resume it.       *)
LEMMA DeviceSteps ==
    ASSUME IInv, Resume \/ Pause \/ Endpoint
    PROVE  IInv'
<1>1. dev \in Device
  BY DEF IInv, TypeOK
<1>2. dev' \in Device /\ dev'.capture = dev.capture /\ dev'.thread = dev.thread /\ dev'.bound = dev.bound
  <2>1. CASE Resume
    BY <1>1, <2>1 DEF Resume, Device
  <2>2. CASE Pause
    BY <1>1, <2>2 DEF Pause, Device
  <2>3. CASE Endpoint
    <3>1. dev.fill \in 0 .. Buffer /\ dev.seen \in 0 .. MaxPackets
      BY <1>1 DEF Device
    <3>2. Buffer \in Nat /\ MaxPackets \in Nat
      BY AudioAssumption
    <3>3. CASE dev.fill > 0 /\ dev' = [dev EXCEPT !.fill = @ - 1]
      <4>1. dev.fill - 1 \in 0 .. Buffer
        BY <3>1, <3>2, <3>3
      <4> QED BY <1>1, <3>3, <4>1 DEF Device
    <3>4. CASE /\ dev.fill < Buffer /\ dev.seen < MaxPackets
               /\ dev' = [dev EXCEPT !.fill = @ + 1, !.seen = @ + 1]
      <4>1. dev.fill + 1 \in 0 .. Buffer /\ dev.seen + 1 \in 0 .. MaxPackets
        BY <3>1, <3>2, <3>4
      <4> QED BY <1>1, <3>4, <4>1 DEF Device
    <3> QED BY <2>3, <3>3, <3>4 DEF Endpoint
  <2> QED BY <2>1, <2>2, <2>3
<1>3. UNCHANGED <<status, ringVars, guest, worker, historyVars, left, broken>>
  BY DEF Resume, Pause, Endpoint
<1> QED BY <1>2, <1>3, DeviceOK

(* The guest waiting to write, and closing the device.                     *)
LEMMA CloseDeviceOK ==
    ASSUME IInv, CloseDevice
    PROVE  IInv'
<1>1. TypeOK'
  BY DEF IInv, TypeOK, Call, CloseDevice, Idle, ringVars, historyVars
<1>2. RingsOK'
  BY GuestOutside, RingsKept DEF IInv, CloseDevice, GuestIdle, Idle
<1>3. ThreadsOK'
  BY DEF IInv, ThreadsOK, BoundOK, GuestOK, WorkerOK, SidesOK, GuestAt, WorkerAt, Bound,
         CloseDevice, GuestIdle, Idle, ringVars
<1>4. WorkerServesBound' /\ SafeUse'
  BY DEF IInv, WorkerServesBound, SafeUse, CloseDevice, GuestIdle, Idle
<1> QED BY <1>1, <1>2, <1>3, <1>4 DEF IInv

(* device_close after its last stream was unbound.                         *)
LEMMA CloseDoneOK ==
    ASSUME IInv, CloseDone
    PROVE  IInv'
<1>1. TypeOK'
  BY DEF IInv, TypeOK, Device, Call, CloseDone, Idle, ringVars, historyVars
<1>2. RingsOK'
  BY GuestOutside, RingsKept DEF IInv, CloseDone, Idle
<1>3. ThreadsOK'
  <2>1. dev'.bound = dev.bound /\ dev'.capture = dev.capture
    BY DEF CloseDone, IInv, TypeOK, Device
  <2> QED BY <2>1 DEF IInv, ThreadsOK, BoundOK, GuestOK, WorkerOK, SidesOK, GuestAt, WorkerAt,
                      Bound, CloseDone, Idle, ringVars
<1>4. WorkerServesBound' /\ SafeUse'
  BY DEF IInv, TypeOK, Device, WorkerServesBound, SafeUse, CloseDone, Idle
<1> QED BY <1>1, <1>2, <1>3, <1>4 DEF IInv

(* put_data begins.                                                        *)
LEMMA PutCallOK ==
    ASSUME IInv, NEW s \in Stream, NEW n \in Nat, PutCall(s, n)
    PROVE  IInv'
<1>1. TypeOK'
  BY DEF IInv, TypeOK, Call, PutCall, Idle, ringVars, historyVars
<1>2. RingsOK'
  BY GuestOutside, RingsKept DEF IInv, PutCall, GuestIdle, Idle
<1>3. ThreadsOK'
  BY DEF IInv, ThreadsOK, BoundOK, GuestOK, WorkerOK, SidesOK, GuestAt, WorkerAt, Bound,
         PutCall, GuestIdle, Idle, ringVars
<1>4. WorkerServesBound' /\ SafeUse'
  BY DEF IInv, WorkerServesBound, SafeUse, PutCall, GuestIdle, Idle
<1> QED BY <1>1, <1>2, <1>3, <1>4 DEF IInv

(* A stream is taken off the list.  The last one leaves the guest waiting  *)
(* for the worker; any other one may still be in the worker's copy.        *)
LEMMA UnbindEffect ==
    ASSUME IInv, guest.pc # "join", NEW s, NEW then \in {"idle", "free", "closing"},
           Unbind(s, then)
    PROVE  /\ s \in Bound /\ s \in Stream
           /\ dev' \in Device /\ dev'.thread = dev.thread /\ dev'.capture = dev.capture
           /\ dev.thread
           /\ Distinct(dev'.bound) /\ Bound' = Bound \ {s}
           /\ \/ /\ dev'.bound = <<>> /\ left' = left /\ status' = status
                 /\ guest' = [Idle EXCEPT !.pc = "join", !.s = s, !.then = then]
              \/ dev'.bound # <<>> /\ left' = left \cup {s} /\ Continue(then, s)
<1>1. dev \in Device /\ dev.bound \in Seq(Stream) /\ Len(dev.bound) <= MaxStreams
      /\ Distinct(dev.bound)
  BY DEF IInv, TypeOK, Device, ThreadsOK, BoundOK
<1>2. PICK i \in 1 .. Len(dev.bound) :
        /\ dev.bound[i] = s
        /\ LET rest == Without(dev.bound, i)
               stop == NoneLeft(rest) /\ dev.thread
           IN  /\ dev' = [dev EXCEPT !.bound = rest, !.stop = stop \/ @]
               /\ left' = IF NoneLeft(rest) THEN left ELSE left \cup {s}
               /\ IF stop THEN guest' = [Idle EXCEPT !.pc = "join", !.s = s, !.then = then]
                               /\ UNCHANGED status
                          ELSE Continue(then, s)
  BY DEF Unbind
<1>3. s \in Bound /\ s \in Stream /\ dev.bound # <<>>
  BY <1>1, <1>2, EmptySum DEF Bound
<1>4. dev.thread
  BY <1>3 DEF IInv, WorkerServesBound
<1>5. PICK rest : rest = Without(dev.bound, i)
  OBVIOUS
<1>6. /\ rest \in Seq(Stream) /\ Len(rest) <= MaxStreams
      /\ Distinct(rest) /\ Elems(rest) = Bound \ {s}
  <2>1. /\ rest \in Seq(Stream) /\ Len(rest) = Len(dev.bound) - 1
        /\ Distinct(rest) /\ Elems(rest) = Elems(dev.bound) \ {s}
    BY <1>1, <1>2, <1>5, WithoutOne
  <2>2. Len(dev.bound) \in Nat /\ MaxStreams \in Nat
    BY <1>1, AudioAssumption
  <2> QED BY <1>1, <2>1, <2>2, BoundElems
<1>7. PICK stop \in BOOLEAN : dev' = [dev EXCEPT !.bound = rest, !.stop = stop]
  <2>1. ((NoneLeft(rest) /\ dev.thread) \/ dev.stop) \in BOOLEAN
    BY <1>1 DEF Device
  <2> QED BY <1>2, <1>5, <2>1
<1>8. dev'.bound = rest /\ dev' \in Device /\ dev'.thread = dev.thread
      /\ dev'.capture = dev.capture
  BY <1>1, <1>6, <1>7 DEF Device
<1>9. Bound' = Bound \ {s}
  BY <1>6, <1>8 DEF Bound, Elems
<1>10. CASE rest = <<>>
  <2>1. NoneLeft(rest)
    BY <1>10 DEF NoneLeft
  <2>2. left' = left /\ status' = status
        /\ guest' = [Idle EXCEPT !.pc = "join", !.s = s, !.then = then]
    BY <1>2, <1>4, <1>5, <2>1
  <2> QED BY <1>3, <1>4, <1>6, <1>8, <1>9, <1>10, <2>2
<1>11. CASE rest # <<>>
  <2>1. ~NoneLeft(rest)
    BY <1>11 DEF NoneLeft
  <2>2. left' = left \cup {s} /\ Continue(then, s)
    BY <1>2, <1>5, <2>1
  <2> QED BY <1>3, <1>4, <1>6, <1>8, <1>9, <1>11, <2>2
<1> QED BY <1>10, <1>11

(* The guest goes on after a stream was unbound or a worker has ended.     *)
LEMMA ContinueEffect ==
    ASSUME IInv, NEW s, NEW then \in {"idle", "free", "closing"}, Continue(then, s)
    PROVE  /\ guest' \in Call /\ guest'.pc \in {"idle", "closing"}
           /\ status' \in [Stream -> {"none", "live", "freed"}]
           /\ \A r \in Stream : r # s => status'[r] = status[r]
           /\ s \in Stream => status'[s] = status[s] \/ status'[s] = "freed"
<1>1. status \in [Stream -> {"none", "live", "freed"}]
  BY DEF IInv, TypeOK
<1>2. /\ guest' = IF then = "closing" THEN [Idle EXCEPT !.pc = "closing"] ELSE Idle
      /\ status' = IF then = "free" THEN [status EXCEPT ![s] = "freed"] ELSE status
  BY DEF Continue
<1>3. guest' \in Call /\ guest'.pc \in {"idle", "closing"}
  BY <1>2 DEF Idle, Call
<1>4. CASE then = "free"
  <2>1. status' = [status EXCEPT ![s] = "freed"]
    BY <1>2, <1>4
  <2> QED BY <1>1, <1>3, <2>1
<1>5. CASE then # "free"
  BY <1>1, <1>2, <1>3, <1>5
<1> QED BY <1>4, <1>5

(* A stream leaves the list, in an unbind, a destroy or a close.           *)
LEMMA UnbindOK ==
    ASSUME IInv, guest.pc \in {"idle", "closing"}, NEW s,
           NEW then \in {"idle", "free", "closing"}, Unbind(s, then),
           UNCHANGED <<ringVars, worker, historyVars, broken>>
    PROVE  IInv'
<1>1. /\ s \in Bound /\ s \in Stream /\ dev.thread
      /\ dev' \in Device /\ dev'.thread = dev.thread /\ dev'.capture = dev.capture
      /\ Distinct(dev'.bound) /\ Bound' = Bound \ {s}
  BY Zenon, UnbindEffect
<1>2. status[s] = "live" /\ Bound \subseteq Stream
  BY <1>1, ListsOfStreams DEF IInv, ThreadsOK, BoundOK
<1>3. \/ /\ dev'.bound = <<>> /\ left' = left /\ status' = status
         /\ guest' = [Idle EXCEPT !.pc = "join", !.s = s, !.then = then]
      \/ dev'.bound # <<>> /\ left' = left \cup {s} /\ Continue(then, s)
  BY Zenon, UnbindEffect
<1>4. /\ guest' \in Call /\ guest'.pc \in {"idle", "closing", "join"}
      /\ status' \in [Stream -> {"none", "live", "freed"}]
      /\ \A r \in Stream : r # s => status'[r] = status[r]
      /\ status'[s] # "none"
      /\ left' \in SUBSET Stream /\ left \subseteq left'
      /\ guest'.pc = "join" =>
           /\ guest'.s = s /\ status'[s] = "live" /\ dev'.bound = <<>>
      /\ guest'.pc # "join" => s \in left' /\ dev'.bound # <<>>
  <2>1. CASE /\ dev'.bound = <<>> /\ left' = left /\ status' = status
             /\ guest' = [Idle EXCEPT !.pc = "join", !.s = s, !.then = then]
    BY <1>1, <1>2, <2>1 DEF IInv, TypeOK, Idle, Call
  <2>2. CASE dev'.bound # <<>> /\ left' = left \cup {s} /\ Continue(then, s)
    <3>1. /\ guest' \in Call /\ guest'.pc \in {"idle", "closing"}
          /\ status' \in [Stream -> {"none", "live", "freed"}]
          /\ \A r \in Stream : r # s => status'[r] = status[r]
          /\ status'[s] = status[s] \/ status'[s] = "freed"
      BY <1>1, <2>2, ContinueEffect
    <3> QED BY <1>1, <1>2, <2>2, <3>1 DEF IInv, TypeOK
  <2> QED BY <1>3, <2>1, <2>2
<1>5. TypeOK'
  BY <1>1, <1>2, <1>4 DEF IInv, TypeOK, ringVars, historyVars
<1>6. RingsOK'
  <2>1. \A r : Copied(r)' = Copied(r) /\ Ahead(r)' = Ahead(r)
    BY <1>4, GuestOutside
  <2>2. \A r \in Stream : \/ status'[r] = status[r]
                          \/ status[r] # "none" /\ status'[r] # "none"
    BY <1>2, <1>4
  <2> QED BY <2>1, <2>2, RingsKept DEF IInv
<1>7. ThreadsOK'
  <2>1. BoundOK'
    BY <1>1, <1>2, <1>4 DEF IInv, ThreadsOK, BoundOK, ringVars
  <2>2. GuestOK'
    BY <1>1, <1>4 DEF GuestOK
  <2>3. WorkerOK'
    <3>1. \A r \in Elems(worker.snap) : r \in Stream
      BY ListsOfStreams DEF IInv
    <3> QED BY <1>1, <1>4, <3>1 DEF IInv, ThreadsOK, WorkerOK, ringVars
  <2>4. SidesOK'
    BY <1>4 DEF SidesOK, GuestAt
  <2> QED BY <2>1, <2>2, <2>3, <2>4 DEF ThreadsOK
<1>8. WorkerServesBound'
  BY <1>1, <1>4 DEF IInv, WorkerServesBound
<1>9. SafeUse'
  BY <1>1, <1>4 DEF IInv, SafeUse
<1> QED BY <1>5, <1>6, <1>7, <1>8, <1>9 DEF IInv

(* The guest has waited for the worker to end.                             *)
LEMMA WorkerEndedOK ==
    ASSUME IInv, broken = "no", WorkerEnded
    PROVE  IInv'
<1>1. /\ guest.pc = "join" /\ worker.pc = "none" /\ left' = {}
      /\ dev' = [dev EXCEPT !.thread = FALSE]
      /\ Continue(guest.then, guest.s)
      /\ UNCHANGED <<ringVars, worker, historyVars, broken>>
  BY DEF WorkerEnded
<1>2. dev \in Device /\ guest \in Call /\ guest.s \in Stream /\ guest.then \in {"idle", "free", "closing"}
  BY <1>1 DEF IInv, TypeOK, Call, ThreadsOK, GuestOK
<1>3. /\ guest' \in Call /\ guest'.pc \in {"idle", "closing"}
      /\ status' \in [Stream -> {"none", "live", "freed"}]
      /\ \A r \in Stream : r # guest.s => status'[r] = status[r]
      /\ status'[guest.s] = status[guest.s] \/ status'[guest.s] = "freed"
  BY <1>1, <1>2, ContinueEffect
<1>4. /\ dev.bound = <<>> /\ dev'.bound = <<>> /\ worker.snap = <<>>
      /\ dev' \in Device /\ dev'.capture = dev.capture /\ ~dev'.thread
      /\ status[guest.s] = "live"
  BY <1>1, <1>2 DEF IInv, ThreadsOK, GuestOK, WorkerOK, Device
<1>5. TypeOK'
  BY <1>1, <1>3, <1>4 DEF IInv, TypeOK, ringVars, historyVars
<1>6. RingsOK'
  <2>1. \A r : Copied(r)' = Copied(r) /\ Ahead(r)' = Ahead(r)
    BY <1>1, <1>3, GuestOutside
  <2>2. \A r \in Stream : \/ status'[r] = status[r]
                          \/ status[r] # "none" /\ status'[r] # "none"
    BY <1>3, <1>4
  <2> QED BY <1>1, <2>1, <2>2, RingsKept DEF IInv
<1>7. ThreadsOK'
  <2>1. BoundOK'
    BY <1>4, EmptySum, BoundElems DEF BoundOK, Bound, Elems
  <2>2. GuestOK'
    BY <1>3 DEF GuestOK
  <2>3. WorkerOK'
    BY <1>1, <1>4, EmptySum DEF WorkerOK, Inside
  <2>4. SidesOK'
    BY <1>3 DEF SidesOK, GuestAt
  <2> QED BY <2>1, <2>2, <2>3, <2>4 DEF ThreadsOK
<1>8. WorkerServesBound' /\ SafeUse'
  BY <1>1, <1>4 DEF WorkerServesBound, SafeUse
<1> QED BY <1>5, <1>6, <1>7, <1>8 DEF IInv

(* A stream that is not bound is freed.                                    *)
LEMMA DestroyStreamOK ==
    ASSUME IInv, NEW s \in Stream, DestroyStream(s)
    PROVE  IInv'
<1>1. GuestIdle /\ status[s] = "live" /\ UNCHANGED <<ringVars, worker, historyVars, broken>>
  BY DEF DestroyStream
<1>2. CASE s \in Bound
  BY <1>1, <1>2, UnbindOK DEF DestroyStream, GuestIdle
<1>3. CASE s \notin Bound
  <2>1. Continue("free", s) /\ UNCHANGED <<dev, left>>
    BY <1>3 DEF DestroyStream
  <2>2. /\ guest' \in Call /\ guest'.pc \in {"idle", "closing"}
        /\ status' \in [Stream -> {"none", "live", "freed"}]
        /\ \A r \in Stream : r # s => status'[r] = status[r]
        /\ status'[s] = status[s] \/ status'[s] = "freed"
    BY <2>1, ContinueEffect
  <2>3. TypeOK'
    BY <1>1, <2>1, <2>2 DEF IInv, TypeOK, ringVars, historyVars
  <2>4. RingsOK'
    <3>1. \A r : Copied(r)' = Copied(r) /\ Ahead(r)' = Ahead(r)
      BY <1>1, <2>2, GuestOutside DEF GuestIdle
    <3>2. \A r \in Stream : \/ status'[r] = status[r]
                            \/ status[r] # "none" /\ status'[r] # "none"
      BY <1>1, <2>2
    <3> QED BY <1>1, <3>1, <3>2, RingsKept DEF IInv
  <2>5. ThreadsOK'
    <3>1. Bound' = Bound /\ dev' = dev /\ Bound \subseteq Stream
      BY <2>1, ListsOfStreams DEF Bound, IInv
    <3>2. BoundOK'
      BY <1>1, <1>3, <2>2, <3>1 DEF IInv, ThreadsOK, BoundOK, ringVars
    <3>3. GuestOK'
      BY <2>2 DEF GuestOK
    <3>4. WorkerOK'
      <4>1. \A r \in Elems(worker.snap) : r \in Stream
        BY ListsOfStreams DEF IInv
      <4> QED BY <1>1, <2>1, <2>2, <3>1, <4>1 DEF IInv, ThreadsOK, WorkerOK, GuestIdle, ringVars
    <3>5. SidesOK'
      BY <2>2 DEF SidesOK, GuestAt
    <3> QED BY <3>2, <3>3, <3>4, <3>5 DEF ThreadsOK
  <2>6. WorkerServesBound' /\ SafeUse'
    BY <1>1, <2>1, <2>2 DEF IInv, WorkerServesBound, SafeUse, GuestIdle
  <2> QED BY <2>3, <2>4, <2>5, <2>6 DEF IInv
<1> QED BY <1>2, <1>3

(* Every ring size the model uses divides the width of a counter and holds *)
(* a block and a packet.                                                   *)
LEMMA SizesFit ==
    /\ DeviceSize \in Counter /\ RingSize(DeviceSize)
    /\ Block <= DeviceSize /\ Packet <= DeviceSize
    /\ \A s \in Stream : /\ NewSize[s] \in Counter /\ RingSize(NewSize[s])
                         /\ Block <= NewSize[s] /\ Packet <= NewSize[s]
    /\ Block \in Nat \ {0} /\ Packet \in Nat \ {0} /\ MaxStreams \in Nat \ {0}
    /\ Buffer \in Nat /\ MaxPackets \in Nat
<1>1. /\ DeviceSize \in Nat /\ \A s \in Stream : NewSize[s] \in Nat
      /\ Block \in Nat \ {0} /\ Packet \in Nat \ {0} /\ MaxStreams \in Nat \ {0}
      /\ Buffer \in Nat /\ MaxPackets \in Nat
  BY AudioAssumption
<1>2. \A c \in {DeviceSize} \cup {NewSize[s] : s \in Stream} :
        c < CounterRange /\ Mod(CounterRange, c) = 0 /\ Block <= c /\ Packet <= c
  BY AudioAssumption DEF Mod
<1>3. ASSUME NEW c \in Nat, c < CounterRange, Mod(CounterRange, c) = 0, Block <= c, Packet <= c
      PROVE  c \in Counter /\ RingSize(c)
  BY <1>1, <1>3, RangeType DEF Counter, RingSize
<1> QED BY <1>1, <1>2, <1>3

(* Nothing was written to a ring, and nothing happened to it.              *)
LEMMA NoFates == Fates(<<>>, {}, 0)
BY EmptySum DEF Fates, Elems

(* A new stream has an empty ring.                                         *)
LEMMA CreateStreamOK ==
    ASSUME IInv, NEW s \in Stream, CreateStream(s)
    PROVE  IInv'
<1>1. /\ GuestIdle /\ status[s] = "none"
      /\ status' = [status EXCEPT ![s] = "live"]
      /\ cap' = [cap EXCEPT ![s] = NewSize[s]]
      /\ data' = [data EXCEPT ![s] = [p \in 0 .. NewSize[s] - 1 |-> 0]]
      /\ UNCHANGED <<dev, head, tail, guest, worker, historyVars, left, broken>>
  BY DEF CreateStream
<1>2. /\ status \in [Stream -> {"none", "live", "freed"}]
      /\ cap \in [Stream -> Counter]
      /\ data = [r \in Stream |-> data[r]]
      /\ NewSize[s] \in Counter /\ CounterRange \in Nat
  BY SizesFit, RangeType DEF IInv, TypeOK, RingsOK, Counter
<1>3. /\ status'[s] = "live" /\ cap'[s] = NewSize[s]
      /\ data'[s] = [p \in 0 .. NewSize[s] - 1 |-> 0]
      /\ \A r \in Stream : r # s => /\ status'[r] = status[r] /\ cap'[r] = cap[r]
                                    /\ data'[r] = data[r]
      /\ data' = [r \in Stream |-> data'[r]]
      /\ status' \in [Stream -> {"none", "live", "freed"}]
      /\ cap' \in [Stream -> Counter]
  BY <1>1, <1>2
<1>4. Copied(s) = 0 /\ Ahead(s) = 0 /\ s \notin Elems(worker.snap)
  BY <1>1, NobodyInside
<1>5. \A r : Copied(r)' = Copied(r) /\ Ahead(r)' = Ahead(r)
  BY <1>1 DEF Copied, Ahead, GuestAt, WorkerAt
<1>6. s \notin Bound
  BY <1>1 DEF IInv, ThreadsOK, BoundOK
<1>7. TypeOK'
  <2>1. data'[s] \in [0 .. cap'[s] - 1 -> Nat]
    BY <1>3
  <2>2. \A r \in Stream : data'[r] \in [0 .. cap'[r] - 1 -> Nat] \/ status'[r] = "none"
    BY <1>3, <2>1 DEF IInv, TypeOK
  <2> QED BY <1>1, <1>3, <2>2 DEF IInv, TypeOK, Counter, historyVars
<1>8. RingsOK'
  <2>1. RingOK(s)'
    <3>1. /\ head[s] = 0 /\ tail[s] = 0 /\ put[s] = 0
          /\ taken[s] = <<>> /\ dropped[s] = {}
      BY <1>1 DEF IInv, RingsOK, RingOK
    <3>2. Ring(NewSize[s], 0, 0, [p \in 0 .. NewSize[s] - 1 |-> 0], 0, <<>>, {}, 0, 0)
      BY SizesFit, NoFates, RingEmpty
    <3> QED BY <1>1, <1>3, <1>4, <1>5, <3>1, <3>2, SizesFit DEF RingOK, historyVars
  <2>2. ASSUME NEW r \in Stream, r # s PROVE RingOK(r)'
    <3>1. RingOK(r)
      BY DEF IInv, RingsOK
    <3> QED BY <1>1, <1>3, <1>5, <2>2, <3>1, RingKept DEF historyVars
  <2> QED BY <1>3, <2>1, <2>2 DEF RingsOK
<1>9. ThreadsOK'
  <2>1. Bound' = Bound /\ Bound \subseteq Stream /\ Elems(worker.snap) \subseteq Stream
    BY <1>1, ListsOfStreams DEF Bound, IInv
  <2>2. BoundOK'
    BY <1>1, <1>3, <1>6, <2>1 DEF IInv, ThreadsOK, BoundOK
  <2>3. GuestOK'
    BY <1>1 DEF GuestOK, GuestIdle
  <2>4. WorkerOK'
    BY <1>1, <1>3, <1>4, <2>1 DEF IInv, ThreadsOK, WorkerOK
  <2>5. SidesOK'
    BY <1>1 DEF SidesOK, GuestAt, GuestIdle
  <2> QED BY <2>2, <2>3, <2>4, <2>5 DEF ThreadsOK
<1>10. WorkerServesBound' /\ SafeUse'
  BY <1>1 DEF IInv, WorkerServesBound, SafeUse
<1> QED BY <1>7, <1>8, <1>9, <1>10 DEF IInv

(* The ring of a stream that is bound fits the device afterwards, and what *)
(* was in it, if it had to grow, is accounted for.                         *)
LEMMA FitOK ==
    ASSUME IInv, GuestIdle, NEW s \in Stream, status[s] = "live", Fit(s),
           UNCHANGED <<status, guest, put, taken>>,
           worker.pc \notin {"taken", "drop", "publish"} \/ worker' = worker,
           worker'.pc \notin {"taken", "drop", "publish"} \/ worker' = worker
    PROVE  /\ RingsOK'
           /\ cap' \in [Stream -> Counter] /\ cap'[s] >= DeviceSize
           /\ head' \in [Stream -> Counter] /\ tail' \in [Stream -> Counter]
           /\ \A r \in Stream : data'[r] \in [0 .. cap'[r] - 1 -> Nat] \/ status'[r] = "none"
           /\ \A r \in Stream : cap[r] >= DeviceSize => cap'[r] = cap[r]
           /\ dropped' \in [Stream -> SUBSET Nat]
<1>1. \A r : Copied(r)' = Copied(r) /\ Ahead(r)' = Ahead(r)
  <2>1. CASE worker' = worker
    BY <2>1, GuestOutside DEF GuestIdle
  <2>2. CASE worker' # worker
    BY <2>2, WorkerOutside
  <2> QED BY <2>1, <2>2
<1>2. /\ cap \in [Stream -> Counter] /\ head \in [Stream -> Counter] /\ tail \in [Stream -> Counter]
      /\ dropped \in [Stream -> SUBSET Nat] /\ data = [r \in Stream |-> data[r]]
      /\ \A r \in Stream : data[r] \in [0 .. cap[r] - 1 -> Nat] \/ status[r] = "none"
      /\ \A r \in Stream : RingOK(r)
  BY DEF IInv, TypeOK, Counter, RingsOK
<1>3. CASE cap[s] >= DeviceSize
  <2>1. UNCHANGED <<ringVars, dropped>>
    BY <1>3 DEF Fit
  <2>2. \A r \in Stream : RingOK(r)'
    BY <1>1, <1>2, <2>1, RingKept DEF ringVars
  <2> QED BY <1>2, <1>3, <2>1, <2>2 DEF RingsOK, ringVars
<1>4. CASE ~(cap[s] >= DeviceSize)
  <2> DEFINE q == Queued(s, Count(s))
  <2>1. /\ cap' = [cap EXCEPT ![s] = DeviceSize]
        /\ data' = [data EXCEPT ![s] = [p \in 0 .. DeviceSize - 1 |-> 0]]
        /\ head' = [head EXCEPT ![s] = 0] /\ tail' = [tail EXCEPT ![s] = 0]
        /\ dropped' = [dropped EXCEPT ![s] = @ \cup Elems(q)]
    BY <1>4 DEF Fit, Elems
  <2>2. /\ cap'[s] = DeviceSize /\ data'[s] = [p \in 0 .. DeviceSize - 1 |-> 0]
        /\ head'[s] = 0 /\ tail'[s] = 0 /\ dropped'[s] = dropped[s] \cup Elems(q)
        /\ data' = [r \in Stream |-> data'[r]]
        /\ \A r \in Stream : r # s =>
             /\ cap'[r] = cap[r] /\ data'[r] = data[r] /\ head'[r] = head[r]
             /\ tail'[r] = tail[r] /\ dropped'[r] = dropped[r]
    BY <1>2, <2>1
  <2>3. Copied(s) = 0 /\ Ahead(s) = 0
    BY <1>4, NobodyInside
  <2>4. Ring(cap[s], head[s], tail[s], data[s], put[s], taken[s], dropped[s], 0, 0)
    BY <1>2, <2>3 DEF RingOK
  <2>5. Fates(taken[s], dropped[s] \cup Elems(q), put[s]) /\ put[s] \in Nat
    <3>1. PICK n \in Nat : n = Between(tail[s], head[s]) /\ n \in 0 .. n
      BY <2>4, Counters, CounterNat DEF Ring
    <3>2. Fates(taken[s], dropped[s] \cup Elems(Out(cap[s], tail[s], data[s], n)),
                put[s] - (n + 0) + n)
      BY <2>4, <3>1, RingDrop
    <3>3. put[s] - (n + 0) + n = put[s] /\ put[s] \in Nat
      BY <2>4, <3>1 DEF Ring
    <3>4. q = Out(cap[s], tail[s], data[s], n)
      BY <3>1, RingOperators
    <3> QED BY <3>2, <3>3, <3>4
  <2>6. RingOK(s)'
    <3>1. Ring(DeviceSize, 0, 0, [p \in 0 .. DeviceSize - 1 |-> 0], put[s], taken[s],
               dropped[s] \cup Elems(q), 0, 0)
      BY <2>5, SizesFit, RingEmpty
    <3> QED BY <1>1, <2>2, <2>3, <3>1, SizesFit DEF RingOK
  <2>7. ASSUME NEW r \in Stream, r # s PROVE RingOK(r)'
    BY <1>1, <1>2, <2>2, <2>7, RingKept
  <2>8. RingsOK'
    BY <2>2, <2>6, <2>7 DEF RingsOK
  <2>9. Elems(q) \subseteq Nat
    BY <2>5 DEF Fates
  <2>10. 0 \in Counter /\ DeviceSize \in Counter /\ DeviceSize \in Nat
    BY SizesFit, RangeType DEF Counter
  <2>11. /\ cap' \in [Stream -> Counter]
         /\ head' \in [Stream -> Counter] /\ tail' \in [Stream -> Counter]
    BY <1>2, <2>1, <2>10
  <2>12. dropped' \in [Stream -> SUBSET Nat]
    BY <1>2, <2>1, <2>9
  <2>13. data'[s] \in [0 .. cap'[s] - 1 -> Nat]
    BY <2>2
  <2>14. \A r \in Stream : data'[r] \in [0 .. cap'[r] - 1 -> Nat] \/ status'[r] = "none"
    BY <1>2, <2>2, <2>13
  <2>15. cap'[s] >= DeviceSize /\ \A r \in Stream : cap[r] >= DeviceSize => cap'[r] = cap[r]
    BY <1>4, <2>2, <2>10
  <2> QED BY <2>8, <2>11, <2>12, <2>14, <2>15
<1> QED BY <1>3, <1>4

(* A stream is bound, its ring grown to the device's if it was smaller,    *)
(* and the first one brings the worker.                                    *)
LEMMA BindOK ==
    ASSUME IInv, NEW s \in Stream, BindMore(s) \/ BindFirst(s) \/ BindFails(s)
    PROVE  IInv'
<1>1. /\ GuestIdle /\ status[s] = "live" /\ s \notin Bound /\ Fit(s)
      /\ UNCHANGED <<status, guest, put, taken, left, broken>>
  BY DEF BindMore, BindFirst, BindFails, BindCall
<1>2. /\ dev \in Device /\ dev.bound \in Seq(Stream) /\ Len(dev.bound) <= MaxStreams
      /\ Distinct(dev.bound) /\ Len(dev.bound) \in Nat
      /\ dev.thread <=> dev.bound # <<>>
  BY <1>1, ListsOfStreams, EmptySum
     DEF IInv, ThreadsOK, BoundOK, TypeOK, GuestIdle, WorkerServesBound
<1>3. PICK more : /\ more = Append(dev.bound, s)
                  /\ more \in Seq(Stream) /\ Len(more) = Len(dev.bound) + 1
                  /\ Distinct(more) /\ Elems(more) = Bound \cup {s}
                  /\ more # <<>>
  <2>1. s \notin Elems(dev.bound)
    BY <1>1, BoundElems
  <2>2. /\ Append(dev.bound, s) \in Seq(Stream)
        /\ Len(Append(dev.bound, s)) = Len(dev.bound) + 1
        /\ Distinct(Append(dev.bound, s))
        /\ Elems(Append(dev.bound, s)) = Elems(dev.bound) \cup {s}
    BY <1>2, <2>1, WithOneMore
  <2> QED BY <1>2, <2>2, BoundElems, EmptySum
<1>4. /\ dev' \in Device /\ dev'.capture = dev.capture
      /\ \/ dev'.bound = dev.bound /\ dev'.thread = dev.thread
         \/ dev'.bound = more /\ dev'.thread
      /\ \/ worker' = worker
         \/ worker.pc = "none" /\ worker' = [Resting EXCEPT !.pc = "wait"] /\ dev'.thread
  <2>1. CASE BindMore(s)
    <3>1. dev.thread /\ worker' = worker
          /\ dev' = IF Len(dev.bound) >= MaxStreams THEN dev
                     ELSE [dev EXCEPT !.bound = Append(@, s)]
      BY <2>1 DEF BindMore
    <3>2. CASE Len(dev.bound) >= MaxStreams
      BY <1>2, <3>1, <3>2
    <3>3. CASE ~(Len(dev.bound) >= MaxStreams)
      <4>1. dev' = [dev EXCEPT !.bound = more] /\ Len(more) <= MaxStreams
        BY <1>2, <1>3, <3>1, <3>3, SizesFit
      <4> QED BY <1>2, <1>3, <3>1, <4>1 DEF Device
    <3> QED BY <3>2, <3>3
  <2>2. CASE BindFirst(s)
    <3>1. /\ ~dev.thread /\ worker' = [Resting EXCEPT !.pc = "wait"]
          /\ dev' = [dev EXCEPT !.bound = more, !.handle = TRUE, !.stop = FALSE,
                                !.thread = TRUE, !.started = TRUE,
                                !.running = dev.running \/ ~dev.started]
      BY <1>3, <2>2 DEF BindFirst
    <3>2. Len(more) <= MaxStreams
      BY <1>2, <1>3, <3>1, EmptySum, SizesFit
    <3>3. (dev.running \/ ~dev.started) \in BOOLEAN
      OBVIOUS
    <3>4. worker.pc = "none"
      BY <3>1 DEF IInv, WorkerServesBound
    <3> QED BY <1>2, <1>3, <3>1, <3>2, <3>3, <3>4 DEF Device
  <2>3. CASE BindFails(s)
    <3>1. worker' = worker /\ dev' \in {dev, [dev EXCEPT !.handle = TRUE]}
      BY <2>3 DEF BindFails
    <3> QED BY <1>2, <3>1 DEF Device
  <2> QED BY <2>1, <2>2, <2>3
<1>5. /\ (worker' \in Work /\ worker'.pc \in {"wait"}) \/ worker' = worker
      /\ worker' # worker => worker'.snap = <<>> /\ worker.pc = "none"
  BY <1>4, EmptySum DEF IInv, TypeOK, Work, Resting
<1>6. /\ RingsOK'
      /\ cap' \in [Stream -> Counter] /\ cap'[s] >= DeviceSize
      /\ head' \in [Stream -> Counter] /\ tail' \in [Stream -> Counter]
      /\ \A r \in Stream : data'[r] \in [0 .. cap'[r] - 1 -> Nat] \/ status'[r] = "none"
      /\ \A r \in Stream : cap[r] >= DeviceSize => cap'[r] = cap[r]
      /\ dropped' \in [Stream -> SUBSET Nat]
  BY <1>1, <1>5, FitOK
<1>7. /\ Distinct(dev'.bound) /\ Bound' \subseteq Bound \cup {s} /\ Bound \subseteq Bound'
      /\ Bound \subseteq Stream /\ Elems(worker.snap) \subseteq Stream
  <2>1. Bound' = Elems(dev'.bound)
    BY DEF Bound, Elems
  <2> QED BY <1>2, <1>3, <1>4, <2>1, BoundElems, ListsOfStreams DEF IInv
<1>8. TypeOK'
  BY <1>1, <1>4, <1>5, <1>6 DEF IInv, TypeOK, Counter
<1>9. ThreadsOK'
  <2>1. BoundOK'
    BY <1>1, <1>6, <1>7 DEF IInv, ThreadsOK, BoundOK
  <2>2. GuestOK'
    BY <1>1 DEF GuestOK, GuestIdle
  <2>3. WorkerOK'
    <3>1. CASE worker' = worker
      BY <1>1, <1>4, <1>6, <1>7, <3>1 DEF IInv, ThreadsOK, WorkerOK
    <3>2. CASE worker' # worker
      BY <1>5, <3>2, EmptySum DEF WorkerOK, Inside
    <3> QED BY <3>1, <3>2
  <2>4. SidesOK'
    BY <1>1 DEF SidesOK, GuestAt, GuestIdle
  <2> QED BY <2>1, <2>2, <2>3, <2>4 DEF ThreadsOK
<1>10. WorkerServesBound'
  BY <1>1, <1>2, <1>3, <1>4 DEF IInv, WorkerServesBound, GuestIdle
<1>11. SafeUse'
  BY <1>1, <1>4 DEF IInv, SafeUse
<1> QED BY <1>6, <1>8, <1>9, <1>10, <1>11 DEF IInv

(* The guest inside a ring.                                                *)

(* The ring of the stream a call is in the middle of.                      *)
LEMMA GuestRing ==
    ASSUME IInv, guest.pc \in {"put", "publish", "get"}
    PROVE  /\ guest \in Call /\ guest.s \in Stream /\ status[guest.s] = "live"
           /\ Ring(cap[guest.s], head[guest.s], tail[guest.s], data[guest.s], put[guest.s],
                   taken[guest.s], dropped[guest.s], Copied(guest.s), Ahead(guest.s))
<1>1. guest \in Call /\ guest.s \in Stream /\ status[guest.s] = "live"
  BY DEF IInv, TypeOK, ThreadsOK, GuestOK
<1> QED BY <1>1 DEF IInv, RingsOK, RingOK

(* Units are copied in behind those of the ring.                           *)
LEMMA CopyInOK ==
    ASSUME NEW s \in Stream, NEW b \in Nat, CopyIn(s, b), b <= Room(s),
           put \in [Stream -> Nat], data = [r \in Stream |-> data[r]],
           NEW a,
           Ring(cap[s], head[s], tail[s], data[s], put[s], taken[s], dropped[s], 0, a)
    PROVE  /\ Ring(cap[s], head[s], tail[s], data'[s], put'[s], taken[s], dropped[s], b, a)
           /\ data'[s] \in [0 .. cap[s] - 1 -> Nat]
           /\ data' = [r \in Stream |-> data'[r]] /\ put' \in [Stream -> Nat]
           /\ \A r \in Stream : r # s => data'[r] = data[r] /\ put'[r] = put[r]
<1>1. data' = [data EXCEPT ![s] =
         [p \in 0 .. cap[s] - 1 |->
            IF Offset(p, head[s], cap[s]) < b THEN put[s] + Offset(p, head[s], cap[s]) + 1
                                              ELSE data[s][p]]]
  BY DEF CopyIn, Offset, Mod
<1>2. data'[s] = [p \in 0 .. cap[s] - 1 |->
            IF Offset(p, head[s], cap[s]) < b THEN put[s] + Offset(p, head[s], cap[s]) + 1
                                              ELSE data[s][p]]
      /\ data' = [r \in Stream |-> data'[r]]
      /\ \A r \in Stream : r # s => data'[r] = data[r]
  BY <1>1
<1>3. put' = [put EXCEPT ![s] = put[s] + b]
  BY DEF CopyIn
<1>4. put'[s] = put[s] + b /\ put' \in [Stream -> Nat]
      /\ \A r \in Stream : r # s => put'[r] = put[r]
  BY <1>3
<1>5. b <= cap[s] - Between(tail[s], head[s])
  BY RoomLeft, RingOperators
<1>6. Ring(cap[s], head[s], tail[s], data'[s], put'[s], taken[s], dropped[s], b, a)
  BY <1>2, <1>4, <1>5, RingWrite
<1> QED BY <1>2, <1>4, <1>6 DEF Ring

(* put_data copies a block in behind head.                                 *)
LEMMA PutBlockOK ==
    ASSUME IInv, broken = "no", PutBlock
    PROVE  IInv'
<1>1. PICK s, b : s = guest.s /\ b = Least(guest.n, Block)
  OBVIOUS
<1>2. guest.pc = "put" /\ HasRoom(s, b)
  BY <1>1 DEF PutBlock
<1>3. guest \in Call /\ s \in Stream /\ status[s] = "live"
      /\ Ring(cap[s], head[s], tail[s], data[s], put[s], taken[s], dropped[s],
              Copied(s), Ahead(s))
  BY <1>1, <1>2, GuestRing
<1>4. CASE InsideWriting(s)
  <2>1. Broken("race")
    BY <1>1, <1>4 DEF PutBlock
  <2>2. worker.pc = "publish"
    BY <1>1, <1>2, <1>4 DEF InsideWriting, GuestAt, WorkerAt
  <2>3. dev.capture
    BY <2>2 DEF IInv, ThreadsOK, WorkerOK
  <2> QED BY <2>1, <2>3, BrokenOK
<1>5. CASE ~InsideWriting(s)
  <2>1. /\ CopyIn(s, b)
        /\ guest' = [guest EXCEPT !.pc = "publish", !.n = guest.n - b, !.k = b]
        /\ UNCHANGED <<dev, status, cap, head, tail, worker, taken, dropped, left, broken>>
    BY <1>1, <1>5 DEF PutBlock
  <2>2. b \in Nat /\ b <= guest.n /\ guest.n \in Nat /\ b <= Room(s)
    <3>1. guest.n \in Nat /\ Block \in Nat
      BY <1>3, SizesFit DEF Call
    <3>2. b \in Nat /\ b <= guest.n
      BY <1>1, <3>1, LeastIs
    <3>3. Room(s) >= b
      BY <1>2 DEF HasRoom
    <3>4. cap[s] \in Nat /\ Count(s) \in Nat /\ Room(s) = cap[s] - Count(s)
      BY <1>3, RoomLeft
    <3> QED BY <3>1, <3>2, <3>3, <3>4
  <2>3. guest' \in Call /\ guest'.pc = "publish" /\ guest'.s = s /\ guest'.k = b
    <3>1. guest.n - b \in Nat
      BY <2>2
    <3> QED BY <1>1, <1>3, <2>1, <2>2, <3>1 DEF Call
  <2>4. Copied(s) = 0 /\ Copied(s)' = b
    <3>1. ~GuestAt("publish", s) /\ ~WorkerAt("publish", s)
      BY <1>5 DEF InsideWriting
    <3> QED BY <2>3, <3>1 DEF Copied, GuestAt
  <2>5. \A r : Ahead(r)' = Ahead(r) /\ (r # s => Copied(r)' = Copied(r))
    BY <1>1, <1>2, <2>1, <2>3 DEF Ahead, Copied, GuestAt, WorkerAt
  <2>6. put \in [Stream -> Nat] /\ data = [r \in Stream |-> data[r]]
    BY DEF IInv, TypeOK, RingsOK
  <2>7. Ring(cap[s], head[s], tail[s], data[s], put[s], taken[s], dropped[s], 0, Ahead(s))
    BY <1>3, <2>4
  <2>8. /\ Ring(cap[s], head[s], tail[s], data'[s], put'[s], taken[s], dropped[s], b, Ahead(s))
        /\ data'[s] \in [0 .. cap[s] - 1 -> Nat]
        /\ data' = [r \in Stream |-> data'[r]] /\ put' \in [Stream -> Nat]
        /\ \A r \in Stream : r # s => data'[r] = data[r] /\ put'[r] = put[r]
    BY <1>3, <2>1, <2>2, <2>6, <2>7, CopyInOK
  <2>9. TypeOK'
    BY <2>1, <2>3, <2>8 DEF IInv, TypeOK
  <2>10. RingsOK'
    <3>1. RingOK(s)'
      <4>1. RingOK(s)
        BY <1>3 DEF IInv, RingsOK
      <4> QED BY <1>3, <2>1, <2>4, <2>5, <2>8, <4>1 DEF RingOK
    <3>2. ASSUME NEW r \in Stream, r # s PROVE RingOK(r)'
      <4>1. RingOK(r)
        BY DEF IInv, RingsOK
      <4> QED BY <2>1, <2>5, <2>8, <3>2, <4>1, RingKept
    <3> QED BY <2>8, <3>1, <3>2 DEF RingsOK
  <2>11. ThreadsOK'
    <3>1. BoundOK'
      BY <2>1 DEF IInv, ThreadsOK, BoundOK, Bound
    <3>2. GuestOK'
      BY <1>3, <2>1, <2>3 DEF GuestOK
    <3>3. WorkerOK'
      BY <1>2, <2>1, <2>3 DEF IInv, ThreadsOK, WorkerOK, Bound
    <3>4. SidesOK'
      BY <1>1, <1>5, <2>1, <2>3 DEF SidesOK, GuestAt, WorkerAt, InsideWriting
    <3> QED BY <3>1, <3>2, <3>3, <3>4 DEF ThreadsOK
  <2>12. WorkerServesBound' /\ SafeUse'
    BY <1>2, <2>1, <2>3 DEF IInv, WorkerServesBound, SafeUse
  <2> QED BY <2>9, <2>10, <2>11, <2>12 DEF IInv
<1> QED BY <1>4, <1>5

(* The guest leaves the ring: nothing but a counter of it moves.           *)
LEMMA GuestLeaves ==
    ASSUME IInv, guest.pc \in {"publish", "get"}, NEW s \in Stream, s = guest.s,
           UNCHANGED <<dev, status, cap, data, worker, historyVars, left, broken>>,
           head' \in [Stream -> Counter], tail' \in [Stream -> Counter],
           \A r \in Stream : r # s => head'[r] = head[r] /\ tail'[r] = tail[r],
           guest' \in Call, guest'.pc \in {"idle", "put"},
           guest'.pc = "put" => guest'.s = s,
           Ring(cap[s], head'[s], tail'[s], data[s], put[s], taken[s], dropped[s],
                Copied(s)', Ahead(s)')
    PROVE  IInv'
<1>1. status[s] = "live"
  BY GuestRing
<1>2. TypeOK'
  BY DEF IInv, TypeOK, Counter, historyVars
<1>3. RingsOK'
  <2>1. \A r \in Stream : RingOK(r)
    BY DEF IInv, RingsOK
  <2>2. RingOK(s)'
    BY <1>1, <2>1 DEF RingOK, historyVars
  <2>3. ASSUME NEW r \in Stream, r # s PROVE RingOK(r)'
    <3>1. Copied(r)' = Copied(r) /\ Ahead(r)' = Ahead(r)
      BY <1>1, <2>3 DEF Copied, Ahead, GuestAt, WorkerAt
    <3> QED BY <1>1, <2>1, <2>3, <3>1, RingKept DEF historyVars
  <2> QED BY <2>2, <2>3 DEF IInv, RingsOK
<1>4. ThreadsOK'
  <2>1. BoundOK'
    BY DEF IInv, ThreadsOK, BoundOK, Bound
  <2>2. GuestOK'
    BY <1>1 DEF GuestOK
  <2>3. WorkerOK'
    BY DEF IInv, ThreadsOK, WorkerOK, Bound
  <2>4. SidesOK'
    BY DEF SidesOK, GuestAt
  <2> QED BY <2>1, <2>2, <2>3, <2>4 DEF ThreadsOK
<1>5. WorkerServesBound' /\ SafeUse'
  BY DEF IInv, WorkerServesBound, SafeUse
<1> QED BY <1>2, <1>3, <1>4, <1>5 DEF IInv

(* put_data publishes what it copied.                                      *)
LEMMA PutPublishOK ==
    ASSUME IInv, PutPublish
    PROVE  IInv'
<1>1. PICK s, k : s = guest.s /\ k = guest.k
  OBVIOUS
<1>2. /\ guest.pc = "publish" /\ head' = [head EXCEPT ![s] = After(head[s], k)]
      /\ guest' = IF guest.n = 0 THEN Idle ELSE [guest EXCEPT !.pc = "put", !.k = 0]
      /\ UNCHANGED <<dev, status, cap, tail, data, worker, historyVars, left, broken>>
  BY <1>1, AdvancedIsAfter DEF PutPublish
<1>3. guest \in Call /\ s \in Stream
      /\ Ring(cap[s], head[s], tail[s], data[s], put[s], taken[s], dropped[s],
              Copied(s), Ahead(s))
  BY <1>1, <1>2, GuestRing
<1>4. guest' \in Call /\ guest'.pc \in {"idle", "put"} /\ (guest'.pc = "put" => guest'.s = s)
  BY <1>1, <1>2, <1>3 DEF Call, Idle
<1>5. Copied(s) = k /\ Copied(s)' = 0 /\ Ahead(s)' = Ahead(s)
  <2>1. GuestAt("publish", s) /\ ~WorkerAt("publish", s)
    BY <1>1, <1>2, <1>3 DEF IInv, ThreadsOK, SidesOK, GuestAt
  <2> QED BY <1>1, <1>2, <1>4, <2>1 DEF Copied, Ahead, GuestAt, WorkerAt
<1>6. Ring(cap[s], After(head[s], k), tail[s], data[s], put[s], taken[s], dropped[s],
           0, Ahead(s))
  BY <1>3, <1>5, RingPublish
<1>7. /\ head \in [Stream -> Counter] /\ tail \in [Stream -> Counter]
      /\ After(head[s], k) \in Counter
  BY <1>6 DEF IInv, TypeOK, Counter, Ring
<1>8. /\ head' \in [Stream -> Counter] /\ tail' = tail /\ head'[s] = After(head[s], k)
      /\ \A r \in Stream : r # s => head'[r] = head[r]
  BY <1>2, <1>3, <1>7
<1> QED BY <1>1, <1>2, <1>3, <1>4, <1>5, <1>6, <1>7, <1>8, GuestLeaves

(* get_data frees the room of what it copied out.                          *)
LEMMA GetAdvanceOK ==
    ASSUME IInv, GetAdvance
    PROVE  IInv'
<1>1. PICK s, k : s = guest.s /\ k = guest.k
  OBVIOUS
<1>2. /\ guest.pc = "get" /\ tail' = [tail EXCEPT ![s] = After(tail[s], k)]
      /\ guest' = Idle
      /\ UNCHANGED <<dev, status, cap, head, data, worker, historyVars, left, broken>>
  BY <1>1, AdvancedIsAfter DEF GetAdvance
<1>3. guest \in Call /\ s \in Stream
      /\ Ring(cap[s], head[s], tail[s], data[s], put[s], taken[s], dropped[s],
              Copied(s), Ahead(s))
  BY <1>1, <1>2, GuestRing
<1>4. guest' \in Call /\ guest'.pc = "idle"
  BY <1>2 DEF Call, Idle
<1>5. Ahead(s) = k /\ Ahead(s)' = 0 /\ Copied(s)' = Copied(s)
  <2>1. GuestAt("get", s) /\ ~WorkerAt("drop", s) /\ ~WorkerAt("taken", s)
    BY <1>1, <1>2, <1>3 DEF IInv, ThreadsOK, SidesOK, GuestOK, WorkerOK, GuestAt, WorkerAt
  <2> QED BY <1>1, <1>2, <1>4, <2>1 DEF Copied, Ahead, GuestAt, WorkerAt
<1>6. Ring(cap[s], head[s], After(tail[s], k), data[s], put[s], taken[s], dropped[s],
           Copied(s), 0)
  BY <1>3, <1>5, RingAdvance
<1>7. /\ head \in [Stream -> Counter] /\ tail \in [Stream -> Counter]
      /\ After(tail[s], k) \in Counter
  BY <1>6 DEF IInv, TypeOK, Counter, Ring
<1>8. /\ tail' \in [Stream -> Counter] /\ head' = head /\ tail'[s] = After(tail[s], k)
      /\ \A r \in Stream : r # s => tail'[r] = tail[r]
  BY <1>2, <1>3, <1>7
<1> QED BY <1>1, <1>2, <1>3, <1>4, <1>5, <1>6, <1>7, <1>8, GuestLeaves

(* The next units of the ring are handed to the guest.                     *)
LEMMA GetCallOK ==
    ASSUME IInv, NEW s \in Stream, NEW n \in Nat, GetCall(s, n)
    PROVE  IInv'
<1>1. PICK k : k = Least(n, Count(s))
  OBVIOUS
<1>2. GuestIdle /\ status[s] = "live" /\ s \in Bound /\ dev.capture /\ k > 0
  BY <1>1 DEF GetCall
<1>3. CASE InsideReading(s)
  <2>1. Broken("race")
    BY <1>1, <1>3 DEF GetCall
  <2> QED BY <1>2, <2>1, BrokenOK
<1>4. CASE ~InsideReading(s)
  <2>1. /\ taken' = [taken EXCEPT ![s] = taken[s] \o Queued(s, k)]
        /\ guest' = [Idle EXCEPT !.pc = "get", !.s = s, !.k = k]
        /\ UNCHANGED <<dev, status, ringVars, worker, put, dropped, left, broken>>
    BY <1>1, <1>4 DEF GetCall
  <2>2. RingOK(s) /\ Ahead(s) = 0
    BY <1>2, <1>4 DEF IInv, RingsOK, Ahead, InsideReading
  <2>3. Ring(cap[s], head[s], tail[s], data[s], put[s], taken[s], dropped[s], Copied(s), 0)
    BY <1>2, <2>2 DEF RingOK
  <2>4. k \in 0 .. Between(tail[s], head[s]) /\ k \in Nat
    <3>1. PICK m \in Nat : m = Between(tail[s], head[s]) /\ m = Count(s)
      BY <2>3, Counters, CounterNat, RingOperators DEF Ring
    <3> QED BY <1>1, <3>1, LeastIs
  <2>5. guest' \in Call /\ guest'.pc = "get" /\ guest'.s = s /\ guest'.k = k
    BY <2>1, <2>4 DEF Call, Idle
  <2>6. Ahead(s)' = k /\ \A r : Copied(r)' = Copied(r) /\ (r # s => Ahead(r)' = Ahead(r))
    BY <1>2, <2>1, <2>5 DEF Ahead, Copied, GuestAt, WorkerAt, GuestIdle
  <2>7. Ring(cap[s], head[s], tail[s], data[s], put[s], taken[s] \o Queued(s, k), dropped[s],
             Copied(s), k)
    BY <2>3, <2>4, RingTake, RingOperators
  <2>8. taken[s] \o Queued(s, k) \in Seq(Nat)
    BY <2>7 DEF Ring, Fates
  <2>9. /\ taken' \in [Stream -> Seq(Nat)] /\ taken'[s] = taken[s] \o Queued(s, k)
        /\ \A r \in Stream : r # s => taken'[r] = taken[r]
    BY <2>1, <2>8 DEF IInv, TypeOK
  <2>10. TypeOK'
    BY <2>1, <2>5, <2>9 DEF IInv, TypeOK, ringVars
  <2>11. RingsOK'
    <3>1. RingOK(s)'
      BY <1>2, <2>1, <2>2, <2>6, <2>7, <2>9 DEF RingOK, ringVars
    <3>2. ASSUME NEW r \in Stream, r # s PROVE RingOK(r)'
      <4>1. RingOK(r)
        BY DEF IInv, RingsOK
      <4> QED BY <2>1, <2>6, <2>9, <3>2, <4>1, RingKept DEF ringVars
    <3> QED BY <2>1, <3>1, <3>2 DEF IInv, RingsOK, ringVars
  <2>12. ThreadsOK'
    <3>1. BoundOK'
      BY <2>1 DEF IInv, ThreadsOK, BoundOK, Bound, ringVars
    <3>2. GuestOK'
      BY <1>2, <2>1, <2>5 DEF GuestOK
    <3>3. WorkerOK'
      BY <1>2, <2>1, <2>5 DEF IInv, ThreadsOK, WorkerOK, Bound, GuestIdle, ringVars
    <3>4. SidesOK'
      BY <1>4, <2>1, <2>5 DEF SidesOK, GuestAt, WorkerAt, InsideReading
    <3> QED BY <3>1, <3>2, <3>3, <3>4 DEF ThreadsOK
  <2>13. WorkerServesBound' /\ SafeUse'
    BY <1>2, <2>1, <2>5 DEF IInv, WorkerServesBound, SafeUse, GuestIdle
  <2> QED BY <2>10, <2>11, <2>12, <2>13 DEF IInv
<1> QED BY <1>3, <1>4

-----------------------------------------------------------------------------
(* The worker between two rings.                                           *)

(* The worker goes to another point of its loop without touching a ring.   *)
LEMMA WorkerMoves ==
    ASSUME IInv, UNCHANGED <<status, ringVars, guest, historyVars, left, broken>>,
           dev' \in Device, dev'.capture = dev.capture, dev'.thread = dev.thread,
           dev'.bound = dev.bound,
           worker.pc \in {"wait", "read", "room", "more"}, worker' \in Work,
           \/ worker'.snap = <<>> /\ worker'.pc \in {"none", "wait"}
           \/ worker'.snap = <<>> /\ worker'.pc = "more" /\ dev.capture
           \/ /\ worker'.snap = dev.bound /\ worker'.i = 1
              /\ worker'.pc = IF dev.capture THEN "room" ELSE "read"
    PROVE  IInv'
<1>1. TypeOK'
  BY DEF IInv, TypeOK, ringVars, historyVars
<1>2. worker'.pc \in {"none", "wait", "read", "room", "more"}
  BY DEF IInv, TypeOK, Device
<1>3. RingsOK'
  BY <1>2, WorkerOutside, RingsKept DEF IInv
<1>4. ThreadsOK'
  <2>1. Bound' = Bound
    BY DEF Bound
  <2>2. BoundOK'
    BY <2>1 DEF IInv, ThreadsOK, BoundOK, ringVars
  <2>3. GuestOK'
    BY DEF IInv, ThreadsOK, GuestOK
  <2>4. WorkerOK'
    <3>1. Elems(worker'.snap) \subseteq Bound
      BY EmptySum, BoundElems
    <3>2. \A s \in Bound : status[s] # "none" /\ cap[s] >= DeviceSize
      BY DEF IInv, ThreadsOK, BoundOK
    <3> QED BY <1>2, <2>1, <3>1, <3>2 DEF WorkerOK, Inside, ringVars
  <2>5. SidesOK'
    BY <1>2 DEF SidesOK, WorkerAt
  <2> QED BY <2>2, <2>3, <2>4, <2>5 DEF ThreadsOK
<1>5. WorkerServesBound' /\ SafeUse'
  BY DEF IInv, WorkerServesBound, SafeUse
<1> QED BY <1>1, <1>3, <1>4, <1>5 DEF IInv

(* The worker's steps outside the rings: waking, waiting, stopping, the    *)
(* end of a packet.                                                        *)
LEMMA WorkerPassOK ==
    ASSUME IInv, Stop \/ Wake \/ Mixed \/ WakePacket \/ NoPacket \/ PacketDone
    PROVE  IInv'
<1>1. /\ dev \in Device /\ dev.fill \in 0 .. Buffer /\ worker \in Work /\ worker.n \in Nat
      /\ Buffer \in Nat /\ dev.bound \in Seq(Stream) /\ Packet \in Nat
  BY SizesFit DEF IInv, TypeOK, Device, Work
<1>2. /\ UNCHANGED <<status, ringVars, guest, historyVars, left, broken>>
      /\ worker.pc \in {"wait", "read", "room", "more"}
  BY DEF Stop, Wake, Mixed, WakePacket, NoPacket, PacketDone
<1>3. /\ dev' \in Device /\ dev'.capture = dev.capture /\ dev'.thread = dev.thread
      /\ dev'.bound = dev.bound
  <2>1. CASE Stop \/ Wake \/ WakePacket \/ NoPacket
    BY <1>1, <2>1 DEF Stop, Wake, WakePacket, NoPacket
  <2>2. CASE Mixed \/ PacketDone
    <3>1. PICK fill \in 0 .. Buffer : dev' = [dev EXCEPT !.fill = fill]
      <4>1. CASE Mixed
        <5>1. PICK fill \in {dev.fill, dev.fill + worker.n} :
                fill <= Buffer /\ dev' = [dev EXCEPT !.fill = fill]
          BY <4>1 DEF Mixed
        <5>2. fill \in 0 .. Buffer
          BY <1>1, <5>1
        <5> QED BY <5>1, <5>2
      <4>2. CASE PacketDone
        <5>1. (IF dev.fill > 0 THEN dev.fill - 1 ELSE 0) \in 0 .. Buffer
          BY <1>1
        <5> QED BY <4>2, <5>1 DEF PacketDone
      <4> QED BY <2>2, <4>1, <4>2
    <3> QED BY <1>1, <3>1 DEF Device
  <2> QED BY <2>1, <2>2
<1>4. /\ worker' \in Work
      /\ \/ worker'.snap = <<>> /\ worker'.pc \in {"none", "wait"}
         \/ worker'.snap = <<>> /\ worker'.pc = "more" /\ dev.capture
         \/ /\ worker'.snap = dev.bound /\ worker'.i = 1
            /\ worker'.pc = IF dev.capture THEN "room" ELSE "read"
  <2>1. CASE Stop \/ Mixed \/ NoPacket
    <3>1. worker' = Resting \/ worker' = [Resting EXCEPT !.pc = "wait"]
      BY <2>1 DEF Stop, Mixed, NoPacket
    <3>2. /\ Resting \in Work /\ [Resting EXCEPT !.pc = "wait"] \in Work
          /\ Resting.snap = <<>> /\ Resting.pc = "none"
          /\ [Resting EXCEPT !.pc = "wait"].snap = <<>>
          /\ [Resting EXCEPT !.pc = "wait"].pc = "wait"
      BY EmptySum DEF Resting, Work
    <3> QED BY <3>1, <3>2
  <2>2. CASE Wake
    <3>1. Buffer - dev.fill \in Nat
      BY <1>1
    <3> QED BY <1>1, <2>2, <3>1 DEF Wake, Pass, Work
  <2>3. CASE WakePacket
    BY <1>1, <2>3 DEF WakePacket, Pass, Work
  <2>4. CASE PacketDone
    <3>1. dev.capture
      BY <2>4 DEF PacketDone, IInv, ThreadsOK, WorkerOK
    <3> QED BY <2>4, <3>1, EmptySum DEF PacketDone, Resting, Work
  <2> QED BY <2>1, <2>2, <2>3, <2>4
<1> QED BY <1>2, <1>3, <1>4, WorkerMoves

(* A destroyed stream that the worker still holds was unbound while others *)
(* stayed bound: the bound ones are live, and so is the one the guest      *)
(* waits with.                                                             *)
LEMMA FreedOK ==
    ASSUME IInv, Freed
    PROVE  IInv'
<1>1. Current \in Bound \/ Current \in left \/ (guest.pc = "join" /\ guest.s = Current)
  BY WorkerPlace DEF Freed, Inside
<1>2. status[Current] = "freed" /\ Broken("freed")
  BY DEF Freed
<1>3. left # {}
  BY <1>1, <1>2 DEF IInv, ThreadsOK, BoundOK, GuestOK
<1> QED BY <1>2, <1>3, BrokenOK

-----------------------------------------------------------------------------
(* The worker inside the ring of stream s.                                 *)

(* The ring of the stream the worker is at.                                *)
LEMMA WorkerRing ==
    ASSUME IInv, NEW pc \in {"read", "room"} \cup Inside, Live(pc)
    PROVE  /\ worker \in Work /\ worker.snap \in Seq(Stream) /\ worker.i \in 1 .. Len(worker.snap)
           /\ Current \in Stream /\ status[Current] = "live" /\ RingOK(Current)
           /\ Ring(cap[Current], head[Current], tail[Current], data[Current], put[Current],
                   taken[Current], dropped[Current], Copied(Current), Ahead(Current))
<1>1. worker.pc = pc /\ AtStream /\ status[Current] = "live"
  BY DEF Live
<1>2. Current \in Stream
  BY <1>1, WorkerPlace
<1>3. worker \in Work /\ worker.snap \in Seq(Stream) /\ worker.i \in 1 .. Len(worker.snap)
  BY <1>1 DEF IInv, TypeOK, ThreadsOK, WorkerOK, AtStream, Work
<1> QED BY <1>1, <1>2, <1>3 DEF IInv, RingsOK, RingOK

(* A step of the worker in the ring of its current stream keeps the        *)
(* invariant when it keeps that ring's.                                    *)
LEMMA WorkerInRing ==
    ASSUME IInv, UNCHANGED <<dev, status, cap, guest, left, broken>>,
           NEW s \in Stream, s = Current, status[s] = "live",
           worker.pc \in {"read", "room"} \cup Inside,
           worker.i \in 1 .. Len(worker.snap),
           worker' \in Work, worker'.snap = worker.snap,
           \/ /\ worker'.pc = IF dev.capture THEN "room" ELSE "read"
              /\ worker'.i = worker.i + 1
           \/ /\ worker'.pc \in {"drop", "dropped", "publish"} /\ dev.capture
              /\ worker'.i = worker.i
           \/ worker'.pc = "taken" /\ ~dev.capture /\ worker'.i = worker.i,
           ~(GuestAt("get", s) /\ worker'.pc = "drop"),
           ~(GuestAt("publish", s) /\ worker'.pc = "publish"),
           head' \in [Stream -> Counter], tail' \in [Stream -> Counter],
           put' \in [Stream -> Nat], taken' \in [Stream -> Seq(Nat)],
           dropped' \in [Stream -> SUBSET Nat], data' = [r \in Stream |-> data'[r]],
           \A r \in Stream : r # s =>
             /\ head'[r] = head[r] /\ tail'[r] = tail[r] /\ data'[r] = data[r]
             /\ put'[r] = put[r] /\ taken'[r] = taken[r] /\ dropped'[r] = dropped[r],
           Ring(cap[s], head'[s], tail'[s], data'[s], put'[s], taken'[s], dropped'[s],
                Copied(s)', Ahead(s)')
    PROVE  IInv'
<1>1. TypeOK'
  <2>1. data'[s] \in [0 .. cap[s] - 1 -> Nat]
    BY DEF Ring
  <2>2. \A r \in Stream : data'[r] \in [0 .. cap'[r] - 1 -> Nat] \/ status'[r] = "none"
    BY <2>1 DEF IInv, TypeOK
  <2> QED BY <2>2 DEF IInv, TypeOK, Counter
<1>2. RingsOK'
  <2>1. \A r \in Stream : RingOK(r)
    BY DEF IInv, RingsOK
  <2>2. RingOK(s)'
    BY <2>1 DEF RingOK
  <2>3. ASSUME NEW r \in Stream, r # s PROVE RingOK(r)'
    <3>1. Copied(r)' = Copied(r) /\ Ahead(r)' = Ahead(r)
      BY <2>3 DEF Copied, Ahead, GuestAt, WorkerAt, Current
    <3> QED BY <2>1, <2>3, <3>1, RingKept
  <2> QED BY <2>2, <2>3 DEF RingsOK
<1>3. ThreadsOK'
  <2>1. BoundOK'
    BY DEF IInv, ThreadsOK, BoundOK, Bound
  <2>2. GuestOK'
    BY DEF IInv, ThreadsOK, GuestOK
  <2>3. WorkerOK'
    <3>1. worker'.i >= 1
      OBVIOUS
    <3>2. \A r \in Elems(worker'.snap) :
            /\ status'[r] # "none" /\ cap'[r] >= DeviceSize
            /\ r \in Bound' \/ r \in left' \/ (guest'.pc = "join" /\ guest'.s = r)
      BY DEF IInv, ThreadsOK, WorkerOK, Bound
    <3> QED BY <3>1, <3>2 DEF WorkerOK, Inside
  <2>4. SidesOK'
    BY DEF SidesOK, GuestAt, WorkerAt, Current
  <2> QED BY <2>1, <2>2, <2>3, <2>4 DEF ThreadsOK
<1>4. WorkerServesBound'
  BY DEF IInv, WorkerServesBound, Inside
<1>5. SafeUse'
  BY DEF IInv, SafeUse
<1> QED BY <1>1, <1>2, <1>3, <1>4, <1>5 DEF IInv

(* The place of the worker after a ring, and the types of the history.     *)
LEMMA AfterRing ==
    ASSUME IInv, worker' = NextStream
    PROVE  /\ worker' \in Work /\ worker'.snap = worker.snap /\ worker'.i = worker.i + 1
           /\ worker'.pc = IF dev.capture THEN "room" ELSE "read"
<1>1. worker \in Work /\ worker.i + 1 \in Nat
  BY DEF IInv, TypeOK, Work
<1>2. CASE dev.capture
  BY <1>1, <1>2 DEF NextStream, Work
<1>3. CASE ~dev.capture
  BY <1>1, <1>3 DEF NextStream, Work
<1> QED BY <1>2, <1>3

(* The parts of the invariant that are the types of the rings.             *)
LEMMA RingTypes ==
    ASSUME IInv
    PROVE  /\ head \in [Stream -> Counter] /\ tail \in [Stream -> Counter]
           /\ put \in [Stream -> Nat] /\ taken \in [Stream -> Seq(Nat)]
           /\ dropped \in [Stream -> SUBSET Nat] /\ data = [r \in Stream |-> data[r]]
BY DEF IInv, TypeOK, Counter, RingsOK

(* The worker copies units of a playing stream out of its ring.            *)
LEMMA ReadOK ==
    ASSUME IInv, Read
    PROVE  IInv'
<1>1. PICK s, k : s = Current /\ k = Taking(s)
  OBVIOUS
<1>2. /\ worker \in Work /\ worker.i \in 1 .. Len(worker.snap)
      /\ s \in Stream /\ status[s] = "live"
      /\ Ring(cap[s], head[s], tail[s], data[s], put[s], taken[s], dropped[s],
              Copied(s), Ahead(s))
      /\ worker.pc = "read" /\ ~dev.capture
  BY <1>1, WorkerRing DEF Read, Live, IInv, ThreadsOK, WorkerOK
<1>3. ~InsideReading(s)
  BY <1>2 DEF InsideReading, GuestAt, WorkerAt, IInv, ThreadsOK, GuestOK
<1>4. /\ taken' = [taken EXCEPT ![s] = taken[s] \o Queued(s, k)]
      /\ worker' = [worker EXCEPT !.pc = "taken", !.k = k]
      /\ UNCHANGED <<dev, status, ringVars, guest, put, dropped, left, broken>>
  BY <1>1, <1>3 DEF Read
<1>5. Ring(cap[s], head[s], tail[s], data[s], put[s], taken[s], dropped[s], Copied(s), 0)
  BY <1>2, <1>3 DEF Ahead, InsideReading
<1>6. k \in 0 .. Between(tail[s], head[s]) /\ k \in Nat
  <2>1. PICK m \in Nat : m = Between(tail[s], head[s]) /\ m = Count(s)
    BY <1>5, Counters, CounterNat, RingOperators DEF Ring
  <2>2. worker.n \in Nat
    BY <1>2 DEF Work
  <2> QED BY <1>1, <2>1, <2>2, LeastIs DEF Taking
<1>7. /\ worker' \in Work /\ worker'.snap = worker.snap /\ worker'.i = worker.i
      /\ worker'.pc = "taken" /\ worker'.k = k
  BY <1>2, <1>4, <1>6 DEF Work
<1>8. Copied(s)' = Copied(s) /\ Ahead(s)' = k
  BY Zenon, <1>1, <1>2, <1>3, <1>4, <1>7
     DEF Copied, Ahead, GuestAt, WorkerAt, InsideReading, Current
<1>9. Ring(cap[s], head[s], tail[s], data[s], put[s], taken[s] \o Queued(s, k), dropped[s],
           Copied(s), k)
  BY <1>5, <1>6, RingTake, RingOperators
<1>10. taken[s] \o Queued(s, k) \in Seq(Nat)
  BY <1>9 DEF Ring, Fates
<1>11. /\ taken' \in [Stream -> Seq(Nat)] /\ taken'[s] = taken[s] \o Queued(s, k)
       /\ \A r \in Stream : r # s => taken'[r] = taken[r]
  BY <1>2, <1>4, <1>10, RingTypes
<1> QED BY <1>1, <1>2, <1>4, <1>7, <1>8, <1>9, <1>11, RingTypes, WorkerInRing DEF ringVars

(* The worker decides which units of a full capture ring to drop.          *)
LEMMA MakeRoomOK ==
    ASSUME IInv, MakeRoom
    PROVE  IInv'
<1>1. PICK s, k : s = Current /\ k = Least(Packet - Room(s), Count(s))
  OBVIOUS
<1>2. /\ worker \in Work /\ worker.i \in 1 .. Len(worker.snap)
      /\ s \in Stream /\ status[s] = "live"
      /\ Ring(cap[s], head[s], tail[s], data[s], put[s], taken[s], dropped[s],
              Copied(s), Ahead(s))
      /\ worker.pc = "room" /\ dev.capture /\ Room(s) < Packet
  BY <1>1, WorkerRing DEF MakeRoom, Live, IInv, ThreadsOK, WorkerOK
<1>3. CASE InsideReading(s)
  <2>1. Broken("race")
    BY <1>1, <1>3 DEF MakeRoom
  <2> QED BY <1>2, <2>1, BrokenOK
<1>4. CASE ~InsideReading(s)
  <2> DEFINE q == Queued(s, k)
  <2>1. /\ dropped' = [dropped EXCEPT ![s] = dropped[s] \cup {q[j] : j \in 1 .. k}]
        /\ worker' = [worker EXCEPT !.pc = "drop", !.k = k]
        /\ UNCHANGED <<dev, status, ringVars, guest, put, taken, left, broken>>
    BY <1>1, <1>4 DEF MakeRoom
  <2>2. Ring(cap[s], head[s], tail[s], data[s], put[s], taken[s], dropped[s], Copied(s), 0)
    BY <1>2, <1>4 DEF Ahead, InsideReading
  <2>3. k \in 0 .. Between(tail[s], head[s]) /\ k \in Nat
    <3>1. PICK m \in Nat : m = Between(tail[s], head[s]) /\ m = Count(s)
      BY <2>2, Counters, CounterNat, RingOperators DEF Ring
    <3>2. cap[s] \in Nat /\ Room(s) = cap[s] - m
      BY <2>2, <3>1, RoomLeft
    <3>3. Packet - Room(s) \in Nat
      BY <1>2, <3>1, <3>2, SizesFit
    <3> QED BY <1>1, <3>1, <3>3, LeastIs
  <2>4. /\ worker' \in Work /\ worker'.snap = worker.snap /\ worker'.i = worker.i
        /\ worker'.pc = "drop" /\ worker'.k = k
    BY <1>2, <2>1, <2>3 DEF Work
  <2>5. Copied(s)' = Copied(s) /\ Ahead(s)' = k /\ ~GuestAt("get", s)
    BY <1>1, <1>2, <1>4, <2>1, <2>4
       DEF Copied, Ahead, GuestAt, WorkerAt, InsideReading, Current
  <2>6. q = Out(cap[s], tail[s], data[s], k)
    BY RingOperators
  <2> HIDE DEF q
  <2>7. {q[j] : j \in 1 .. k} = Elems(q)
    <3>1. Len(q) = k
      BY <2>2, <2>3, <2>6, OutUnits
    <3> QED BY <3>1 DEF Elems
  <2>8. Ring(cap[s], head[s], tail[s], data[s], put[s], taken[s], dropped[s] \cup Elems(q),
             Copied(s), k)
    BY <2>2, <2>3, <2>6, RingDrop
  <2>9. dropped[s] \cup Elems(q) \subseteq Nat
    BY <2>8 DEF Ring, Fates
  <2>10. /\ dropped' \in [Stream -> SUBSET Nat] /\ dropped'[s] = dropped[s] \cup Elems(q)
         /\ \A r \in Stream : r # s => dropped'[r] = dropped[r]
    BY <1>2, <2>1, <2>7, <2>9, RingTypes
  <2>11. Ring(cap[s], head'[s], tail'[s], data'[s], put'[s], taken'[s], dropped'[s],
              Copied(s)', Ahead(s)')
    BY <2>1, <2>5, <2>8, <2>10 DEF ringVars
  <2>12. /\ UNCHANGED <<dev, status, cap, guest, left, broken>>
         /\ head' = head /\ tail' = tail /\ data' = data /\ put' = put /\ taken' = taken
    BY <2>1 DEF ringVars
  <2> QED BY <1>1, <1>2, <2>4, <2>5, <2>10, <2>11, <2>12, RingTypes, WorkerInRing
<1> QED BY <1>3, <1>4

(* The tail moves past what the worker has read, to mix it or to drop it.  *)
LEMMA WorkerAdvancesOK ==
    ASSUME IInv, ReadAdvance \/ DropAdvance
    PROVE  IInv'
<1>1. PICK s, k : s = Current /\ k = worker.k
  OBVIOUS
<1>2. /\ worker \in Work /\ worker.i \in 1 .. Len(worker.snap)
      /\ s \in Stream /\ status[s] = "live"
      /\ Ring(cap[s], head[s], tail[s], data[s], put[s], taken[s], dropped[s],
              Copied(s), Ahead(s))
      /\ worker.pc \in {"taken", "drop"}
  BY <1>1, WorkerRing DEF ReadAdvance, DropAdvance, Live, Inside
<1>3. /\ tail' = [tail EXCEPT ![s] = After(tail[s], k)]
      /\ UNCHANGED <<dev, status, cap, head, data, guest, historyVars, left, broken>>
  BY <1>1, AdvancedIsAfter DEF ReadAdvance, DropAdvance
<1>4. Ahead(s) = k
  BY <1>1, <1>2 DEF Ahead, IInv, ThreadsOK, SidesOK, GuestOK, WorkerOK, GuestAt, WorkerAt, Current
<1>5. /\ worker' \in Work /\ worker'.snap = worker.snap
      /\ \/ /\ worker'.pc = IF dev.capture THEN "room" ELSE "read"
            /\ worker'.i = worker.i + 1
         \/ worker'.pc = "dropped" /\ dev.capture /\ worker'.i = worker.i
  <2>1. CASE ReadAdvance
    BY <2>1, AfterRing DEF ReadAdvance
  <2>2. CASE DropAdvance
    <3>1. worker' = [worker EXCEPT !.pc = "dropped", !.k = 0] /\ worker.pc = "drop"
      BY <2>2 DEF DropAdvance, Live
    <3>2. dev.capture
      BY <3>1 DEF IInv, ThreadsOK, WorkerOK
    <3> QED BY <1>2, <3>1, <3>2 DEF Work
  <2> QED BY <2>1, <2>2
<1>6. Copied(s)' = Copied(s) /\ Ahead(s)' = 0
  <2>1. ~GuestAt("get", s)
    BY <1>1, <1>2 DEF IInv, ThreadsOK, SidesOK, GuestOK, WorkerOK, GuestAt, WorkerAt, Current
  <2> QED BY <1>2, <1>3, <1>5, <2>1 DEF Copied, Ahead, GuestAt, WorkerAt
<1>7. Ring(cap[s], head[s], After(tail[s], k), data[s], put[s], taken[s], dropped[s],
           Copied(s), 0)
  BY <1>2, <1>4, RingAdvance
<1>8. After(tail[s], k) \in Counter
  BY <1>7 DEF Ring
<1>9. /\ tail' \in [Stream -> Counter] /\ tail'[s] = After(tail[s], k)
      /\ \A r \in Stream : r # s => tail'[r] = tail[r]
  BY <1>2, <1>3, <1>8, RingTypes
<1> QED BY <1>1, <1>2, <1>3, <1>5, <1>6, <1>7, <1>9, RingTypes, WorkerInRing
        DEF historyVars, Inside

(* The worker copies a captured packet in behind head.                     *)
LEMMA WritePacketOK ==
    ASSUME IInv, WritePacket
    PROVE  IInv'
<1>1. PICK s, k : s = Current /\ k = Least(Packet, Room(s))
  OBVIOUS
<1>2. /\ worker \in Work /\ worker.i \in 1 .. Len(worker.snap)
      /\ s \in Stream /\ status[s] = "live"
      /\ Ring(cap[s], head[s], tail[s], data[s], put[s], taken[s], dropped[s],
              Copied(s), Ahead(s))
      /\ worker.pc \in {"dropped", "room"} /\ dev.capture
  <2>1. Live("dropped") \/ Live("room")
    BY DEF WritePacket
  <2> QED BY <1>1, <2>1, WorkerRing DEF Live, Inside, IInv, ThreadsOK, WorkerOK
<1>3. CASE InsideWriting(s)
  <2>1. Broken("race")
    BY <1>1, <1>3 DEF WritePacket
  <2> QED BY <1>2, <2>1, BrokenOK
<1>4. CASE ~InsideWriting(s)
  <2>1. /\ CopyIn(s, k)
        /\ worker' = [worker EXCEPT !.pc = "publish", !.k = k]
        /\ UNCHANGED <<dev, status, cap, head, tail, guest, taken, dropped, left, broken>>
    BY <1>1, <1>4 DEF WritePacket
  <2>2. Ring(cap[s], head[s], tail[s], data[s], put[s], taken[s], dropped[s], 0, Ahead(s))
    BY <1>2, <1>4 DEF Copied, InsideWriting
  <2>3. k \in Nat /\ k <= Room(s)
    <3>1. PICK m \in Nat, c \in Nat : m = Count(s) /\ c = cap[s] /\ m <= c /\ Room(s) = c - m
      <4>1. /\ cap[s] \in Nat /\ Count(s) \in Nat /\ Count(s) + 0 <= cap[s]
            /\ Room(s) = cap[s] - Count(s)
        BY <2>2, RoomLeft
      <4> QED BY <4>1
    <3>2. Room(s) \in Nat
      BY <3>1
    <3> QED BY <1>1, <3>2, SizesFit, LeastIs
  <2>4. /\ worker' \in Work /\ worker'.snap = worker.snap /\ worker'.i = worker.i
        /\ worker'.pc = "publish" /\ worker'.k = k
    BY <1>2, <2>1, <2>3 DEF Work
  <2>5. Copied(s)' = k /\ Ahead(s)' = Ahead(s) /\ ~GuestAt("publish", s)
    BY <1>1, <1>2, <1>4, <2>1, <2>4
       DEF Copied, Ahead, GuestAt, WorkerAt, InsideWriting, Current
  <2>6. /\ Ring(cap[s], head[s], tail[s], data'[s], put'[s], taken[s], dropped[s], k, Ahead(s))
        /\ data' = [r \in Stream |-> data'[r]] /\ put' \in [Stream -> Nat]
        /\ \A r \in Stream : r # s => data'[r] = data[r] /\ put'[r] = put[r]
    BY <1>2, <2>1, <2>2, <2>3, RingTypes, CopyInOK
  <2> QED BY <1>1, <1>2, <2>1, <2>4, <2>5, <2>6, RingTypes, WorkerInRing DEF Inside
<1> QED BY <1>3, <1>4

(* The worker publishes a captured packet.                                 *)
LEMMA WritePublishOK ==
    ASSUME IInv, WritePublish
    PROVE  IInv'
<1>1. PICK s, k : s = Current /\ k = worker.k
  OBVIOUS
<1>2. /\ worker \in Work /\ worker.i \in 1 .. Len(worker.snap)
      /\ s \in Stream /\ status[s] = "live"
      /\ Ring(cap[s], head[s], tail[s], data[s], put[s], taken[s], dropped[s],
              Copied(s), Ahead(s))
      /\ worker.pc = "publish"
  BY <1>1, WorkerRing DEF WritePublish, Live, Inside
<1>3. /\ head' = [head EXCEPT ![s] = After(head[s], k)]
      /\ worker' = NextStream
      /\ UNCHANGED <<dev, status, cap, tail, data, guest, historyVars, left, broken>>
  BY <1>1, AdvancedIsAfter DEF WritePublish
<1>4. /\ worker' \in Work /\ worker'.snap = worker.snap /\ worker'.i = worker.i + 1
      /\ worker'.pc = IF dev.capture THEN "room" ELSE "read"
  BY <1>3, AfterRing
<1>5. Copied(s) = k /\ Copied(s)' = 0 /\ Ahead(s)' = Ahead(s)
  <2>1. WorkerAt("publish", s) /\ ~GuestAt("publish", s)
    BY <1>1, <1>2 DEF IInv, ThreadsOK, SidesOK, WorkerAt, Current
  <2> QED BY <1>1, <1>2, <1>3, <1>4, <2>1 DEF Copied, Ahead, GuestAt, WorkerAt
<1>6. Ring(cap[s], After(head[s], k), tail[s], data[s], put[s], taken[s], dropped[s],
           0, Ahead(s))
  BY <1>2, <1>5, RingPublish
<1>7. After(head[s], k) \in Counter
  BY <1>6 DEF Ring
<1>8. /\ head' \in [Stream -> Counter] /\ head'[s] = After(head[s], k)
      /\ \A r \in Stream : r # s => head'[r] = head[r]
  BY <1>2, <1>3, <1>7, RingTypes
<1> QED BY <1>1, <1>2, <1>3, <1>4, <1>5, <1>6, <1>8, RingTypes, WorkerInRing
        DEF historyVars, Inside

-----------------------------------------------------------------------------
(* The theorems.                                                           *)

(* No step of a call or of the worker breaks the invariant.                *)
LEMMA NextOK == IInv /\ [Next]_vars => IInv'
<1> SUFFICES ASSUME IInv, [Next]_vars PROVE IInv'
  OBVIOUS
<1>1. CASE UNCHANGED vars
  <2>1. /\ UNCHANGED <<status, ringVars, guest, worker, historyVars, left, broken>>
        /\ dev' = dev
    BY <1>1 DEF vars
  <2>2. dev \in Device
    BY DEF IInv, TypeOK
  <2> QED BY <2>1, <2>2, DeviceOK
<1>2. CASE broken = "no" /\ DeviceCall
  BY <1>2, DeviceSteps, CloseDeviceOK DEF DeviceCall
<1>3. CASE broken = "no" /\ CallStep
  <2>1. ASSUME CloseNext PROVE IInv'
    BY <2>1, UnbindOK DEF CloseNext
  <2>2. ASSUME WaitTimedOut PROVE IInv'
    BY <2>2, BrokenOK DEF WaitTimedOut
  <2> QED BY <1>3, <2>1, <2>2, PutBlockOK, PutPublishOK, GetAdvanceOK, CloseDoneOK, WorkerEndedOK
          DEF CallStep
<1>4. CASE broken = "no" /\ WorkerStep
  BY <1>4, WorkerPassOK, ReadOK, MakeRoomOK, WorkerAdvancesOK, WritePacketOK, WritePublishOK,
     FreedOK DEF WorkerStep
<1>5. CASE Endpoint
  BY <1>5, DeviceSteps
<1>6. ASSUME NEW s \in Stream, StreamCall(s) PROVE IInv'
  <2>1. ASSUME UnbindCall(s) PROVE IInv'
    BY <2>1, UnbindOK DEF UnbindCall, GuestIdle
  <2>2. ASSUME NEW n \in 1 .. MaxPut, PutCall(s, n) \/ GetCall(s, n) PROVE IInv'
    <3>1. n \in Nat
      BY AudioAssumption
    <3> QED BY <2>2, <3>1, PutCallOK, GetCallOK
  <2> QED BY <1>6, <2>1, <2>2, CreateStreamOK, DestroyStreamOK, BindOK DEF StreamCall
<1> QED BY <1>1, <1>2, <1>3, <1>4, <1>5, <1>6 DEF Next

(* The inductive invariant: types, the agreement of the device's list with *)
(* the streams and the worker's and the guest's own records, and for every *)
(* live stream the account of its ring.                                    *)
THEOREM Invariance == Spec => []IInv
BY InitOK, NextOK, PTL DEF Spec

(* Every variable keeps its range: the counters of a ring stay below their *)
(* width, no more streams are bound than the device has places for, and    *)
(* the endpoint is never over-filled.                                      *)
THEOREM TypeCorrect == Spec => []TypeOK
<1>1. IInv => TypeOK
  BY DEF IInv
<1> QED BY <1>1, Invariance, PTL

(* A worker is there while streams are bound and only then: starting it at *)
(* the first bind and ending it at the last unbind, whether that comes     *)
(* from an unbind, a destroyed stream or a closed device, leaves no other  *)
(* outcome.                                                                *)
THEOREM WorkerServes == Spec => []WorkerServesBound
<1>1. IInv => WorkerServesBound
  BY DEF IInv
<1> QED BY <1>1, Invariance, PTL

(* Freed memory is touched only after a stream was unbound while others    *)
(* stayed bound, and two threads meet on one side of a ring only in        *)
(* capture, whatever the sizes of the rings.                               *)
THEOREM UseIsSafe == Spec => []SafeUse
<1>1. IInv => SafeUse
  BY DEF IInv
<1> QED BY <1>1, Invariance, PTL

(* The account of the rings says that no unit is lost, doubled or          *)
(* reordered.                                                              *)
LEMMA RingsMean == IInv => UnitsKept
<1> SUFFICES ASSUME IInv PROVE UnitsKept
  OBVIOUS
<1>1. ASSUME NEW s \in Stream, status[s] = "none"
      PROVE  taken[s] = <<>>
  BY <1>1 DEF IInv, RingsOK, RingOK
<1>2. ASSUME NEW s \in Stream, status[s] # "none"
      PROVE  /\ \A i, j \in 1 .. Len(taken[s]) : i < j => taken[s][i] < taken[s][j]
             /\ \A i \in 1 .. Len(taken[s]) : taken[s][i] \in (1 .. put[s]) \ dropped[s]
             /\ Count(s) <= cap[s]
             /\ 1 .. put[s] \subseteq Consumed(s) \cup dropped[s] \cup Waiting(s)
                                        \cup Publishing(s)
  <2>1. Ring(cap[s], head[s], tail[s], data[s], put[s], taken[s], dropped[s],
             Copied(s), Ahead(s))
    BY <1>2 DEF IInv, RingsOK, RingOK
  <2>2. /\ Consumed(s) = Elems(taken[s]) /\ Count(s) = Between(tail[s], head[s])
        /\ Waiting(s) = Elems(Out(cap[s], tail[s], data[s], Between(tail[s], head[s])))
        /\ Publishing(s) = put[s] - Copied(s) + 1 .. put[s]
    BY RingOperators DEF Consumed, Waiting, Publishing, Elems
  <2> QED BY <2>1, <2>2, RingMeans
<1>3. UnitsInOrder
  <2> SUFFICES ASSUME NEW s \in Stream
               PROVE /\ \A i, j \in 1 .. Len(taken[s]) : i < j => taken[s][i] < taken[s][j]
                     /\ \A i \in 1 .. Len(taken[s]) : taken[s][i] \in (1 .. put[s]) \ dropped[s]
    BY DEF UnitsInOrder
  <2>1. CASE status[s] = "none"
    BY <1>1, <2>1, EmptySum
  <2> QED BY <1>2, <2>1
<1> QED BY <1>2, <1>3 DEF UnitsKept, NothingLost

(* The units of a stream keep their order and their number, through every  *)
(* wrap of counters that wrap at any multiple of the ring's size, every    *)
(* growth of a ring and every capture that overflows.                      *)
THEOREM UnitsSurvive == Spec => []UnitsKept
BY RingsMean, Invariance, PTL
=============================================================================
