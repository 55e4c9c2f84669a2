----------------------------- MODULE RingIndex -----------------------------
(***************************************************************************)
(* Facts about a stream of positions laid out in a ring: position p is in  *)
(* slot p % C.  The task queue (nn20_mpsc_queue.h) and the read-ahead      *)
(* window (nn20clock_ringbuf.c) both stand on them.                        *)
(***************************************************************************)
EXTENDS Integers, TLAPS

(* Quotient and remainder.                                                 *)
LEMMA DivMod ==
    ASSUME NEW C \in Nat \ {0}, NEW a \in Nat
    PROVE  /\ a = (C * (a \div C)) + (a % C)
           /\ a % C \in 0 .. C - 1
           /\ a \div C \in Nat
BY SMT

(* A positive multiple of C is no smaller than C.                          *)
LEMMA MultipleAtLeast ==
    ASSUME NEW C \in Nat \ {0}, NEW x \in Int, x > 0
    PROVE  C * x >= C
BY SMT

(* Two multiples of C less than C apart are the same.                      *)
LEMMA MultiplesApart ==
    ASSUME NEW C \in Nat \ {0}, NEW x \in Int, NEW y \in Int,
           (C * x) - (C * y) < C, (C * y) - (C * x) < C
    PROVE  x = y
<1>1. /\ C * (x - y) = (C * x) - (C * y)
      /\ C * (y - x) = (C * y) - (C * x)
  BY SMT
<1>2. CASE x - y > 0
  <2>1. C * (x - y) >= C  BY <1>2, MultipleAtLeast
  <2> QED  BY <2>1, <1>1
<1>3. CASE y - x > 0
  <2>1. C * (y - x) >= C  BY <1>3, MultipleAtLeast
  <2> QED  BY <2>1, <1>1
<1> QED  BY <1>2, <1>3

(* Two positions in one slot and less than a turn apart are one position.  *)
LEMMA SameSlot ==
    ASSUME NEW C \in Nat \ {0}, NEW a \in Nat, NEW b \in Nat,
           a % C = b % C, a < b + C, b < a + C
    PROVE  a = b
<1> DEFINE qa == a \div C
           qb == b \div C
<1>1. a = (C * qa) + (a % C) /\ qa \in Nat /\ a % C \in 0 .. C - 1  BY DivMod
<1>2. b = (C * qb) + (b % C) /\ qb \in Nat  BY DivMod
<1> HIDE DEF qa, qb
<1>3. C * qa \in Int /\ C * qb \in Int  BY <1>1, <1>2
<1>4. (C * qa) - (C * qb) < C /\ (C * qb) - (C * qa) < C
  BY <1>1, <1>2, <1>3
<1>5. qa = qb  BY <1>1, <1>2, <1>4, MultiplesApart
<1> QED  BY <1>1, <1>2, <1>5

(* A position is split into quotient and remainder in one way.             *)
LEMMA SplitOnce ==
    ASSUME NEW C \in Nat \ {0}, NEW a \in Nat, NEW q \in Int,
           NEW r \in 0 .. C - 1, a = (C * q) + r
    PROVE  a % C = r
<1> DEFINE p == a \div C
           s == a % C
<1>1. a = (C * p) + s /\ p \in Nat /\ s \in 0 .. C - 1  BY DivMod
<1> HIDE DEF p, s
<1>2. C * p \in Int /\ C * q \in Int  BY <1>1
<1>3. (C * p) - (C * q) < C /\ (C * q) - (C * p) < C
  BY <1>1, <1>2
<1>4. p = q  BY <1>1, <1>3, MultiplesApart
<1>5. s = r  BY <1>1, <1>2, <1>4
<1> QED  BY <1>5 DEF s

(* A turn later a position is in the same slot.                            *)
LEMMA NextTurn ==
    ASSUME NEW C \in Nat \ {0}, NEW a \in Nat
    PROVE  (a + C) % C = a % C
<1> DEFINE p == a \div C
           s == a % C
<1>1. a = (C * p) + s /\ p \in Nat /\ s \in 0 .. C - 1  BY DivMod
<1> HIDE DEF p
<1>2. C * (p + 1) = (C * p) + C  BY <1>1, SMT
<1> HIDE DEF s
<1>3. C * p \in Int  BY <1>1
<1>4. a + C = (C * (p + 1)) + s  BY <1>1, <1>2, <1>3
<1>5. (a + C) % C = s  BY <1>1, <1>4, SplitOnce
<1> QED  BY <1>5 DEF s

(* Short of the ring's end, k positions on is k slots on.                  *)
LEMMA SlotsOn ==
    ASSUME NEW C \in Nat \ {0}, NEW a \in Nat, NEW k \in Nat,
           (a % C) + k < C
    PROVE  (a + k) % C = (a % C) + k
<1> DEFINE p == a \div C
           s == a % C
<1>1. a = (C * p) + s /\ p \in Nat /\ s \in 0 .. C - 1  BY DivMod
<1>2. s + k \in 0 .. C - 1  BY <1>1
<1> HIDE DEF p, s
<1>3. C * p \in Int  BY <1>1
<1>4. a + k = (C * p) + (s + k)  BY <1>1, <1>3
<1>5. (a + k) % C = s + k  BY <1>1, <1>2, <1>4, SplitOnce
<1> QED  BY <1>5 DEF s
=============================================================================
