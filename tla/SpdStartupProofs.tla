-------------------------- MODULE SpdStartupProofs --------------------------
(***************************************************************************)
(* Proofs about SpdStartup.                                                *)
(*                                                                         *)
(* BSearchIn is a recursive function: that it is one (SearchSolves) and    *)
(* what it returns (BSearchSound, BSearchFinds) is shown by induction on   *)
(* the size of the interval, as the least size for which it would fail     *)
(* (NatAll).  What it finds has the key, in any array; it finds every key  *)
(* that is there if the array is sorted and the comparison is an order,    *)
(* which (int)(spi1 - spi2) is below 2^31 - 1 (CmpSmall).                  *)
(*                                                                         *)
(* The invariants: TypeInv; PolicyInv, for the first socket; TablesInv,    *)
(* for small SPIs, what the sort and sa_init leave; SocketInv, for small   *)
(* SPIs and one socket, the contents of the SAD and the cause of an exit.  *)
(***************************************************************************)
EXTENDS SpdStartup, FiniteSetTheorems, WellFoundedInduction, TLAPS

(* Every nonempty set of naturals has a least element, and so a set that   *)
(* holds 0 and every successor holds all of them.                          *)
LEMMA NatLeast ==
  ASSUME NEW S \in SUBSET Nat, S # {}
  PROVE  \E x \in S : \A y \in S : x <= y
<1>1. PICK x \in S : \A y \in S : ~(<<y, x>> \in OpToRel(<, Nat))
  BY WFMin, NatLessThanWellFounded, Zenon
<1>2. \A y \in S : ~(y < x)
  BY <1>1, Zenon DEF OpToRel
<1> QED
  BY <1>2

LEMMA NatAll ==
  ASSUME NEW S \in SUBSET Nat, 0 \in S, \A n \in S : n + 1 \in S
  PROVE  S = Nat
<1> SUFFICES ASSUME Nat \ S # {} PROVE FALSE
  OBVIOUS
<1>1. PICK x \in Nat \ S : \A y \in Nat \ S : x <= y
  BY NatLeast
<1>2. x - 1 \in Nat /\ x - 1 \notin Nat \ S
  BY <1>1
<1>3. (x - 1) + 1 \in S
  BY <1>2
<1> QED
  BY <1>1, <1>3
-----------------------------------------------------------------------------
(* The difference of two words. *)
LEMMA WordDiff ==
  ASSUME NEW M \in Nat \ {0}, NEW a \in 0 .. M - 1, NEW b \in 0 .. M - 1
  PROVE  (a - b) % M = IF a >= b THEN a - b ELSE a - b + M
<1>1. ASSUME NEW n \in 0 .. M - 1 PROVE n % M = n
  OBVIOUS
<1>2. CASE a >= b
  BY <1>2, <1>1
<1>3. CASE a < b
  <2>1. a - b + M \in 0 .. M - 1
    BY <1>3
  <2> QED
    BY <1>3, <2>1
<1> QED
  BY <1>2, <1>3

LEMMA CmpZero ==
  ASSUME NEW a \in Spi, NEW b \in Spi
  PROVE  Cmp(a, b) \in Int /\ (Cmp(a, b) = 0 <=> a = b)
<1> DEFINE M == 2 * HALF
<1>1. HALF \in Nat \ {0} /\ M \in Nat \ {0} /\ a \in 0 .. M - 1 /\ b \in 0 .. M - 1
  BY SpdAssumption DEF Spi
<1>2. (a - b) % M = IF a >= b THEN a - b ELSE a - b + M
  BY <1>1, WordDiff
<1>3. Cmp(a, b) = IF (a - b) % M < HALF THEN (a - b) % M ELSE ((a - b) % M) - M
  BY DEF Cmp
<1> QED
  BY <1>1, <1>2, <1>3

(* The SPIs that sa_cmp and sp_cmp order as numbers, with the userdata of  *)
(* a bypass rule below all of them.                                        *)
Small == 0 .. HALF - 2 \cup {BYPASS}
Signed(k) == IF k = BYPASS THEN -1 ELSE k

LEMMA CmpSmall ==
  ASSUME NEW a \in Small, NEW b \in Small
  PROVE  /\ a \in Spi /\ b \in Spi
         /\ Signed(a) \in Int /\ Signed(b) \in Int
         /\ Cmp(a, b) = Signed(a) - Signed(b)
<1> DEFINE M == 2 * HALF
<1>1. /\ HALF \in Nat \ {0, 1} /\ M \in Nat \ {0} /\ BYPASS = M - 1
      /\ a \in 0 .. M - 1 /\ b \in 0 .. M - 1
  BY SpdAssumption DEF Small, BYPASS
<1>2. (a - b) % M = IF a >= b THEN a - b ELSE a - b + M
  BY <1>1, WordDiff
<1>3. Cmp(a, b) = IF (a - b) % M < HALF THEN (a - b) % M ELSE ((a - b) % M) - M
  BY DEF Cmp
<1>4. a \in 0 .. HALF - 2 \cup {M - 1} /\ b \in 0 .. HALF - 2 \cup {M - 1}
  BY <1>1 DEF Small
<1> QED
  BY <1>1, <1>2, <1>3, <1>4 DEF Signed, Spi

LEMMA SmallConsistent ==
  ASSUME NEW s, \A i \in DOMAIN s : s[i].key \in Small
  PROVE  Consistent(s)
<1> SUFFICES ASSUME NEW x \in Small, NEW y \in Small, NEW z \in Small
             PROVE  /\ Cmp(x, y) > 0 <=> Cmp(y, x) < 0
                    /\ Cmp(x, y) <= 0 /\ Cmp(y, z) <= 0 => Cmp(x, z) <= 0
  BY DEF Consistent
<1>1. /\ Signed(x) \in Int /\ Signed(y) \in Int /\ Signed(z) \in Int
      /\ Cmp(x, y) = Signed(x) - Signed(y) /\ Cmp(y, x) = Signed(y) - Signed(x)
      /\ Cmp(y, z) = Signed(y) - Signed(z) /\ Cmp(x, z) = Signed(x) - Signed(z)
  BY CmpSmall
<1> QED
  BY <1>1
-----------------------------------------------------------------------------
(* What bsearch does with an interval, given what it finds in the half it  *)
(* goes on with.                                                           *)
Half(s, key, x) ==
  IF Cmp(key, s[Probe(x) + 1].key) < 0 THEN <<x[1], Probe(x)>> ELSE <<Probe(x) + 1, x[2]>>

Find(s, key, g, x) ==
  IF x[1] >= x[2] THEN -1
  ELSE IF Cmp(key, s[Probe(x) + 1].key) = 0 THEN Probe(x)
  ELSE g[Half(s, key, x)]

LEMMA ProbeFacts ==
  ASSUME NEW R, NEW s \in Seq(R), NEW key, NEW x \in Intervals(s), x[1] < x[2]
  PROVE  /\ Probe(x) \in x[1] .. x[2] - 1 /\ Probe(x) + 1 \in 1 .. Len(s)
         /\ Half(s, key, x) \in Intervals(s)
         /\ Half(s, key, x)[2] - Half(s, key, x)[1] < x[2] - x[1]
<1>1. PICK l \in 0 .. Len(s), u \in 0 .. Len(s) : x = <<l, u>>
  BY DEF Intervals
<1>2. Len(s) \in Nat /\ x[1] = l /\ x[2] = u /\ l < u
  BY <1>1
<1>3. (l + u) \div 2 \in l .. u - 1
  BY <1>2
<1>4. Probe(x) \in l .. u - 1
  BY <1>2, <1>3 DEF Probe
<1>5. Half(s, key, x) \in {<<l, Probe(x)>>, <<Probe(x) + 1, u>>}
  BY <1>2 DEF Half
<1> QED
  BY <1>2, <1>4, <1>5 DEF Intervals

(* The recursion ends: intervals of every size are searched. *)
LEMMA SearchSolves ==
  ASSUME NEW R, NEW s \in Seq(R), NEW key
  PROVE  BSearchIn(s, key) = [x \in Intervals(s) |-> Find(s, key, BSearchIn(s, key), x)]
<1> DEFINE Size(x) == x[2] - x[1]
           Solves(g, d) == /\ DOMAIN g = Intervals(s) /\ g = [x \in Intervals(s) |-> g[x]]
                           /\ \A x \in Intervals(s) : Size(x) <= d => g[x] = Find(s, key, g, x)
           S == {d \in Nat : \E g : Solves(g, d)}
<1>1. \A x \in Intervals(s) : Size(x) \in Int /\ Size(x) <= Len(s) /\ x[1] \in Nat /\ x[2] \in Nat
  BY DEF Intervals
<1>2. 0 \in S
  <2> DEFINE g == [x \in Intervals(s) |-> -1]
  <2>1. \A x \in Intervals(s) : Size(x) <= 0 => g[x] = Find(s, key, g, x)
    <3> SUFFICES ASSUME NEW x \in Intervals(s), Size(x) <= 0 PROVE -1 = Find(s, key, g, x)
      OBVIOUS
    <3>1. x[1] >= x[2]
      BY <1>1
    <3> QED
      BY <3>1 DEF Find
  <2>2. Solves(g, 0)
    BY <2>1
  <2> HIDE DEF g, Solves
  <2> QED
    BY <2>2
<1>3. ASSUME NEW d \in S PROVE d + 1 \in S
  <2>1. PICK g : Solves(g, d)
    OBVIOUS
  <2> DEFINE h == [x \in Intervals(s) |-> IF Size(x) = d + 1 THEN Find(s, key, g, x) ELSE g[x]]
  <2>2. d \in Nat
    OBVIOUS
  <2>3. ASSUME NEW x \in Intervals(s), Size(x) <= d + 1
        PROVE  Find(s, key, h, x) = Find(s, key, g, x)
    <3>1. CASE x[1] >= x[2]
      BY <3>1 DEF Find
    <3>2. CASE x[1] < x[2]
      <4>1. Half(s, key, x) \in Intervals(s) /\ Size(Half(s, key, x)) < Size(x)
        BY <3>2, ProbeFacts
      <4>2. Size(Half(s, key, x)) # d + 1
        BY <1>1, <2>2, <2>3, <4>1
      <4>3. h[Half(s, key, x)] = g[Half(s, key, x)]
        BY <4>1, <4>2
      <4> HIDE DEF h
      <4> QED
        BY <4>3 DEF Find
    <3> QED
      BY <1>1, <3>1, <3>2
  <2>4. ASSUME NEW x \in Intervals(s), Size(x) <= d + 1
        PROVE  h[x] = Find(s, key, h, x)
    <3>1. CASE Size(x) = d + 1
      BY <2>3, <2>4, <3>1
    <3>2. CASE Size(x) # d + 1
      <4>1. Size(x) <= d
        BY <1>1, <2>2, <2>4, <3>2
      <4>2. h[x] = g[x] /\ g[x] = Find(s, key, g, x)
        BY <2>1, <3>2, <4>1
      <4> HIDE DEF h
      <4> QED
        BY <2>3, <2>4, <4>2
    <3> QED
      BY <3>1, <3>2
  <2>5. DOMAIN h = Intervals(s) /\ h = [x \in Intervals(s) |-> h[x]]
    OBVIOUS
  <2> HIDE DEF h
  <2>6. Solves(h, d + 1)
    BY <2>4, <2>5
  <2> HIDE DEF Solves
  <2> QED
    BY <2>2, <2>6
<1>4. S = Nat
  <2> HIDE DEF Solves
  <2>1. S \in SUBSET Nat
    OBVIOUS
  <2> HIDE DEF S
  <2> QED
    BY <1>2, <1>3, <2>1, NatAll
<1>5. PICK g : Solves(g, Len(s))
  <2>1. Len(s) \in Nat
    OBVIOUS
  <2>2. Len(s) \in S
    <3> HIDE DEF S
    <3> QED
      BY <1>4, <2>1
  <2> HIDE DEF Solves
  <2> QED
    BY <2>2
<1>6. g = [x \in Intervals(s) |-> Find(s, key, g, x)]
  BY <1>1, <1>5
<1>7. BSearchIn(s, key) = CHOOSE f : f = [x \in Intervals(s) |-> Find(s, key, f, x)]
  BY DEF BSearchIn, Find, Half
<1> QED
  BY <1>6, <1>7

(* What bsearch finds has the key. *)
LEMMA BSearchSound ==
  ASSUME NEW R, NEW s \in Seq(R), \A i \in 1 .. Len(s) : s[i].key \in Spi, NEW key \in Spi
  PROVE  \/ BSearch(s, key) = -1
         \/ BSearch(s, key) \in 0 .. Len(s) - 1 /\ s[BSearch(s, key) + 1].key = key
<1> DEFINE Size(x) == x[2] - x[1]
           f == BSearchIn(s, key)
           Right(x) == f[x] = -1 \/ (f[x] \in 0 .. Len(s) - 1 /\ s[f[x] + 1].key = key)
           S == {d \in Nat : \A x \in Intervals(s) : Size(x) <= d => Right(x)}
<1>1. \A x \in Intervals(s) : Size(x) \in Int /\ Size(x) <= Len(s) /\ x[1] \in Nat /\ x[2] \in Nat
  BY DEF Intervals
<1>2. \A x \in Intervals(s) : f[x] = Find(s, key, f, x)
  <2>1. f = [x \in Intervals(s) |-> Find(s, key, f, x)]
    BY SearchSolves
  <2> HIDE DEF f
  <2> QED
    BY <2>1
<1> HIDE DEF f
<1>3. 0 \in S
  <2> SUFFICES ASSUME NEW x \in Intervals(s), Size(x) <= 0 PROVE f[x] = -1
    OBVIOUS
  <2>1. x[1] >= x[2]
    BY <1>1
  <2> QED
    BY <1>2, <2>1 DEF Find
<1>4. ASSUME NEW d \in S PROVE d + 1 \in S
  <2> SUFFICES ASSUME NEW x \in Intervals(s), Size(x) <= d + 1 PROVE Right(x)
    OBVIOUS
  <2>1. CASE x[1] >= x[2]
    BY <1>2, <2>1 DEF Find
  <2>2. CASE x[1] < x[2]
    <3>1. /\ Probe(x) \in x[1] .. x[2] - 1 /\ Probe(x) + 1 \in 1 .. Len(s)
          /\ Half(s, key, x) \in Intervals(s) /\ Size(Half(s, key, x)) < Size(x)
      BY <2>2, ProbeFacts
    <3>2. CASE Cmp(key, s[Probe(x) + 1].key) = 0
      <4>1. s[Probe(x) + 1].key = key
        BY <3>1, <3>2, CmpZero
      <4>2. f[x] = Probe(x) /\ Probe(x) \in 0 .. Len(s) - 1
        BY <1>1, <1>2, <2>2, <3>1, <3>2, SMTT(30) DEF Find
      <4> QED
        BY <4>1, <4>2
    <3>3. CASE Cmp(key, s[Probe(x) + 1].key) # 0
      <4>1. f[x] = f[Half(s, key, x)]
        BY <1>1, <1>2, <2>2, <3>3 DEF Find
      <4>2. Size(Half(s, key, x)) <= d
        BY <1>1, <3>1
      <4>3. Right(Half(s, key, x))
        BY <3>1, <4>2
      <4> QED
        BY <4>1, <4>3
    <3> QED
      BY <3>2, <3>3
  <2> QED
    BY <1>1, <2>1, <2>2
<1>5. S = Nat
  <2>1. S \in SUBSET Nat
    OBVIOUS
  <2> HIDE DEF S
  <2> QED
    BY <1>3, <1>4, <2>1, NatAll
<1>6. <<0, Len(s)>> \in Intervals(s)
  BY DEF Intervals
<1>7. Right(<<0, Len(s)>>)
  <2>1. Len(s) \in S /\ Size(<<0, Len(s)>>) <= Len(s)
    <3>1. Len(s) \in Nat /\ Size(<<0, Len(s)>>) <= Len(s)
      OBVIOUS
    <3> HIDE DEF S, Size
    <3> QED
      BY <1>5, <3>1
  <2> HIDE DEF Right, Size
  <2> QED
    BY <1>6, <2>1
<1> QED
  BY <1>7 DEF BSearch, f

(* bsearch finds what is in an array sorted by an order. *)
LEMMA BSearchFinds ==
  ASSUME NEW R, NEW s \in Seq(R), \A i \in 1 .. Len(s) : s[i].key \in Small, Ordered(s),
         NEW j \in 1 .. Len(s)
  PROVE  BSearch(s, s[j].key) # -1
<1> DEFINE Size(x) == x[2] - x[1]
           key == s[j].key
           f == BSearchIn(s, key)
           Hit(x) == x[1] < j /\ j <= x[2] => f[x] # -1
           S == {d \in Nat : \A x \in Intervals(s) : Size(x) <= d => Hit(x)}
<1>1. \A x \in Intervals(s) : Size(x) \in Int /\ Size(x) <= Len(s) /\ x[1] \in Nat /\ x[2] \in Nat
  BY DEF Intervals
<1>2. \A x \in Intervals(s) : f[x] = Find(s, key, f, x)
  <2>1. f = [x \in Intervals(s) |-> Find(s, key, f, x)]
    BY SearchSolves
  <2> HIDE DEF f
  <2> QED
    BY <2>1
<1>3. key \in Small /\ Len(s) \in Nat /\ DOMAIN s = 1 .. Len(s)
  OBVIOUS
<1>4. \A i \in 1 .. Len(s) : /\ s[i].key \in Small /\ Signed(s[i].key) \in Int /\ Signed(key) \in Int
                             /\ Cmp(key, s[i].key) = Signed(key) - Signed(s[i].key)
  BY <1>3, CmpSmall
<1>5. \A i \in 1 .. Len(s) : /\ i < j => Signed(s[i].key) <= Signed(key)
                             /\ j < i => Signed(key) <= Signed(s[i].key)
  <2>1. \A i \in 1 .. Len(s) : /\ i < j => Cmp(s[i].key, key) <= 0
                               /\ j < i => Cmp(key, s[i].key) <= 0
    BY <1>3 DEF Ordered
  <2>2. \A i \in 1 .. Len(s) : Cmp(s[i].key, key) = Signed(s[i].key) - Signed(key)
    BY <1>3, CmpSmall
  <2> HIDE DEF key
  <2> QED
    BY <1>4, <2>1, <2>2
<1> HIDE DEF f, key
<1>6. 0 \in S
  BY <1>1, <1>3
<1>7. ASSUME NEW d \in S PROVE d + 1 \in S
  <2> SUFFICES ASSUME NEW x \in Intervals(s), Size(x) <= d + 1, x[1] < j, j <= x[2]
               PROVE  f[x] # -1
    OBVIOUS
  <2>1. x[1] < x[2] /\ x[1] \in Nat /\ x[2] \in Nat
    BY <1>1, <1>3
  <2>2. /\ Probe(x) \in x[1] .. x[2] - 1 /\ Probe(x) + 1 \in 1 .. Len(s)
        /\ Half(s, key, x) \in Intervals(s) /\ Size(Half(s, key, x)) < Size(x)
    BY <2>1, ProbeFacts
  <2>3. CASE Cmp(key, s[Probe(x) + 1].key) = 0
    <3>1. f[x] = Probe(x) /\ Probe(x) \in Nat
      BY <1>2, <2>1, <2>2, <2>3 DEF Find
    <3> QED
      BY <3>1
  <2>4. CASE Cmp(key, s[Probe(x) + 1].key) # 0
    <3>1. f[x] = f[Half(s, key, x)]
      BY <1>2, <2>1, <2>4 DEF Find
    <3>2. Size(Half(s, key, x)) <= d
      BY <1>1, <2>2
    <3>3. Probe(x) + 1 # j
      BY <1>4, <2>2, <2>4 DEF key
    <3>4. Half(s, key, x)[1] < j /\ j <= Half(s, key, x)[2]
      <4>1. CASE Cmp(key, s[Probe(x) + 1].key) < 0
        <5>1. Half(s, key, x) = <<x[1], Probe(x)>>
          BY <4>1 DEF Half
        <5>2. ~(Probe(x) + 1 < j)
          BY SMTT(30), <1>4, <1>5, <2>2, <4>1
        <5> QED
          BY <1>3, <2>1, <2>2, <3>3, <5>1, <5>2
      <4>2. CASE ~(Cmp(key, s[Probe(x) + 1].key) < 0)
        <5>1. Half(s, key, x) = <<Probe(x) + 1, x[2]>>
          BY <4>2 DEF Half
        <5>2. ~(j < Probe(x) + 1)
          BY SMTT(30), <1>4, <1>5, <2>2, <2>4, <4>2
        <5> QED
          BY <1>3, <2>1, <2>2, <3>3, <5>1, <5>2
      <4> QED
        BY <4>1, <4>2
    <3> QED
      BY <2>2, <3>1, <3>2, <3>4
  <2> QED
    BY <2>3, <2>4
<1>8. S = Nat
  <2>1. S \in SUBSET Nat
    OBVIOUS
  <2> HIDE DEF S
  <2> QED
    BY <1>6, <1>7, <2>1, NatAll
<1>9. <<0, Len(s)>> \in Intervals(s)
  BY DEF Intervals
<1>10. f[<<0, Len(s)>>] # -1
  <2>1. Len(s) \in S
    BY <1>3, <1>8
  <2>2. Size(<<0, Len(s)>>) <= Len(s) /\ <<0, Len(s)>>[1] < j /\ j <= <<0, Len(s)>>[2]
    BY <1>3
  <2> QED
    BY <1>9, <2>1, <2>2
<1> QED
  BY <1>10 DEF BSearch, f, key
-----------------------------------------------------------------------------
TypeInv ==
  /\ pc \in {"parsed", "sa_init", "sp4_init", "sp6_init", "run", "exit"}
  /\ sock \in Sockets /\ enable \in BOOLEAN
  /\ pc = "parsed" => sa \in [Dir -> SaTables] /\ sp \in [Fam -> [Dir -> RuleTables]]
  /\ sa \in [Dir -> Seq(Sas)] /\ sp \in [Fam -> [Dir -> Seq(Rules)]]
  /\ \A d \in Dir : Len(sa[d]) < 2 * HALF
  /\ sa_ctx \in [Sockets -> [Dir -> Seq(Sas)]]
  /\ \A s \in Sockets, d \in Dir : Len(sa_ctx[s][d]) < 2 * HALF
  /\ sad \in [Sockets -> [Fam -> SUBSET Nat]]
  /\ \A s \in Sockets, f \in Fam : sad[s][f] \subseteq 1 .. Len(sa_ctx[s]["in"])
  /\ sp_ctx \in [Sockets -> [Fam -> [Dir -> Seq(Rules)]]]

LEMMA TableFacts ==
  /\ \A s \in SaTables : s \in Seq(Sas) /\ Len(s) < 2 * HALF
  /\ \A s \in RuleTables : s \in Seq(Rules) /\ \A i \in 1 .. Len(s) : s[i].key = s[i].spi
  BY SpdAssumption

(* Sorting keeps the number and the kind of the elements. *)
LEMMA QSortFacts ==
  ASSUME NEW R, NEW s \in SaTables \cup RuleTables, s \in Seq(R)
  PROVE  /\ QSort(s) \in Seq(R) /\ Len(QSort(s)) = Len(s)
         /\ \A i \in 1 .. Len(s) : \E j \in 1 .. Len(s) : QSort(s)[i] = s[j]
<1>1. QSort(s) \in [DOMAIN s -> Elements(s)]
  BY SortAssumption DEF Permutes
<1>2. DOMAIN s = 1 .. Len(s) /\ Len(s) \in Nat
  OBVIOUS
<1>3. QSort(s) \in [1 .. Len(s) -> Elements(s)] /\ Elements(s) \subseteq R
  BY <1>1, <1>2 DEF Elements
<1>4. QSort(s) \in [1 .. Len(s) -> R]
  BY <1>3
<1>5. QSort(s) \in Seq(R) /\ Len(QSort(s)) = Len(s)
  BY <1>2, <1>4
<1>6. \A i \in 1 .. Len(s) : QSort(s)[i] \in Elements(s)
  BY <1>3
<1> QED
  BY <1>2, <1>5, <1>6 DEF Elements

LEMMA InitTypeInv == Init => TypeInv
<1> SUFFICES ASSUME Init PROVE TypeInv
  OBVIOUS
<1>1. PICK c \in Configs : sa = c.sa /\ sp = c.sp /\ enable = c.enable
  BY DEF Init
<1>2. c \in [sa : [Dir -> SaTables], sp : [Fam -> [Dir -> RuleTables]], enable : BOOLEAN]
  BY SpdAssumption
<1>3. sa \in [Dir -> SaTables] /\ sp \in [Fam -> [Dir -> RuleTables]] /\ enable \in BOOLEAN
  BY <1>1, <1>2
<1>4. sa \in [Dir -> Seq(Sas)] /\ \A d \in Dir : Len(sa[d]) < 2 * HALF
  BY <1>3, TableFacts
<1>5. sp \in [Fam -> [Dir -> Seq(Rules)]]
  BY <1>3, TableFacts
<1>6. /\ HALF \in Nat \ {0} /\ 1 \in Sockets /\ "in" \in Dir
      /\ <<>> \in Seq(Sas) /\ <<>> \in Seq(Rules) /\ Len(<<>>) = 0
  BY SpdAssumption DEF Sockets, Dir
<1>7. /\ pc = "parsed" /\ sock = 1
      /\ sa_ctx = [s \in Sockets |-> [d \in Dir |-> <<>>]]
      /\ sad = [s \in Sockets |-> [f \in Fam |-> {}]]
      /\ sp_ctx = [s \in Sockets |-> [f \in Fam |-> [d \in Dir |-> <<>>]]]
  BY DEF Init
<1>8. /\ sa_ctx \in [Sockets -> [Dir -> Seq(Sas)]]
      /\ \A s \in Sockets, d \in Dir : Len(sa_ctx[s][d]) < 2 * HALF
  BY <1>6, <1>7
<1>9. /\ sad \in [Sockets -> [Fam -> SUBSET Nat]]
      /\ \A s \in Sockets, f \in Fam : sad[s][f] \subseteq 1 .. Len(sa_ctx[s]["in"])
      /\ sp_ctx \in [Sockets -> [Fam -> [Dir -> Seq(Rules)]]]
  BY <1>6, <1>7
<1> QED
  BY <1>3, <1>4, <1>5, <1>6, <1>7, <1>8, <1>9 DEF TypeInv

LEMMA SortTypes ==
  ASSUME TypeInv, SortArrays
  PROVE  TypeInv'
<1>1. sa \in [Dir -> SaTables] /\ sp \in [Fam -> [Dir -> RuleTables]]
  BY DEF TypeInv, SortArrays
<1>2. /\ sa' = [d \in Dir |-> QSort(sa[d])] /\ sp' = [f \in Fam |-> [d \in Dir |-> QSort(sp[f][d])]]
      /\ pc' = "sa_init" /\ UNCHANGED <<sock, enable, sa_ctx, sad, sp_ctx>>
  BY DEF SortArrays, SaSortArr, SpSortArr
<1>3. \A d \in Dir : QSort(sa[d]) \in Seq(Sas) /\ Len(QSort(sa[d])) < 2 * HALF
  BY <1>1, TableFacts, QSortFacts
<1>4. \A f \in Fam, d \in Dir : QSort(sp[f][d]) \in Seq(Rules)
  BY <1>1, TableFacts, QSortFacts
<1>5. sa' \in [Dir -> Seq(Sas)] /\ \A d \in Dir : Len(sa'[d]) < 2 * HALF
  BY <1>2, <1>3
<1>6. sp' \in [Fam -> [Dir -> Seq(Rules)]]
  BY <1>2, <1>4
<1> QED
  BY <1>2, <1>5, <1>6 DEF TypeInv

(* sa_init copies SAs, and the SAD gets indices of the copy. *)
LEMMA CopyTypes ==
  ASSUME TypeInv, NEW d \in Dir
  PROVE  CopiedSas(d) \in Seq(Sas) /\ Len(CopiedSas(d)) = Len(sa[d])
<1>1. NoSa \in Sas
  BY SpdAssumption DEF NoSa, Sas, Spi, Mode
<1>2. sa[d] \in Seq(Sas) /\ Len(sa[d]) \in Nat
  BY DEF TypeInv
<1>3. \A i \in 1 .. Len(sa[d]) : sa[d][i] \in Sas
  BY <1>2
<1>4. CopiedSas(d) \in [1 .. Len(sa[d]) -> Sas]
  BY <1>1, <1>3 DEF CopiedSas
<1> QED
  BY <1>2, <1>4

(* sa_init gives up when the SADs are there already. *)
LEMMA SadsExist ==
  ASSUME SaInit, ~SadCreate
  PROVE  /\ pc = "sa_init" /\ pc' = "exit" /\ sock > 1
         /\ UNCHANGED <<sock, enable, sa, sp, sa_ctx, sad, sp_ctx>>
  BY DEF SaInit, SadCreate

LEMMA SaInitTypes ==
  ASSUME TypeInv, SaInit, SadCreate
  PROVE  TypeInv'
<1>1. /\ sa_ctx' = [sa_ctx EXCEPT ![sock] = [d \in Dir |-> CopiedSas(d)]]
      /\ sad' = [sad EXCEPT ![sock] = SadAfter]
      /\ pc' \in {"sp4_init", "exit"} /\ UNCHANGED <<sock, enable, sa, sp, sp_ctx>>
  BY DEF SaInit
<1>2. /\ [d \in Dir |-> CopiedSas(d)] \in [Dir -> Seq(Sas)]
      /\ \A d \in Dir : Len(CopiedSas(d)) = Len(sa[d])
  BY CopyTypes
<1>3. SadAfter \in [Fam -> SUBSET (1 .. Len(sa["in"]))]
  BY DEF SadAfter
<1>4. sock \in Sockets /\ "in" \in Dir /\ Len(sa["in"]) \in Nat
  BY DEF TypeInv, Dir
<1>5. sa_ctx' \in [Sockets -> [Dir -> Seq(Sas)]]
  BY <1>1, <1>2 DEF TypeInv
<1>6. \A s \in Sockets, d \in Dir : Len(sa_ctx'[s][d]) < 2 * HALF
  <2> SUFFICES ASSUME NEW s \in Sockets, NEW d \in Dir PROVE Len(sa_ctx'[s][d]) < 2 * HALF
    OBVIOUS
  <2>1. sa_ctx'[s][d] = IF s = sock THEN CopiedSas(d) ELSE sa_ctx[s][d]
    BY <1>1 DEF TypeInv
  <2> QED
    BY <1>2, <2>1 DEF TypeInv
<1>7. \A s \in Sockets, f \in Fam : sad'[s][f] \subseteq 1 .. Len(sa_ctx'[s]["in"])
  <2> SUFFICES ASSUME NEW s \in Sockets, NEW f \in Fam
               PROVE  sad'[s][f] \subseteq 1 .. Len(sa_ctx'[s]["in"])
    OBVIOUS
  <2>1. CASE s = sock
    <3>1. sad'[s] = SadAfter /\ sa_ctx'[s]["in"] = CopiedSas("in")
      BY <1>1, <1>4, <2>1 DEF TypeInv
    <3> QED
      BY <1>2, <1>3, <1>4, <3>1
  <2>2. CASE s # sock
    <3>1. sad'[s] = sad[s] /\ sa_ctx'[s] = sa_ctx[s]
      BY <1>1, <2>2 DEF TypeInv
    <3> QED
      BY <3>1 DEF TypeInv
  <2> QED
    BY <2>1, <2>2
<1>8. sad' \in [Sockets -> [Fam -> SUBSET Nat]]
  <2>1. 1 .. Len(sa["in"]) \subseteq Nat
    BY <1>4
  <2>2. SadAfter \in [Fam -> SUBSET Nat]
    BY <1>3, <2>1
  <2> QED
    BY <1>1, <2>2 DEF TypeInv
<1> QED
  BY <1>1, <1>5, <1>6, <1>7, <1>8 DEF TypeInv

(* check_spi_value: the userdata of a protect rule becomes the number of   *)
(* an SA with the SPI it held; the other rules stay.                       *)
LEMMA ResolvedFacts ==
  ASSUME TypeInv, NEW f \in Fam, NEW d \in Dir, CheckSpiValue(f, d)
  PROVE  /\ Resolved(f, d) \in Seq(Rules) /\ Len(Resolved(f, d)) = Len(sp[f][d])
         /\ \A i \in 1 .. Len(sp[f][d]) :
              LET r == Resolved(f, d)[i] IN
              /\ r.spi = sp[f][d][i].spi
              /\ IF Protects(sp[f][d][i])
                 THEN /\ r.key \in 1 .. Len(sa_ctx[sock][d])
                      /\ sa_ctx[sock][d][r.key].key = sp[f][d][i].key
                 ELSE r.key = sp[f][d][i].key
<1> DEFINE s == sp[f][d]
           t == sa_ctx[sock][d]
<1>1. /\ s \in Seq(Rules) /\ DOMAIN s = 1 .. Len(s) /\ Len(s) \in Nat
      /\ t \in Seq(Sas) /\ Len(t) \in Nat /\ Len(t) < 2 * HALF
  BY DEF TypeInv
<1> HIDE DEF s, t
<1>2. \A i \in 1 .. Len(t) : t[i].key \in Spi
  <2> SUFFICES ASSUME NEW i \in 1 .. Len(t) PROVE t[i].key \in Spi
    OBVIOUS
  <2>1. t[i] \in Sas
    BY <1>1
  <2> QED
    BY <2>1 DEF Sas
<1>3. ASSUME NEW i \in 1 .. Len(s)
      PROVE  /\ Resolved(f, d)[i] \in Rules
             /\ Resolved(f, d)[i].spi = s[i].spi
             /\ Protects(s[i]) => /\ Resolved(f, d)[i].key \in 1 .. Len(t)
                                  /\ t[Resolved(f, d)[i].key].key = s[i].key
             /\ ~Protects(s[i]) => Resolved(f, d)[i].key = s[i].key
  <2>1. s[i] \in Rules /\ s[i].key \in Spi
    <3>1. s[i] \in Rules
      BY <1>1
    <3> QED
      BY <3>1 DEF Rules
  <2>2. CASE Protects(s[i])
    <3>1. BSearch(t, s[i].key) >= 0
      BY <1>1, <2>2 DEF CheckSpiValue, SaSpiPresent, s, t
    <3>2. /\ BSearch(t, s[i].key) \in 0 .. Len(t) - 1
          /\ t[BSearch(t, s[i].key) + 1].key = s[i].key
      BY <1>1, <1>2, <2>1, <3>1, BSearchSound
    <3>3. Resolved(f, d)[i] = [s[i] EXCEPT !.key = BSearch(t, s[i].key) + 1]
      BY <1>1, <2>2 DEF Resolved, UserData, SaSpiPresent, s, t
    <3>4. BSearch(t, s[i].key) + 1 \in Spi /\ BSearch(t, s[i].key) + 1 \in 1 .. Len(t)
      BY <1>1, <3>2, SpdAssumption DEF Spi
    <3>5. /\ Resolved(f, d)[i] \in Rules /\ Resolved(f, d)[i].spi = s[i].spi
          /\ Resolved(f, d)[i].key = BSearch(t, s[i].key) + 1
      <4> QED
        BY <2>1, <3>3, <3>4 DEF Rules
    <3> QED
      BY <2>2, <3>2, <3>4, <3>5
  <2>3. CASE ~Protects(s[i])
    <3>1. Resolved(f, d)[i] = s[i]
      BY <1>1, <2>3 DEF Resolved, s
    <3> QED
      BY <2>1, <2>3, <3>1
  <2> QED
    BY <2>2, <2>3
<1>4. DOMAIN Resolved(f, d) = 1 .. Len(s) /\ Resolved(f, d) = [i \in 1 .. Len(s) |-> Resolved(f, d)[i]]
  BY <1>1 DEF Resolved, s
<1>5. Resolved(f, d) \in [1 .. Len(s) -> Rules]
  BY <1>3, <1>4
<1>6. Resolved(f, d) \in Seq(Rules) /\ Len(Resolved(f, d)) = Len(s)
  BY <1>1, <1>5
<1> QED
  BY <1>3, <1>6 DEF s, t

LEMMA SpInitTypes ==
  ASSUME TypeInv, NEW f \in Fam, SpInit(f), UNCHANGED <<enable, sa, sa_ctx, sad>>, pc # "parsed"
  PROVE  TypeInv'
<1>1. CASE pc' = "exit" /\ UNCHANGED <<sock, sp, sp_ctx>>
  BY <1>1 DEF TypeInv
<1>2. CASE /\ \A d \in Dir : CheckSpiValue(f, d)
           /\ sp' = [sp EXCEPT ![f] = [d \in Dir |-> Resolved(f, d)]]
           /\ sp_ctx' = [sp_ctx EXCEPT ![sock][f] = [d \in Dir |-> Resolved(f, d)]]
           /\ \/ pc' = "sp6_init" /\ UNCHANGED sock
              \/ pc' = "sa_init" /\ sock' = sock + 1 /\ sock < NbSockets
              \/ pc' = "run" /\ UNCHANGED sock
  <2>1. [d \in Dir |-> Resolved(f, d)] \in [Dir -> Seq(Rules)]
    BY <1>2, ResolvedFacts
  <2>2. sp' \in [Fam -> [Dir -> Seq(Rules)]]
    BY <1>2, <2>1 DEF TypeInv
  <2>3. sp_ctx' \in [Sockets -> [Fam -> [Dir -> Seq(Rules)]]]
    BY <1>2, <2>1 DEF TypeInv
  <2>4. sock' \in Sockets /\ pc' \in {"sp6_init", "sa_init", "run"}
    BY <1>2, SpdAssumption DEF TypeInv, Sockets
  <2> QED
    BY <2>2, <2>3, <2>4 DEF TypeInv
<1> QED
  BY <1>1, <1>2 DEF SpInit

LEMMA NextTypeInv == TypeInv /\ [Next]_vars => TypeInv'
<1> SUFFICES ASSUME TypeInv, [Next]_vars PROVE TypeInv'
  OBVIOUS
<1>1. CASE SortArrays
  BY <1>1, SortTypes
<1>2. CASE SaInit
  <2>1. CASE ~SadCreate
    BY <1>2, <2>1, SadsExist DEF TypeInv
  <2> QED
    BY <1>2, <2>1, SaInitTypes
<1>3. CASE Sp4Init
  BY <1>3, SpInitTypes DEF Sp4Init, Fam
<1>4. CASE Sp6Init
  BY <1>4, SpInitTypes DEF Sp6Init, Fam
<1>5. CASE UNCHANGED vars
  BY <1>5 DEF vars, TypeInv
<1> QED
  BY <1>1, <1>2, <1>3, <1>4, <1>5 DEF Next

(* Type correctness: whatever the arrays and however many sockets, SPIs    *)
(* and userdata stay words through the sort, sa_init's copy and the        *)
(* replacement of SPIs by indices, and the SADs hold indices of the        *)
(* socket's own SA table.                                                  *)
THEOREM StartupTypes == Spec => []TypeOK
<1>1. TypeInv => TypeOK
  <2> SUFFICES ASSUME TypeInv PROVE TypeOK
    OBVIOUS
  <2>1. "in" \in Dir
    BY DEF Dir
  <2>2. \A d \in Dir : DOMAIN sa[d] = 1 .. Len(sa[d]) /\ \A i \in 1 .. Len(sa[d]) : sa[d][i] \in Sas
    BY DEF TypeInv
  <2>3. \A f \in Fam, d \in Dir :
          DOMAIN sp[f][d] = 1 .. Len(sp[f][d]) /\ \A i \in 1 .. Len(sp[f][d]) : sp[f][d][i] \in Rules
    BY DEF TypeInv
  <2>4. \A s \in Sockets, d \in Dir :
          /\ DOMAIN sa_ctx[s][d] = 1 .. Len(sa_ctx[s][d])
          /\ \A i \in 1 .. Len(sa_ctx[s][d]) : sa_ctx[s][d][i] \in Sas
    BY DEF TypeInv
  <2> QED
    BY <2>1, <2>2, <2>3, <2>4 DEF TypeInv, TypeOK
<1> QED
  BY <1>1, InitTypeInv, NextTypeInv, PTL DEF Spec
-----------------------------------------------------------------------------
(* While the first socket is initialised, the rules of family f still hold *)
(* SPIs until its own init function replaces them.                         *)
Fresh(f) ==
  sock = 1 /\ (pc \in {"parsed", "sa_init", "sp4_init"} \/ (pc = "sp6_init" /\ f = "ip6"))

Selects(t, r) ==
  IF r.spi \in {DISCARD, BYPASS} THEN r.key = r.spi
  ELSE r.key \in 1 .. Len(t) /\ t[r.key].key = r.spi

PolicyInv ==
  /\ \A f \in Fam, d \in Dir : Fresh(f) =>
       sp_ctx[1][f][d] = <<>> /\ \A i \in 1 .. Len(sp[f][d]) : sp[f][d][i].key = sp[f][d][i].spi
  /\ \A f \in Fam, d \in Dir : \A i \in 1 .. Len(sp_ctx[1][f][d]) :
       Selects(sa_ctx[1][d], sp_ctx[1][f][d][i])

LEMMA InitPolicyInv == Init => PolicyInv
<1> SUFFICES ASSUME Init PROVE PolicyInv
  OBVIOUS
<1>1. TypeInv /\ pc = "parsed"
  BY InitTypeInv DEF Init
<1>2. 1 \in Sockets
  BY SpdAssumption DEF Sockets
<1>3. \A f \in Fam, d \in Dir : sp_ctx[1][f][d] = <<>> /\ Len(sp_ctx[1][f][d]) = 0
  BY <1>2 DEF Init
<1>4. \A f \in Fam, d \in Dir : sp[f][d] \in RuleTables
  BY <1>1 DEF TypeInv
<1> QED
  BY <1>3, <1>4, TableFacts DEF PolicyInv

LEMMA SortPolicy ==
  ASSUME TypeInv, PolicyInv, SortArrays
  PROVE  PolicyInv'
<1>1. /\ sp' = [f \in Fam |-> [d \in Dir |-> QSort(sp[f][d])]]
      /\ pc = "parsed" /\ pc' = "sa_init" /\ UNCHANGED <<sock, sa_ctx, sp_ctx>>
  BY DEF SortArrays, SpSortArr
<1>2. \A f \in Fam, d \in Dir : sp[f][d] \in RuleTables
  BY <1>1 DEF TypeInv
<1>3. ASSUME NEW f \in Fam, NEW d \in Dir, NEW i \in 1 .. Len(sp'[f][d])
      PROVE  sp'[f][d][i].key = sp'[f][d][i].spi
  <2>1. sp'[f][d] = QSort(sp[f][d])
    BY <1>1
  <2>2. /\ Len(QSort(sp[f][d])) = Len(sp[f][d])
        /\ \A k \in 1 .. Len(sp[f][d]) :
             \E j \in 1 .. Len(sp[f][d]) : QSort(sp[f][d])[k] = sp[f][d][j]
    BY SMTT(30), <1>2, TableFacts, QSortFacts
  <2>3. PICK j \in 1 .. Len(sp[f][d]) : QSort(sp[f][d])[i] = sp[f][d][j]
    BY <1>3, <2>1, <2>2
  <2>4. sp[f][d][j].key = sp[f][d][j].spi
    BY <1>2, TableFacts
  <2> QED
    BY <2>1, <2>3, <2>4
<1>4. \A f \in Fam : Fresh(f)' <=> Fresh(f)
  BY <1>1 DEF Fresh
<1> QED
  BY <1>1, <1>3, <1>4 DEF PolicyInv

LEMMA SaInitPolicy ==
  ASSUME TypeInv, PolicyInv, SaInit, SadCreate
  PROVE  PolicyInv'
<1>1. /\ sa_ctx' = [sa_ctx EXCEPT ![sock] = [d \in Dir |-> CopiedSas(d)]]
      /\ pc = "sa_init" /\ UNCHANGED <<sock, sp, sp_ctx>> /\ pc' \in {"sp4_init", "exit"}
  BY DEF SaInit
<1>2. \A f \in Fam : Fresh(f)' => Fresh(f)
  BY <1>1 DEF Fresh
<1>3. CASE sock = 1
  <2>1. \A f \in Fam, d \in Dir : sp_ctx[1][f][d] = <<>>
    BY <1>1, <1>3 DEF PolicyInv, Fresh
  <2> QED
    BY <1>1, <1>2, <2>1 DEF PolicyInv
<1>4. CASE sock # 1
  <2>1. sa_ctx'[1] = sa_ctx[1]
    BY <1>1, <1>4, SpdAssumption DEF TypeInv, Sockets
  <2> QED
    BY <1>1, <1>2, <2>1 DEF PolicyInv
<1> QED
  BY <1>3, <1>4

LEMMA SpInitPolicy ==
  ASSUME TypeInv, PolicyInv, NEW f \in Fam, SpInit(f), UNCHANGED sa_ctx,
         pc = IF f = "ip4" THEN "sp4_init" ELSE "sp6_init"
  PROVE  PolicyInv'
<1>1. CASE pc' = "exit" /\ UNCHANGED <<sock, sp, sp_ctx>>
  BY <1>1 DEF PolicyInv, Fresh
<1>2. CASE /\ \A d \in Dir : CheckSpiValue(f, d)
           /\ sp' = [sp EXCEPT ![f] = [d \in Dir |-> Resolved(f, d)]]
           /\ sp_ctx' = [sp_ctx EXCEPT ![sock][f] = [d \in Dir |-> Resolved(f, d)]]
           /\ \/ f = "ip4" /\ pc' = "sp6_init" /\ UNCHANGED sock
              \/ pc' = "sa_init" /\ sock' = sock + 1
              \/ pc' = "run" /\ UNCHANGED sock
  <2>1. \A g \in Fam : Fresh(g)' => Fresh(g) /\ g # f
    BY <1>2, SpdAssumption DEF Fresh, TypeInv, Sockets, Fam
  <2>2. \A g \in Fam, d \in Dir : /\ g # f => sp'[g][d] = sp[g][d]
                                  /\ g # f \/ sock # 1 => sp_ctx'[1][g][d] = sp_ctx[1][g][d]
    BY <1>2, SpdAssumption DEF TypeInv, Sockets
  <2>3. \A g \in Fam, d \in Dir : Fresh(g)' =>
          /\ sp_ctx'[1][g][d] = <<>>
          /\ \A i \in 1 .. Len(sp'[g][d]) : sp'[g][d][i].key = sp'[g][d][i].spi
    BY <2>1, <2>2 DEF PolicyInv
  <2>4. ASSUME NEW g \in Fam, NEW d \in Dir, NEW i \in 1 .. Len(sp_ctx'[1][g][d])
        PROVE  Selects(sa_ctx[1][d], sp_ctx'[1][g][d][i])
    <3>1. CASE g # f \/ sock # 1
      BY <2>2, <2>4, <3>1 DEF PolicyInv
    <3>2. CASE g = f /\ sock = 1
      <4>1. sp_ctx'[1][g][d] = Resolved(f, d)
        BY <1>2, <3>2 DEF TypeInv
      <4>2. Fresh(f)
        BY <3>2 DEF Fresh, Fam
      <4> DEFINE r == sp[f][d][i]
                 q == Resolved(f, d)[i]
      <4>3. i \in 1 .. Len(sp[f][d]) /\ r.key = r.spi
        BY <1>2, <2>4, <4>1, <4>2, ResolvedFacts DEF PolicyInv
      <4>4. /\ q.spi = r.spi
            /\ IF Protects(r)
               THEN q.key \in 1 .. Len(sa_ctx[1][d]) /\ sa_ctx[1][d][q.key].key = r.key
               ELSE q.key = r.key
        BY <1>2, <3>2, <4>3, ResolvedFacts
      <4>5. sp_ctx'[1][g][d][i] = q
        BY <4>1
      <4> HIDE DEF r, q
      <4> QED
        BY <4>3, <4>4, <4>5 DEF Selects, Protects
    <3> QED
      BY <3>1, <3>2
  <2> QED
    BY <2>3, <2>4 DEF PolicyInv
<1> QED
  BY <1>1, <1>2 DEF SpInit

LEMMA NextPolicyInv == TypeInv /\ PolicyInv /\ [Next]_vars => PolicyInv'
<1> SUFFICES ASSUME TypeInv, PolicyInv, [Next]_vars PROVE PolicyInv'
  OBVIOUS
<1>1. CASE SortArrays
  BY <1>1, SortPolicy
<1>2. CASE SaInit
  <2>1. CASE ~SadCreate
    BY <1>2, <2>1, SadsExist DEF PolicyInv, Fresh
  <2> QED
    BY <1>2, <2>1, SaInitPolicy
<1>3. CASE Sp4Init
  BY <1>3, SpInitPolicy DEF Sp4Init, Fam
<1>4. CASE Sp6Init
  BY <1>4, SpInitPolicy DEF Sp6Init, Fam
<1>5. CASE UNCHANGED vars
  BY <1>5 DEF vars, PolicyInv, Fresh
<1> QED
  BY <1>1, <1>2, <1>3, <1>4, <1>5 DEF Next

(* With one socket, a protect rule of an ACL that sp4_init or sp6_init     *)
(* built names by its userdata an SA of the socket's table with the SPI    *)
(* the configuration gave the rule, and bypass and discard rules stay      *)
(* what they were.  Nothing is asked of the SPIs: also when the array is   *)
(* not sorted, what bsearch finds has the key.  With more sockets it is    *)
(* false, see the run startup_sockets.                                     *)
THEOREM PolicySelects == NbSockets = 1 => (Spec => []PolicySelectsItsSa)
<1> SUFFICES ASSUME NbSockets = 1 PROVE Spec => []PolicySelectsItsSa
  BY SMTT(30)
<1>1. TypeInv /\ PolicyInv => PolicySelectsItsSa
  <2> SUFFICES ASSUME TypeInv, PolicyInv,
                      NEW s \in Sockets, NEW f \in Fam, NEW d \in Dir, NEW i \in DOMAIN sp_ctx[s][f][d]
               PROVE  LET r == sp_ctx[s][f][d][i] IN
                      IF r.spi \in {DISCARD, BYPASS} THEN r.key = r.spi
                      ELSE r.key \in DOMAIN sa_ctx[s][d] /\ sa_ctx[s][d][r.key].key = r.spi
    BY Zenon DEF PolicySelectsItsSa
  <2>1. s = 1
    BY DEF Sockets
  <2>2. i \in 1 .. Len(sp_ctx[1][f][d]) /\ DOMAIN sa_ctx[1][d] = 1 .. Len(sa_ctx[1][d])
    BY <2>1 DEF TypeInv
  <2>3. Selects(sa_ctx[1][d], sp_ctx[1][f][d][i])
    BY <2>2 DEF PolicyInv
  <2> QED
    BY <2>1, <2>2, <2>3 DEF Selects
<1>2. Init => TypeInv /\ PolicyInv
  BY InitTypeInv, InitPolicyInv
<1>3. TypeInv /\ PolicyInv /\ [Next]_vars => (TypeInv /\ PolicyInv)'
  BY NextTypeInv, NextPolicyInv
<1> QED
  BY <1>1, <1>2, <1>3, PTL DEF Spec
-----------------------------------------------------------------------------
(* Every SPI is below 2^31 - 1, or the userdata of a bypass rule. *)
NarrowTables == \A s \in SaTables \cup RuleTables : \A i \in 1 .. Len(s) : s[i].key \in Small

Searchable(s) == Ordered(s) /\ \A i \in 1 .. Len(s) : s[i].key \in Small

LEMMA SortedSearchable ==
  ASSUME NarrowTables, NEW R, NEW s \in SaTables \cup RuleTables, s \in Seq(R)
  PROVE  Searchable(QSort(s))
<1>1. /\ QSort(s) \in Seq(R) /\ Len(QSort(s)) = Len(s)
      /\ \A i \in 1 .. Len(s) : \E j \in 1 .. Len(s) : QSort(s)[i] = s[j]
  BY QSortFacts
<1>2. \A i \in 1 .. Len(s) : s[i].key \in Small
  BY DEF NarrowTables
<1>3. DOMAIN s = 1 .. Len(s)
  OBVIOUS
<1>4. Consistent(s)
  BY <1>2, <1>3, SmallConsistent
<1> QED
  BY <1>1, <1>2, <1>4, SortAssumption DEF Searchable

(* On such arrays bsearch finds exactly the keys that are there. *)
LEMMA BSearchDecides ==
  ASSUME NEW R, NEW s \in Seq(R), Searchable(s), NEW key \in Spi
  PROVE  BSearch(s, key) >= 0 <=> \E i \in 1 .. Len(s) : s[i].key = key
<1>1. \A i \in 1 .. Len(s) : s[i].key \in Small /\ s[i].key \in Spi
  BY CmpSmall DEF Searchable
<1>2. /\ Len(s) \in Nat
      /\ \/ BSearch(s, key) = -1
         \/ BSearch(s, key) \in 0 .. Len(s) - 1 /\ s[BSearch(s, key) + 1].key = key
  BY <1>1, BSearchSound
<1>3. ASSUME NEW i \in 1 .. Len(s), s[i].key = key
      PROVE  BSearch(s, key) # -1
  BY <1>1, <1>3, BSearchFinds DEF Searchable
<1>4. BSearch(s, key) >= 0 => \E i \in 1 .. Len(s) : s[i].key = key
  <2> SUFFICES ASSUME BSearch(s, key) >= 0 PROVE \E i \in 1 .. Len(s) : s[i].key = key
    OBVIOUS
  <2>1. BSearch(s, key) + 1 \in 1 .. Len(s) /\ s[BSearch(s, key) + 1].key = key
    BY <1>2
  <2> QED
    BY <2>1
<1> QED
  BY <1>2, <1>3, <1>4

(* Nothing stops sa_add_rules when every SA can be added. *)
LEMMA AllAdded ==
  ASSUME TypeInv, AllAddable
  PROVE  /\ \A d \in Dir : CopiedSas(d) = sa[d] /\ Added(d) = Len(sa[d])
         /\ \A i \in 1 .. Len(sa["in"]), f \in Fam : ~Exists(i, f)
<1>1. \A d \in Dir : /\ sa[d] \in Seq(Sas) /\ Len(sa[d]) \in Nat /\ DOMAIN sa[d] = 1 .. Len(sa[d])
                     /\ sa[d] = [i \in 1 .. Len(sa[d]) |-> sa[d][i]]
  BY DEF TypeInv
<1>2. "in" \in Dir
  BY DEF Dir
<1>3. \A f : \A i \in 1 .. Len(sa["in"]) : ~Exists(i, f)
  BY <1>1, <1>2 DEF AllAddable, Exists
<1>4. \A i \in 1 .. Len(sa["in"]) : ~Clashes(i)
  BY <1>3 DEF Clashes
<1>5. \A d \in Dir : \A i \in 1 .. Len(sa[d]) : ~Fails(i, d)
  BY <1>1, <1>4 DEF AllAddable, Fails
<1>6. ASSUME NEW d \in Dir PROVE Added(d) = Len(sa[d])
  <2> DEFINE P(n) == /\ \A i \in 1 .. n : ~Fails(i, d)
                     /\ n < Len(sa[d]) => Fails(n + 1, d)
  <2>1. Added(d) = CHOOSE n \in 0 .. Len(sa[d]) : P(n)
    BY DEF Added
  <2>2. P(Len(sa[d])) /\ Len(sa[d]) \in 0 .. Len(sa[d])
    BY <1>1, <1>5
  <2>3. ASSUME NEW n \in 0 .. Len(sa[d]), P(n) PROVE n = Len(sa[d])
    <3> SUFFICES ASSUME n < Len(sa[d]) PROVE FALSE
      BY <1>1
    <3>1. n + 1 \in 1 .. Len(sa[d]) /\ Fails(n + 1, d)
      BY <1>1, <2>3
    <3> QED
      BY <1>5, <3>1
  <2> HIDE DEF P
  <2> QED
    BY <2>1, <2>2, <2>3
<1>7. ASSUME NEW d \in Dir PROVE CopiedSas(d) = sa[d]
  <2>1. \A i \in 1 .. Len(sa[d]) : i <= Added(d) + 1
    BY <1>1, <1>6
  <2>2. CopiedSas(d) = [i \in 1 .. Len(sa[d]) |-> sa[d][i]]
    BY <2>1 DEF CopiedSas
  <2> QED
    BY <1>1, <2>2
<1> QED
  BY <1>3, <1>6, <1>7

(* From the sort on the SAs are searchable, and what sa_init copied for    *)
(* the socket is all of them.                                              *)
TablesInv ==
  /\ pc # "parsed" => \A d \in Dir : Searchable(sa[d])
  /\ pc = "parsed" => \A d \in Dir : sa_ctx[sock][d] = <<>>
  /\ pc \in {"sp4_init", "sp6_init", "run"} /\ AllAddable =>
       \A d \in Dir : sa_ctx[sock][d] = sa[d]

LEMMA InitTablesInv == Init => TablesInv
<1> SUFFICES ASSUME Init PROVE TablesInv
  OBVIOUS
<1>1. sock = 1 /\ pc = "parsed" /\ 1 \in Sockets
  BY SpdAssumption DEF Init, Sockets
<1>2. \A d \in Dir : sa_ctx[sock][d] = <<>>
  BY <1>1 DEF Init
<1> QED
  BY <1>1, <1>2 DEF TablesInv

LEMMA SortTables ==
  ASSUME NarrowTables, TypeInv, SortArrays
  PROVE  /\ \A d \in Dir : Searchable(sa'[d])
         /\ \A f \in Fam, d \in Dir : Searchable(sp'[f][d])
<1>1. sa \in [Dir -> SaTables] /\ sp \in [Fam -> [Dir -> RuleTables]]
  BY DEF TypeInv, SortArrays
<1>2. sa' = [d \in Dir |-> QSort(sa[d])] /\ sp' = [f \in Fam |-> [d \in Dir |-> QSort(sp[f][d])]]
  BY DEF SortArrays, SaSortArr, SpSortArr
<1>3. \A d \in Dir : Searchable(QSort(sa[d]))
  BY <1>1, TableFacts, SortedSearchable
<1>4. \A f \in Fam, d \in Dir : Searchable(QSort(sp[f][d]))
  BY <1>1, TableFacts, SortedSearchable
<1> QED
  BY <1>2, <1>3, <1>4

LEMMA SaInitTables ==
  ASSUME TypeInv, SaInit, SadCreate, AllAddable
  PROVE  \A d \in Dir : sa_ctx'[sock][d] = sa[d]
<1>1. sa_ctx' = [sa_ctx EXCEPT ![sock] = [d \in Dir |-> CopiedSas(d)]]
  BY DEF SaInit
<1>2. \A d \in Dir : sa_ctx'[sock][d] = CopiedSas(d)
  BY <1>1 DEF TypeInv
<1> QED
  BY <1>2, AllAdded

LEMMA NextTablesInv ==
  ASSUME NarrowTables
  PROVE  TypeInv /\ TablesInv /\ [Next]_vars => TablesInv'
<1> SUFFICES ASSUME TypeInv, TablesInv, [Next]_vars PROVE TablesInv'
  OBVIOUS
<1>1. CASE SortArrays
  <2>1. pc' = "sa_init"
    BY <1>1 DEF SortArrays
  <2> QED
    BY <1>1, <2>1, SortTables DEF TablesInv
<1>2. CASE SaInit
  <2>1. pc = "sa_init" /\ pc' \notin {"parsed", "sa_init"} /\ UNCHANGED <<sock, sa>>
    BY <1>2 DEF SaInit
  <2>2. AllAddable' <=> AllAddable
    BY <2>1 DEF AllAddable
  <2>3. CASE ~SadCreate
    BY <1>2, <2>1, <2>3, SadsExist DEF TablesInv
  <2> QED
    BY <1>2, <2>1, <2>2, <2>3, SaInitTables DEF TablesInv
<1>3. CASE Sp4Init \/ Sp6Init
  <2>1. /\ pc \in {"sp4_init", "sp6_init"} /\ UNCHANGED <<sa, sa_ctx>> /\ pc' # "parsed"
        /\ pc' = "sa_init" \/ UNCHANGED sock
    BY <1>3 DEF Sp4Init, Sp6Init, SpInit
  <2>2. AllAddable' <=> AllAddable
    BY <2>1 DEF AllAddable
  <2> QED
    BY <2>1, <2>2 DEF TablesInv
<1>4. CASE UNCHANGED vars
  BY <1>4 DEF vars, TablesInv, AllAddable
<1> QED
  BY <1>1, <1>2, <1>3, <1>4 DEF Next

(* With SPIs below 2^31 - 1, and on any number of sockets, sa_spi_present  *)
(* finds an SA for the SPI of each SA of the table sa_init filled, unless  *)
(* an SA could not be added.  With larger SPIs sa_cmp is not an order and  *)
(* it is false, see the run startup_wide_spis.                             *)
THEOREM SpiPresentDecides == NarrowTables => (Spec => []SpiPresentFinds)
<1> SUFFICES ASSUME NarrowTables PROVE Spec => []SpiPresentFinds
  OBVIOUS
<1>1. TypeInv /\ TablesInv => SpiPresentFinds
  <2> SUFFICES ASSUME TypeInv, TablesInv, pc \notin {"sa_init", "exit"}, AllAddable,
                      NEW d \in Dir, NEW i \in DOMAIN sa_ctx[sock][d]
               PROVE  LET idx == SaSpiPresent(sock, sa_ctx[sock][d][i].key, d)
                      IN  idx >= 0 /\ sa_ctx[sock][d][idx + 1].key = sa_ctx[sock][d][i].key
    BY DEF SpiPresentFinds
  <2> DEFINE t == sa_ctx[sock][d]
             key == t[i].key
  <2>1. t \in Seq(Sas) /\ DOMAIN t = 1 .. Len(t) /\ i \in 1 .. Len(t) /\ Len(t) \in Nat
    BY DEF TypeInv
  <2>2. pc # "parsed"
    BY <2>1 DEF TablesInv
  <2>3. Searchable(t)
    BY <2>2 DEF TablesInv, TypeInv
  <2> HIDE DEF t
  <2>4. \A k \in 1 .. Len(t) : t[k].key \in Spi
    BY <2>3, CmpSmall DEF Searchable
  <2>5. BSearch(t, key) >= 0
    BY <2>1, <2>3, <2>4, BSearchDecides
  <2>6. t[BSearch(t, key) + 1].key = key
    BY <2>1, <2>4, <2>5, BSearchSound
  <2> QED
    BY <2>5, <2>6 DEF SaSpiPresent, t
<1>2. Init => TypeInv /\ TablesInv
  BY InitTypeInv, InitTablesInv
<1>3. TypeInv /\ TablesInv /\ [Next]_vars => (TypeInv /\ TablesInv)'
  BY NextTypeInv, NextTablesInv
<1> QED
  BY <1>1, <1>2, <1>3, PTL DEF Spec
-----------------------------------------------------------------------------
(* The reasons ExitsForCause allows. *)
Cause ==
  \/ ~AllAddable
  \/ \E f \in Fam, d \in Dir : ~(RuleSpis(f, d) \subseteq SaSpis(d) \cup {DISCARD, BYPASS})
  \/ /\ enable
     /\ \E d \in Dir : \E spi \in SaSpis(d) :
          spi \in RuleSpis("ip4", d) <=> spi \in RuleSpis("ip6", d)

(* The SAs whose packets the SAD of family f has to find. *)
Wanted(f) ==
  {j \in 1 .. Len(sa["in"]) :
     \/ sa["in"][j].mode = IF f = "ip4" THEN "ip4-tunnel" ELSE "ip6-tunnel"
     \/ sa["in"][j].mode = "transport" /\ sa["in"][j].key \in RuleSpis(f, "in")}

(* With one socket: the rules are searchable when sa_init looks for SPIs   *)
(* in them, the SAD holds what it has to hold and the exit has a cause.    *)
SocketInv ==
  /\ pc = "sa_init" => \A f \in Fam, d \in Dir : Searchable(sp[f][d])
  /\ pc \notin {"parsed", "sa_init"} /\ AllAddable => \A f \in Fam : sad[1][f] = Wanted(f)
  /\ pc = "exit" => Cause

LEMMA OnlySocket ==
  ASSUME NbSockets = 1, TypeInv
  PROVE  sock = 1 /\ Sockets = {1}
  BY DEF TypeInv, Sockets

LEMMA Spis ==
  ASSUME TypeInv
  PROVE  /\ \A d \in Dir : SaSpis(d) = {sa[d][i].key : i \in 1 .. Len(sa[d])}
         /\ \A f \in Fam, d \in Dir : RuleSpis(f, d) = {sp[f][d][i].spi : i \in 1 .. Len(sp[f][d])}
         /\ \A d \in Dir : \A i \in 1 .. Len(sa[d]) : sa[d][i] \in Sas /\ sa[d][i].key \in Spi
<1>1. \A d \in Dir : DOMAIN sa[d] = 1 .. Len(sa[d]) /\ sa[d] \in Seq(Sas)
  BY DEF TypeInv
<1>2. \A f \in Fam, d \in Dir : DOMAIN sp[f][d] = 1 .. Len(sp[f][d])
  BY DEF TypeInv
<1>3. \A d \in Dir : \A i \in 1 .. Len(sa[d]) : sa[d][i] \in Sas
  BY <1>1
<1>4. \A d \in Dir : \A i \in 1 .. Len(sa[d]) : sa[d][i].key \in Spi
  BY <1>3 DEF Sas
<1> QED
  BY <1>1, <1>2, <1>3, <1>4 DEF SaSpis, RuleSpis

(* sp4_spi_present and sp6_spi_present in sa_init. *)
LEMMA RulesSearched ==
  ASSUME NbSockets = 1, TypeInv, PolicyInv, SocketInv, pc = "sa_init",
         NEW f \in Fam, NEW d \in Dir, NEW spi \in Spi
  PROVE  SpSpiPresent(f, spi, d) >= 0 <=> spi \in RuleSpis(f, d)
<1> DEFINE s == sp[f][d]
<1>1. s \in Seq(Rules) /\ Searchable(s)
  BY DEF TypeInv, SocketInv
<1>2. \A i \in 1 .. Len(s) : s[i].key = s[i].spi
  BY OnlySocket DEF PolicyInv, Fresh
<1>3. RuleSpis(f, d) = {s[i].spi : i \in 1 .. Len(s)}
  BY Spis
<1> HIDE DEF s
<1>4. BSearch(s, spi) >= 0 <=> \E i \in 1 .. Len(s) : s[i].key = spi
  BY <1>1, BSearchDecides
<1> QED
  BY <1>2, <1>3, <1>4 DEF SpSpiPresent, s

(* get_spi_proto fails only for an SPI of no family or of both. *)
LEMMA ProtoDecides ==
  ASSUME NbSockets = 1, TypeInv, PolicyInv, SocketInv, pc = "sa_init",
         NEW d \in Dir, NEW spi \in Spi, ~GetSpiProto(spi, d)
  PROVE  spi \in RuleSpis("ip4", d) <=> spi \in RuleSpis("ip6", d)
<1> SUFFICES ASSUME NEW g \in Fam, NEW h \in Fam, Fam = {g, h}, g # h,
                    spi \in RuleSpis(g, d), spi \notin RuleSpis(h, d)
             PROVE  FALSE
  BY DEF Fam
<1>1. {f \in Fam : SpSpiPresent(f, spi, d) >= 0} = {g}
  BY RulesSearched
<1>2. Cardinality({g}) = 1
  BY FS_Singleton
<1> QED
  BY <1>1, <1>2 DEF GetSpiProto

LEMMA SaInitSocket ==
  ASSUME NbSockets = 1, TypeInv, PolicyInv, TablesInv, SocketInv, SaInit
  PROVE  SocketInv'
<1>1. /\ pc = "sa_init" /\ sock = 1 /\ Sockets = {1} /\ UNCHANGED <<enable, sa, sp>>
      /\ sad' = [sad EXCEPT ![sock] = SadAfter]
      /\ pc' = IF enable => \A d \in Dir : SatblInit(d) THEN "sp4_init" ELSE "exit"
  BY OnlySocket DEF SaInit, SadCreate
<1>2. /\ AllAddable' <=> AllAddable
      /\ \A f \in Fam : Wanted(f)' = Wanted(f)
      /\ Cause' <=> Cause
  BY <1>1 DEF AllAddable, Wanted, Cause, RuleSpis, SaSpis
<1>3. ASSUME AllAddable, NEW f \in Fam PROVE sad'[1][f] = Wanted(f)
  <2> DEFINE t == sa["in"]
  <2>1. sad'[1] = SadAfter
    BY <1>1 DEF TypeInv
  <2>2. "in" \in Dir
    BY DEF Dir
  <2>3. /\ Len(t) \in Nat /\ \A i \in 1 .. Len(t) : i <= Added("in") + 1
        /\ \A i \in 1 .. Len(t), g \in Fam : ~Exists(i, g)
    BY <1>3, <2>2, AllAdded DEF TypeInv
  <2>4. SadAfter[f] = {i \in 1 .. Len(t) : f \in SadFams(t[i])}
    BY <2>3 DEF SadAfter, Fam
  <2>5. ASSUME NEW i \in 1 .. Len(t)
        PROVE  f \in SadFams(t[i]) <=>
                 \/ t[i].mode = IF f = "ip4" THEN "ip4-tunnel" ELSE "ip6-tunnel"
                 \/ t[i].mode = "transport" /\ t[i].key \in RuleSpis(f, "in")
    <3>1. t[i] \in Sas /\ t[i].key \in Spi
      BY <2>2, Spis
    <3>2. SpSpiPresent(f, t[i].key, "in") >= 0 <=> t[i].key \in RuleSpis(f, "in")
      BY <1>1, <2>2, <3>1, RulesSearched
    <3>3. t[i].mode \in Mode
      BY <3>1 DEF Sas
    <3> HIDE DEF t
    <3>4. CASE t[i].mode = "ip4-tunnel"
      BY <3>4 DEF SadFams, Fam
    <3>5. CASE t[i].mode = "ip6-tunnel"
      BY <3>5 DEF SadFams, Fam
    <3>6. CASE t[i].mode = "transport"
      BY <3>2, <3>6 DEF SadFams, Fam
    <3> QED
      BY <3>3, <3>4, <3>5, <3>6 DEF Mode
  <2> QED
    BY <2>1, <2>4, <2>5 DEF Wanted
<1>4. ASSUME pc' = "exit" PROVE Cause
  <2> SUFFICES ASSUME AllAddable PROVE Cause
    BY DEF Cause
  <2>1. PICK d \in Dir : enable /\ ~SatblInit(d)
    BY <1>1, <1>4
  <2>2. PICK i \in 1 .. Len(sa[d]) : ~(i <= Added(d) + 1 /\ GetSpiProto(sa[d][i].key, d))
    BY <2>1 DEF SatblInit
  <2>3. Added(d) = Len(sa[d]) /\ Len(sa[d]) \in Nat
    BY AllAdded DEF TypeInv
  <2>4. ~GetSpiProto(sa[d][i].key, d)
    BY <2>2, <2>3
  <2>5. sa[d][i].key \in Spi /\ sa[d][i].key \in SaSpis(d)
    BY Spis
  <2>6. sa[d][i].key \in RuleSpis("ip4", d) <=> sa[d][i].key \in RuleSpis("ip6", d)
    BY <1>1, <2>4, <2>5, ProtoDecides
  <2> QED
    BY <2>1, <2>5, <2>6 DEF Cause
<1>5. pc' # "sa_init"
  BY <1>1
<1> QED
  BY <1>2, <1>3, <1>4, <1>5 DEF SocketInv

LEMMA SpInitSocket ==
  ASSUME NbSockets = 1, TypeInv, PolicyInv, TablesInv, SocketInv,
         NEW f \in Fam, SpInit(f), UNCHANGED <<enable, sa, sad>>,
         pc = IF f = "ip4" THEN "sp4_init" ELSE "sp6_init"
  PROVE  SocketInv'
<1>1. sock = 1 /\ Sockets = {1} /\ pc \notin {"parsed", "sa_init", "exit"}
  BY OnlySocket
<1>2. CASE (\E d \in Dir : ~CheckSpiValue(f, d)) /\ pc' = "exit" /\ UNCHANGED <<sock, sp, sp_ctx>>
  <2>1. /\ AllAddable' <=> AllAddable
        /\ \A g \in Fam : Wanted(g)' = Wanted(g)
        /\ Cause' <=> Cause
    BY <1>2 DEF AllAddable, Wanted, Cause, RuleSpis, SaSpis
  <2>2. Cause
    <3> SUFFICES ASSUME AllAddable PROVE Cause
      BY DEF Cause
    <3>1. PICK d \in Dir : ~CheckSpiValue(f, d)
      BY <1>2
    <3> DEFINE s == sp[f][d]
               t == sa[d]
    <3>2. DOMAIN s = 1 .. Len(s) /\ s \in Seq(Rules) /\ t \in Seq(Sas)
      BY DEF TypeInv
    <3>3. sa_ctx[1][d] = t /\ Searchable(t)
      BY <1>1 DEF TablesInv
    <3>4. PICK i \in 1 .. Len(s) : Protects(s[i]) /\ ~(BSearch(t, s[i].key) >= 0)
      BY <1>1, <3>1, <3>2, <3>3 DEF CheckSpiValue, SaSpiPresent
    <3>5. s[i].key = s[i].spi
      BY <1>1 DEF PolicyInv, Fresh, Fam
    <3>6. s[i].spi \in RuleSpis(f, d) /\ SaSpis(d) = {t[k].key : k \in 1 .. Len(t)}
      BY Spis
    <3> HIDE DEF s, t
    <3>7. s[i] \in Rules
      BY <3>2
    <3>8. s[i].key \in Spi
      BY <3>7 DEF Rules
    <3>9. s[i].key \notin {t[k].key : k \in 1 .. Len(t)}
      BY <3>2, <3>3, <3>4, <3>8, BSearchDecides
    <3> QED
      BY <3>4, <3>5, <3>6, <3>9 DEF Cause, Protects
  <2> QED
    BY <1>1, <1>2, <2>1, <2>2 DEF SocketInv
<1>3. CASE /\ \A d \in Dir : CheckSpiValue(f, d)
           /\ sp' = [sp EXCEPT ![f] = [d \in Dir |-> Resolved(f, d)]]
           /\ pc' \in {"sp6_init", "run"}
  <2>1. \A g \in Fam, d \in Dir : RuleSpis(g, d)' = RuleSpis(g, d)
    <3> SUFFICES ASSUME NEW g \in Fam, NEW d \in Dir PROVE RuleSpis(g, d)' = RuleSpis(g, d)
      OBVIOUS
    <3>1. CASE g # f
      BY <1>3, <3>1 DEF TypeInv, RuleSpis
    <3>2. CASE g = f
      <4> DEFINE s == sp[f][d]
                 q == Resolved(f, d)
      <4>1. sp'[g][d] = q
        BY <1>3, <3>2 DEF TypeInv
      <4>2. /\ q \in Seq(Rules) /\ Len(q) = Len(s)
            /\ \A i \in 1 .. Len(s) : q[i].spi = s[i].spi
        BY <1>3, ResolvedFacts
      <4>3. DOMAIN s = 1 .. Len(s)
        BY DEF TypeInv
      <4>4. DOMAIN q = 1 .. Len(s)
        BY <4>2
      <4>5. RuleSpis(g, d) = {s[i].spi : i \in DOMAIN s}
        BY <3>2 DEF RuleSpis
      <4>6. RuleSpis(g, d)' = {q[i].spi : i \in DOMAIN q}
        BY <4>1 DEF RuleSpis
      <4> HIDE DEF s, q
      <4> QED
        BY <4>2, <4>3, <4>4, <4>5, <4>6
    <3> QED
      BY <3>1, <3>2
  <2>2. /\ AllAddable' <=> AllAddable
        /\ \A g \in Fam : Wanted(g)' = Wanted(g)
    BY <2>1 DEF AllAddable, Wanted, Dir
  <2> QED
    BY <1>1, <1>3, <2>2 DEF SocketInv
<1> QED
  BY <1>1, <1>2, <1>3 DEF SpInit

LEMMA NextSocketInv ==
  ASSUME NbSockets = 1, NarrowTables
  PROVE  TypeInv /\ PolicyInv /\ TablesInv /\ SocketInv /\ [Next]_vars => SocketInv'
<1> SUFFICES ASSUME TypeInv, PolicyInv, TablesInv, SocketInv, [Next]_vars PROVE SocketInv'
  OBVIOUS
<1>1. CASE SortArrays
  <2>1. pc' = "sa_init"
    BY <1>1 DEF SortArrays
  <2> QED
    BY <1>1, <2>1, SortTables DEF SocketInv
<1>2. CASE SaInit
  BY <1>2, SaInitSocket
<1>3. CASE Sp4Init
  BY <1>3, SpInitSocket DEF Sp4Init, Fam
<1>4. CASE Sp6Init
  BY <1>4, SpInitSocket DEF Sp6Init, Fam
<1>5. CASE UNCHANGED vars
  <2>1. /\ AllAddable' <=> AllAddable
        /\ \A g \in Fam : Wanted(g)' = Wanted(g)
        /\ Cause' <=> Cause
    BY <1>5 DEF vars, AllAddable, Wanted, Cause, RuleSpis, SaSpis
  <2> QED
    BY <1>5, <2>1 DEF vars, SocketInv
<1> QED
  BY <1>1, <1>2, <1>3, <1>4, <1>5 DEF Next

OneSocketInv == TypeInv /\ PolicyInv /\ TablesInv /\ SocketInv

LEMMA OneSocketInvariant ==
  ASSUME NbSockets = 1, NarrowTables
  PROVE  Spec => []OneSocketInv
<1>1. Init => OneSocketInv
  BY InitTypeInv, InitPolicyInv, InitTablesInv DEF Init, SocketInv, OneSocketInv
<1>2. OneSocketInv /\ [Next]_vars => OneSocketInv'
  BY NextTypeInv, NextPolicyInv, NextTablesInv, NextSocketInv DEF OneSocketInv
<1> QED
  BY <1>1, <1>2, PTL DEF Spec

(* With one socket and SPIs below 2^31 - 1, sa_init, sp4_init and sp6_init *)
(* end the application only for a reason in the configuration.             *)
THEOREM ExitHasCause == NbSockets = 1 /\ NarrowTables => (Spec => []ExitsForCause)
<1> SUFFICES ASSUME NbSockets = 1, NarrowTables PROVE Spec => []ExitsForCause
  OBVIOUS
<1>1. OneSocketInv => ExitsForCause
  BY DEF OneSocketInv, SocketInv, ExitsForCause, Cause
<1> QED
  BY <1>1, OneSocketInvariant, PTL

(* With one socket and SPIs below 2^31 - 1, when main has initialised      *)
(* everything and every SA could be added, the SAD holds for each family   *)
(* exactly the inbound SAs that its packets can name.                      *)
THEOREM SadHoldsThePolicys == NbSockets = 1 /\ NarrowTables => (Spec => []SadMatchesPolicy)
<1> SUFFICES ASSUME NbSockets = 1, NarrowTables PROVE Spec => []SadMatchesPolicy
  OBVIOUS
<1>1. OneSocketInv => SadMatchesPolicy
  <2> SUFFICES ASSUME TypeInv, TablesInv, SocketInv, pc = "run", AllAddable
               PROVE  SadMatchesPolicy
    BY DEF OneSocketInv, SadMatchesPolicy
  <2>1. Sockets = {1} /\ sock = 1
    BY OnlySocket
  <2>2. sa_ctx[1]["in"] = sa["in"] /\ DOMAIN sa["in"] = 1 .. Len(sa["in"])
    BY <2>1 DEF TablesInv, TypeInv, Dir
  <2>3. \A f \in Fam : sad[1][f] = Wanted(f)
    BY DEF SocketInv
  <2>4. ASSUME NEW s \in Sockets, NEW f \in Fam
        PROVE  {sa_ctx[s]["in"][i].key : i \in sad[s][f]} =
                 {sa["in"][i].key : i \in {j \in DOMAIN sa["in"] :
                    \/ sa["in"][j].mode = IF f = "ip4" THEN "ip4-tunnel" ELSE "ip6-tunnel"
                    \/ /\ sa["in"][j].mode = "transport"
                       /\ sa["in"][j].key \in RuleSpis(f, "in")}}
    BY <2>1, <2>2, <2>3 DEF Wanted
  <2> QED
    BY <2>4, Zenon DEF SadMatchesPolicy
<1> QED
  BY <1>1, OneSocketInvariant, PTL
=============================================================================
