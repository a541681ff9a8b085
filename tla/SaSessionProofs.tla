-------------------------- MODULE SaSessionProofs ---------------------------
(***************************************************************************)
(* Crypto devices and sessions: the mapping of queue pairs is exclusive,   *)
(* sound and complete, and what an lcore enqueues can be processed, before *)
(* and while the lcores run.                                               *)
(***************************************************************************)
EXTENDS SaSession, FiniteSetTheorems, TLAPS

(***************************************************************************)
(* cryptodevs_init gives every queue pair to one context and maps          *)
(* algorithms to devices that have them, for every number of devices,      *)
(* contexts, queue pairs and algorithms, provided that the hash tables     *)
(* have an entry for every key.                                            *)
(*                                                                         *)
(* Exclusiveness is inductive with a bound that links the entries of the   *)
(* current device to qp, the queue pairs given out so far, and qp to the   *)
(* number the device will be configured with.                              *)
(***************************************************************************)

(* 16384 entries, one key for each context and algorithm. *)
MapsFit ==
  IsFiniteSet(Ctx \X Algos) /\ Cardinality(Ctx \X Algos) <= CDEV_MAP_ENTRIES

QpEntry == [id : Cdevs, qp : Nat]

MapShape ==
  /\ conf \in Confs
  /\ cdev \in 0 .. NbCdevs
  /\ idx \in 0 .. NbParams - 1 /\ i \in 0 .. NbParams /\ qp \in 0 .. i
  /\ tbl \in [Ctx -> Seq(QpEntry)]
  /\ \A c \in Ctx : Len(tbl[c]) <= MAX_QP_PER_LCORE
  /\ map \in [Ctx -> [Algos -> Nat \cup {NoEnt}]]
  /\ nbqps \in [Cdevs -> Nat]

(* Queue pairs of devices the outer loop has not reached are not given out.*)
GivenOut ==
  /\ cdev < NbCdevs => qp <= MaxNbQps
  /\ \A c \in Ctx : \A k \in DOMAIN tbl[c] :
       LET e == tbl[c][k] IN
       /\ e.id <= cdev
       /\ e.id = cdev => e.qp < qp
       /\ e.id < cdev => e.qp < nbqps[e.id]

Exclusive ==
  \A c, d \in Ctx : \A k \in DOMAIN tbl[c], j \in DOMAIN tbl[d] :
    tbl[c][k] = tbl[d][j] => c = d /\ k = j

MapInv == MapShape /\ GivenOut /\ Exclusive /\ MapSound
-----------------------------------------------------------------------------
LEMMA MinPair ==
  ASSUME NEW a \in Int, NEW b \in Int
  PROVE  Min({a, b}) = IF a <= b THEN a ELSE b
  BY DEF Min

LEMMA MaxPair ==
  ASSUME NEW a \in Int, NEW b \in Int
  PROVE  Max({a, b}) = IF a >= b THEN a ELSE b
  BY DEF Max

LEMMA ConfFacts ==
  ASSUME MapShape
  PROVE  /\ conf.params \in Seq(Ctx) /\ NbParams \in Nat \ {0}
         /\ conf.caps \in [Cdevs -> SUBSET Algos]
         /\ conf.maxqps \in [Cdevs -> Nat \ {0}] /\ conf.req \in Nat
         /\ NbCdevs \in Nat /\ MAX_QP_PER_LCORE \in Nat
         /\ Param \in Ctx
         /\ cdev < NbCdevs => cdev \in Cdevs
<1>1. ConfOK(conf) /\ NbCdevs \in Nat /\ MAX_QP_PER_LCORE \in Nat
  BY CdevAssumption DEF MapShape
<1>2. conf.params \in Seq(Ctx) /\ conf.params # <<>>
  BY <1>1 DEF ConfOK
<1>3. NbParams \in Nat \ {0}
  BY <1>2 DEF NbParams
<1>4. Param \in Ctx
  BY <1>2, <1>3 DEF Param, MapShape, NbParams
<1>5. cdev < NbCdevs => cdev \in Cdevs
  BY <1>1 DEF MapShape, Cdevs
<1> QED
  BY <1>1, <1>2, <1>3, <1>4, <1>5 DEF ConfOK

LEMMA MaxNbQpsFacts ==
  ASSUME MapShape, cdev < NbCdevs
  PROVE  MaxNbQps \in Nat /\ MaxNbQps <= NbParams
<1>1. NbParams \in Nat /\ conf.maxqps[cdev] \in Nat
  BY ConfFacts
<1> QED
  BY <1>1, MinPair, SMTT(30) DEF MaxNbQps

LEMMA EntriesTyped ==
  ASSUME MapShape, NEW c \in Ctx, NEW k \in DOMAIN tbl[c]
  PROVE  /\ tbl[c][k] \in QpEntry /\ tbl[c][k].id \in Cdevs
         /\ tbl[c][k].id \in Nat /\ tbl[c][k].qp \in Nat
<1>1. tbl[c] \in Seq(QpEntry)
  BY DEF MapShape
<1>2. tbl[c][k] \in QpEntry
  BY <1>1
<1>3. Cdevs \subseteq Nat
  BY CdevAssumption DEF Cdevs
<1> QED
  BY <1>2, <1>3 DEF QpEntry

LEMMA InitMapInv == Init => MapInv
<1> SUFFICES ASSUME Init PROVE MapInv
  OBVIOUS
<1>1. ConfOK(conf) /\ NbCdevs \in Nat /\ MAX_QP_PER_LCORE \in Nat
  BY CdevAssumption DEF Init
<1>2. NbParams \in Nat \ {0}
  BY <1>1 DEF ConfOK, NbParams
<1>3. MapShape
  BY <1>1, <1>2 DEF Init, MapShape, NoEnt
<1>4. MaxNbQps \in Nat \/ ~(cdev < NbCdevs)
  BY <1>3, MaxNbQpsFacts
<1>5. GivenOut /\ Exclusive /\ MapSound
  BY <1>3, <1>4 DEF Init, GivenOut, Exclusive, MapSound
<1> QED
  BY <1>3, <1>5 DEF MapInv
-----------------------------------------------------------------------------
(* There is a free entry for an algorithm that is not mapped. *)
LEMMA RoomInMap ==
  ASSUME MapsFit, NEW c \in Ctx, NEW a \in Algos, map[c][a] = NoEnt
  PROVE  FreeEntries(c) \in Int /\ FreeEntries(c) >= 1
<1> DEFINE K == Ctx \X Algos
           T == {x \in K : x[1][2] = c[2] /\ map[x[1]][x[2]] # NoEnt}
<1>1. IsFiniteSet(K) /\ Cardinality(K) \in Nat /\ Cardinality(K) <= CDEV_MAP_ENTRIES
  BY FS_CardinalityType DEF MapsFit
<1>2. IsFiniteSet(K \ {<<c, a>>}) /\ Cardinality(K \ {<<c, a>>}) = Cardinality(K) - 1
  <2>1. <<c, a>> \in K
    OBVIOUS
  <2> QED
    BY <1>1, <2>1, FS_RemoveElement
<1>3. T \in SUBSET (K \ {<<c, a>>})
  OBVIOUS
<1>4. IsFiniteSet(T) /\ Cardinality(T) <= Cardinality(K \ {<<c, a>>}) /\ Cardinality(T) \in Nat
  BY <1>2, <1>3, FS_Subset, FS_CardinalityType
<1>5. FreeEntries(c) = CDEV_MAP_ENTRIES - Cardinality(T)
  BY DEF FreeEntries
<1> HIDE DEF K, T
<1> QED
  BY <1>1, <1>2, <1>4, <1>5, CdevAssumption

(* The algorithms that get in: some, if there are any. *)
LEMMA SomeMapped ==
  ASSUME MapsFit, MapShape, NEW c \in Ctx, cdev < NbCdevs, Unmapped(c) # {},
         NEW new \in SUBSET Unmapped(c),
         Cardinality(new) = Min({Cardinality(Unmapped(c)), FreeEntries(c)})
  PROVE  new # {}
<1>1. PICK a \in Unmapped(c) : a \in Algos /\ map[c][a] = NoEnt
  BY ConfFacts DEF Unmapped
<1>2. FreeEntries(c) \in Int /\ FreeEntries(c) >= 1
  BY <1>1, RoomInMap
<1>3. IsFiniteSet(Unmapped(c))
  <2> DEFINE K == Ctx \X Algos
             f == [x \in Unmapped(c) |-> <<c, x>>]
  <2>1. Unmapped(c) \subseteq Algos
    BY ConfFacts DEF Unmapped
  <2>2. f \in Injection(Unmapped(c), K)
    BY <2>1 DEF Injection, IsInjective
  <2> QED
    BY <2>2, FS_Injection DEF MapsFit
<1>4. Cardinality(Unmapped(c)) \in Nat /\ Cardinality(Unmapped(c)) # 0
  BY <1>3, FS_CardinalityType, FS_EmptySet
<1>5. Cardinality(new) # 0
  BY <1>2, <1>4, MinPair
<1> QED
  BY <1>5, FS_EmptySet
-----------------------------------------------------------------------------
LEMMA EntryFacts ==
  ASSUME MapShape, NEW c \in Ctx
  PROVE  \/ /\ \E k \in DOMAIN tbl[c] : tbl[c][k].id = cdev /\ Entry(c) = k - 1
            /\ Entry(c) \in 0 .. Len(tbl[c]) - 1
         \/ /\ \A k \in DOMAIN tbl[c] : tbl[c][k].id # cdev
            /\ Entry(c) = Len(tbl[c])
<1>1. tbl[c] \in Seq(QpEntry) /\ DOMAIN tbl[c] = 1 .. Len(tbl[c]) /\ Len(tbl[c]) \in Nat
  BY DEF MapShape
<1>2. CASE \E k \in DOMAIN tbl[c] : tbl[c][k].id = cdev
  <2> DEFINE k == CHOOSE k \in DOMAIN tbl[c] : tbl[c][k].id = cdev
  <2>1. k \in DOMAIN tbl[c] /\ tbl[c][k].id = cdev
    BY <1>2
  <2>2. Entry(c) = k - 1
    BY <1>2 DEF Entry
  <2> HIDE DEF k
  <2> QED
    BY <1>1, <2>1, <2>2
<1>3. CASE ~\E k \in DOMAIN tbl[c] : tbl[c][k].id = cdev
  BY <1>3 DEF Entry
<1> QED
  BY <1>2, <1>3

(* What one lcore parameter may change. *)
LEMMA MapParamFacts ==
  ASSUME MapsFit, MapInv, MapParam
  PROVE  \E c \in Ctx : \E new \in SUBSET Algos :
           /\ new \subseteq conf.caps[cdev]
           /\ \/ /\ tbl' = [tbl EXCEPT ![c] = Append(@, [id |-> cdev, qp |-> qp])]
                 /\ Len(tbl[c]) < MAX_QP_PER_LCORE
                 /\ qp' = qp + 1
                 /\ Entry(c) = Len(tbl[c])
              \/ /\ tbl' = tbl
                 /\ qp' \in {qp, qp + 1}
                 /\ new # {} => \E k \in DOMAIN tbl[c] :
                                  tbl[c][k].id = cdev /\ Entry(c) = k - 1
           /\ map' = [map EXCEPT ![c] = [a \in Algos |-> IF a \in new THEN Entry(c) ELSE @[a]]]
<1>1. PICK new \in SUBSET Algos : AddCdevMapping(Param, new) /\ qp' = NextQp(new)
  BY DEF MapParam
<1>2. MapShape /\ cdev < NbCdevs /\ Param \in Ctx
  BY ConfFacts DEF MapInv, MapParam
<1> DEFINE c == Param
<1>3. map' = [map EXCEPT ![c] = [a \in Algos |-> IF a \in new THEN Entry(c) ELSE @[a]]]
  BY <1>1 DEF AddCdevMapping
<1>4. qp' \in {qp, qp + 1}
  BY <1>1 DEF NextQp
<1>5. CASE Unmapped(c) # {} /\ TblHasRoom(c)
  <2>1. /\ new \subseteq Unmapped(c)
        /\ Cardinality(new) = Min({Cardinality(Unmapped(c)), FreeEntries(c)})
        /\ tbl' = [tbl EXCEPT ![c] =
                     IF Entry(c) = Len(@) THEN Append(@, [id |-> cdev, qp |-> qp]) ELSE @]
    BY <1>1, <1>5 DEF AddCdevMapping
  <2>2. new # {}
    BY <1>2, <1>5, <2>1, SomeMapped
  <2>3. new \subseteq conf.caps[cdev]
    BY <2>1 DEF Unmapped
  <2>4. CASE Entry(c) = Len(tbl[c])
    <3>1. tbl' = [tbl EXCEPT ![c] = Append(@, [id |-> cdev, qp |-> qp])]
      BY <2>1, <2>4
    <3>2. qp' = qp + 1 /\ Len(tbl[c]) < MAX_QP_PER_LCORE
      BY <1>1, <1>5, <2>2, <2>4 DEF NextQp, TblHasRoom
    <3> QED
      BY <1>2, <1>3, <2>3, <2>4, <3>1, <3>2
  <2>5. CASE Entry(c) # Len(tbl[c])
    <3>1. tbl' = tbl
      BY <1>2, <2>1, <2>5 DEF MapShape
    <3>2. \E k \in DOMAIN tbl[c] : tbl[c][k].id = cdev /\ Entry(c) = k - 1
      BY <1>2, <2>5, EntryFacts
    <3> QED
      BY <1>2, <1>3, <1>4, <2>3, <3>1, <3>2
  <2> QED
    BY <2>4, <2>5
<1>6. CASE ~(Unmapped(c) # {} /\ TblHasRoom(c))
  <2>1. new = {} /\ tbl' = tbl
    BY <1>1, <1>6 DEF AddCdevMapping
  <2> QED
    BY <1>2, <1>3, <1>4, <2>1
<1> QED
  BY <1>5, <1>6

LEMMA AppendFacts ==
  ASSUME NEW S, NEW s \in Seq(S), NEW e \in S
  PROVE  /\ Append(s, e) \in Seq(S) /\ Len(Append(s, e)) = Len(s) + 1
         /\ DOMAIN s = 1 .. Len(s) /\ DOMAIN Append(s, e) = 1 .. Len(s) + 1 /\ Len(s) \in Nat
         /\ \A k \in 1 .. Len(s) : Append(s, e)[k] = s[k]
         /\ Append(s, e)[Len(s) + 1] = e
  OBVIOUS

(* The current queue pair goes to context c. *)
LEMMA GiveQp ==
  ASSUME MapInv, cdev < NbCdevs, MoreParams, NEW c \in Ctx,
         tbl' = [tbl EXCEPT ![c] = Append(@, [id |-> cdev, qp |-> qp])],
         Len(tbl[c]) < MAX_QP_PER_LCORE, qp' = qp + 1, UNCHANGED <<conf, cdev, nbqps>>
  PROVE  /\ tbl' \in [Ctx -> Seq(QpEntry)]
         /\ \A d \in Ctx : Len(tbl'[d]) <= MAX_QP_PER_LCORE
         /\ GivenOut' /\ Exclusive'
         /\ \A d \in Ctx : \A k \in DOMAIN tbl[d] :
              k \in DOMAIN tbl'[d] /\ tbl'[d][k] = tbl[d][k]
         /\ Len(tbl[c]) + 1 \in DOMAIN tbl'[c] /\ tbl'[c][Len(tbl[c]) + 1].id = cdev
<1> DEFINE e == [id |-> cdev, qp |-> qp]
           n == Len(tbl[c]) + 1
<1>1. /\ MapShape /\ cdev \in Cdevs /\ cdev \in Nat /\ qp \in Nat /\ NbCdevs \in Nat
      /\ MAX_QP_PER_LCORE \in Nat
  <2>1. MapShape
    BY DEF MapInv
  <2>2. cdev \in Cdevs /\ NbCdevs \in Nat /\ MAX_QP_PER_LCORE \in Nat
    BY <2>1, ConfFacts
  <2>3. cdev \in Nat /\ qp \in Nat
    BY <2>1 DEF MapShape
  <2> QED
    BY <2>1, <2>2, <2>3
<1>2. e \in QpEntry /\ tbl[c] \in Seq(QpEntry)
  BY <1>1 DEF QpEntry, MapShape
<1>3. /\ Append(tbl[c], e) \in Seq(QpEntry) /\ Len(Append(tbl[c], e)) = n
      /\ DOMAIN tbl[c] = 1 .. Len(tbl[c]) /\ DOMAIN Append(tbl[c], e) = 1 .. n
      /\ Len(tbl[c]) \in Nat
      /\ \A k \in 1 .. Len(tbl[c]) : Append(tbl[c], e)[k] = tbl[c][k]
      /\ Append(tbl[c], e)[n] = e
  BY <1>2, AppendFacts
<1>4. tbl'[c] = Append(tbl[c], e) /\ \A d \in Ctx : d # c => tbl'[d] = tbl[d]
  BY <1>1 DEF MapShape
<1>5. tbl' \in [Ctx -> Seq(QpEntry)]
  BY <1>1, <1>3 DEF MapShape
<1>6. \A d \in Ctx : Len(tbl'[d]) <= MAX_QP_PER_LCORE
  BY <1>1, <1>3, <1>4 DEF MapShape
<1>7. \A d \in Ctx : \A k \in DOMAIN tbl[d] : k \in DOMAIN tbl'[d] /\ tbl'[d][k] = tbl[d][k]
  BY <1>3, <1>4
<1>8. /\ n \in DOMAIN tbl'[c] /\ tbl'[c][n] = e
      /\ e.id = cdev /\ e.qp = qp
  BY <1>3, <1>4
(* An entry is an old one or the new one. *)
<1>9. \A d \in Ctx : \A k \in DOMAIN tbl'[d] :
        \/ k \in DOMAIN tbl[d] /\ tbl'[d][k] = tbl[d][k]
        \/ d = c /\ k = n /\ tbl'[d][k] = e
  BY <1>3, <1>4
<1>10. \A d \in Ctx : \A k \in DOMAIN tbl[d] :
         tbl[d][k] \in QpEntry /\ tbl[d][k].id \in Nat /\ tbl[d][k].qp \in Nat
  BY <1>1, EntriesTyped
<1> HIDE DEF e, n
<1>11. MaxNbQps' = MaxNbQps
  BY DEF MaxNbQps, NbParams
<1>12. GivenOut'
  <2>1. (cdev < NbCdevs => qp <= MaxNbQps)'
    BY <1>1, <1>11, MaxNbQpsFacts DEF MoreParams
  <2>2. ASSUME NEW d \in Ctx, NEW k \in DOMAIN tbl'[d]
        PROVE  /\ tbl'[d][k].id <= cdev
               /\ tbl'[d][k].id = cdev => tbl'[d][k].qp < qp + 1
               /\ tbl'[d][k].id < cdev => tbl'[d][k].qp < nbqps[tbl'[d][k].id]
    <3>1. CASE k \in DOMAIN tbl[d] /\ tbl'[d][k] = tbl[d][k]
      BY <1>1, <1>10, <3>1 DEF MapInv, GivenOut
    <3>2. CASE tbl'[d][k] = e
      BY <1>1, <1>8, <3>2
    <3> QED
      BY <1>9, <3>1, <3>2
  <2> QED
    BY <2>1, <2>2 DEF GivenOut
<1>13. Exclusive'
  <2> SUFFICES ASSUME NEW a \in Ctx, NEW b \in Ctx,
                      NEW k \in DOMAIN tbl'[a], NEW j \in DOMAIN tbl'[b],
                      tbl'[a][k] = tbl'[b][j]
               PROVE  a = b /\ k = j
    BY DEF Exclusive
  <2>1. \A d \in Ctx : \A x \in DOMAIN tbl[d] : tbl[d][x] # e
    BY <1>1, <1>8, <1>10 DEF MapInv, GivenOut
  <2>2. CASE k \in DOMAIN tbl[a] /\ tbl'[a][k] = tbl[a][k]
    <3>1. j \in DOMAIN tbl[b] /\ tbl'[b][j] = tbl[b][j]
      BY <1>9, <2>1, <2>2
    <3> QED
      BY <2>2, <3>1 DEF MapInv, Exclusive
  <2>3. CASE a = c /\ k = n /\ tbl'[a][k] = e
    BY <1>9, <2>1, <2>3
  <2> QED
    BY <1>9, <2>2, <2>3
<1> QED
  BY <1>5, <1>6, <1>7, <1>8, <1>12, <1>13 DEF n

LEMMA MapParamStep ==
  ASSUME MapsFit, MapInv, MapParam
  PROVE  MapInv'
<1>1. PICK c \in Ctx : \E new \in SUBSET Algos :
        /\ new \subseteq conf.caps[cdev]
        /\ \/ /\ tbl' = [tbl EXCEPT ![c] = Append(@, [id |-> cdev, qp |-> qp])]
              /\ Len(tbl[c]) < MAX_QP_PER_LCORE
              /\ qp' = qp + 1
              /\ Entry(c) = Len(tbl[c])
           \/ /\ tbl' = tbl
              /\ qp' \in {qp, qp + 1}
              /\ new # {} => \E k \in DOMAIN tbl[c] :
                               tbl[c][k].id = cdev /\ Entry(c) = k - 1
        /\ map' = [map EXCEPT ![c] = [a \in Algos |-> IF a \in new THEN Entry(c) ELSE @[a]]]
  BY MapParamFacts
<1>2. PICK new \in SUBSET Algos :
        /\ new \subseteq conf.caps[cdev]
        /\ \/ /\ tbl' = [tbl EXCEPT ![c] = Append(@, [id |-> cdev, qp |-> qp])]
              /\ Len(tbl[c]) < MAX_QP_PER_LCORE
              /\ qp' = qp + 1
              /\ Entry(c) = Len(tbl[c])
           \/ /\ tbl' = tbl
              /\ qp' \in {qp, qp + 1}
              /\ new # {} => \E k \in DOMAIN tbl[c] :
                               tbl[c][k].id = cdev /\ Entry(c) = k - 1
        /\ map' = [map EXCEPT ![c] = [a \in Algos |-> IF a \in new THEN Entry(c) ELSE @[a]]]
  BY <1>1
<1>3. /\ cdev < NbCdevs /\ MoreParams
      /\ idx' = (idx + 1) % NbParams /\ i' = i + 1
      /\ UNCHANGED <<conf, cdev, nbqps>>
  BY DEF MapParam
<1>4. /\ MapShape /\ NbParams \in Nat \ {0} /\ qp \in Nat /\ i \in Nat /\ idx \in Nat
      /\ i < NbParams /\ NbParams' = NbParams /\ qp < MaxNbQps
  BY <1>3, ConfFacts, SMTT(30) DEF MapInv, MapShape, MoreParams, NbParams
<1>5. qp' \in {qp, qp + 1} /\ qp' \in 0 .. i'
  BY <1>2, <1>3, <1>4 DEF MapShape
<1>6. /\ tbl' \in [Ctx -> Seq(QpEntry)]
      /\ \A d \in Ctx : Len(tbl'[d]) <= MAX_QP_PER_LCORE
      /\ GivenOut' /\ Exclusive'
      /\ \A d \in Ctx : \A k \in DOMAIN tbl[d] :
           k \in DOMAIN tbl'[d] /\ tbl'[d][k] = tbl[d][k]
  <2>1. CASE /\ tbl' = [tbl EXCEPT ![c] = Append(@, [id |-> cdev, qp |-> qp])]
             /\ Len(tbl[c]) < MAX_QP_PER_LCORE /\ qp' = qp + 1
    BY <1>3, <2>1, GiveQp
  <2>2. CASE tbl' = tbl
    <3>1. MaxNbQps' = MaxNbQps /\ MaxNbQps \in Nat
      BY <1>3, <1>4, MaxNbQpsFacts DEF MaxNbQps, NbParams
    <3>2. \A d \in Ctx : \A k \in DOMAIN tbl[d] : tbl[d][k].id \in Nat /\ tbl[d][k].qp \in Nat
      BY <1>4, EntriesTyped
    <3>3. GivenOut'
      BY <1>3, <1>4, <1>5, <2>2, <3>1, <3>2 DEF GivenOut, MapInv
    <3> QED
      BY <1>4, <2>2, <3>3 DEF MapInv, MapShape, Exclusive
  <2> QED
    BY <1>2, <2>1, <2>2
<1>7. Entry(c) \in Nat
  BY <1>4, EntryFacts DEF MapShape
<1>8. MapShape'
  <2>1. map' \in [Ctx -> [Algos -> Nat \cup {NoEnt}]]
    BY <1>2, <1>4, <1>7 DEF MapShape
  <2>2. idx' \in 0 .. NbParams' - 1
    BY <1>3, <1>4
  <2> QED
    BY <1>3, <1>4, <1>5, <1>6, <2>1, <2>2 DEF MapShape
<1>9. MapSound'
  <2> SUFFICES ASSUME NEW d \in Ctx, NEW a \in Algos, map'[d][a] # NoEnt
               PROVE  /\ map'[d][a] + 1 \in DOMAIN tbl'[d]
                      /\ a \in conf.caps[tbl'[d][map'[d][a] + 1].id]
    BY <1>3 DEF MapSound
  <2>1. CASE d = c /\ a \in new
    <3>1. map'[d][a] = Entry(c) /\ a \in conf.caps[cdev]
      BY <1>2, <1>4, <2>1 DEF MapShape
    <3>2. CASE /\ tbl' = [tbl EXCEPT ![c] = Append(@, [id |-> cdev, qp |-> qp])]
               /\ Len(tbl[c]) < MAX_QP_PER_LCORE /\ qp' = qp + 1 /\ Entry(c) = Len(tbl[c])
      <4>1. Len(tbl[c]) + 1 \in DOMAIN tbl'[c] /\ tbl'[c][Len(tbl[c]) + 1].id = cdev
        BY <1>3, <3>2, GiveQp
      <4> QED
        BY <2>1, <3>1, <3>2, <4>1
    <3>3. CASE \E k \in DOMAIN tbl[c] : tbl[c][k].id = cdev /\ Entry(c) = k - 1
      <4>1. PICK k \in DOMAIN tbl[c] : tbl[c][k].id = cdev /\ Entry(c) = k - 1
        BY <3>3
      <4>2. k \in Nat
        BY <1>4 DEF MapShape
      <4>3. Entry(c) + 1 = k
        BY <4>1, <4>2
      <4> QED
        BY <1>6, <2>1, <3>1, <4>1, <4>3
    <3> QED
      BY <1>2, <2>1, <3>2, <3>3
  <2>2. CASE ~(d = c /\ a \in new)
    <3>1. map'[d][a] = map[d][a]
      BY <1>2, <1>4, <2>2 DEF MapShape
    <3>2. map[d][a] + 1 \in DOMAIN tbl[d] /\ a \in conf.caps[tbl[d][map[d][a] + 1].id]
      BY <3>1 DEF MapInv, MapSound
    <3> QED
      BY <1>6, <3>1, <3>2
  <2> QED
    BY <2>1, <2>2
<1> QED
  BY <1>6, <1>8, <1>9 DEF MapInv

(* The device gets at least the queue pairs that were given out. *)
LEMMA ConfigureStep ==
  ASSUME MapInv, ConfigureCdev
  PROVE  MapInv'
<1>1. /\ MapShape /\ cdev < NbCdevs /\ cdev \in Cdevs /\ cdev \in Nat /\ NbCdevs \in Nat
      /\ qp \in Nat /\ qp <= MaxNbQps /\ MaxNbQps \in Nat /\ conf.req \in Nat
  BY ConfFacts, MaxNbQpsFacts, SMTT(30) DEF MapInv, MapShape, GivenOut, ConfigureCdev
<1>2. /\ nbqps' = [nbqps EXCEPT ![cdev] = ConfiguredQps]
      /\ cdev' = cdev + 1 /\ qp' = 0 /\ i' = 0
      /\ UNCHANGED <<conf, idx, tbl, map>>
  BY DEF ConfigureCdev
<1>3. ConfiguredQps \in Nat /\ qp <= ConfiguredQps
  <2>1. Max({conf.req, qp}) \in Nat /\ Max({conf.req, qp}) >= qp
    BY <1>1, MaxPair
  <2> QED
    BY <1>1, <2>1, MinPair DEF ConfiguredQps
<1>4. MapShape'
  BY <1>1, <1>2, <1>3 DEF MapShape, NbParams
<1>5. GivenOut'
  <2>1. (cdev < NbCdevs => qp <= MaxNbQps)'
    <3> SUFFICES ASSUME cdev + 1 < NbCdevs PROVE 0 <= MaxNbQps'
      BY <1>2
    <3>1. NbParams \in Nat /\ conf.maxqps[cdev + 1] \in Nat
      <4>1. cdev + 1 \in Cdevs
        BY <1>1 DEF Cdevs
      <4> QED
        BY <1>1, <4>1, ConfFacts
    <3>2. MaxNbQps' = Min({NbParams, conf.maxqps[cdev + 1]})
      BY <1>2 DEF MaxNbQps, NbParams
    <3> QED
      BY <3>1, <3>2, MinPair
  <2>2. ASSUME NEW c \in Ctx, NEW k \in DOMAIN tbl[c]
        PROVE  LET e == tbl[c][k] IN
               /\ e.id <= cdev + 1
               /\ e.id = cdev + 1 => e.qp < 0
               /\ e.id < cdev + 1 => e.qp < nbqps'[e.id]
    <3>1. /\ tbl[c][k].id \in Cdevs /\ tbl[c][k].id \in Nat /\ tbl[c][k].qp \in Nat
          /\ tbl[c][k].id <= cdev
          /\ tbl[c][k].id = cdev => tbl[c][k].qp < qp
          /\ tbl[c][k].id < cdev => tbl[c][k].qp < nbqps[tbl[c][k].id]
      BY <1>1, EntriesTyped DEF MapInv, GivenOut
    <3>2. CASE tbl[c][k].id = cdev
      BY <1>1, <1>2, <1>3, <3>1, <3>2, SMTT(30) DEF MapShape
    <3>3. CASE tbl[c][k].id < cdev
      BY <1>1, <1>2, <3>1, <3>3 DEF MapShape
    <3> QED
      BY <1>1, <3>1, <3>2, <3>3
  <2> QED
    BY <1>2, <2>1, <2>2 DEF GivenOut
<1>6. Exclusive' /\ MapSound'
  BY <1>2 DEF MapInv, Exclusive, MapSound
<1> QED
  BY <1>4, <1>5, <1>6 DEF MapInv

LEMMA NextMapInv == MapsFit /\ MapInv /\ [MapNext]_mapvars => MapInv'
<1> SUFFICES ASSUME MapsFit, MapInv, [MapNext]_mapvars PROVE MapInv'
  OBVIOUS
<1>1. CASE MapParam
  BY <1>1, MapParamStep
<1>2. CASE ConfigureCdev
  BY <1>2, ConfigureStep
<1>3. CASE UNCHANGED mapvars
  BY <1>3 DEF MapInv, MapShape, GivenOut, Exclusive, MapSound, mapvars, MaxNbQps, NbParams
<1> QED
  BY <1>1, <1>2, <1>3 DEF MapNext

LEMMA MapInvImplies == MapInv => MapTypeOK /\ QpExclusive /\ MapSound
<1> SUFFICES ASSUME MapInv PROVE MapTypeOK /\ QpExclusive /\ MapSound
  OBVIOUS
<1>1. MapTypeOK
  BY DEF MapInv, MapShape, MapTypeOK, QpEntry
<1>2. \A s \in Slots : s[1] \in Ctx /\ s[2] \in DOMAIN tbl[s[1]] /\ s = <<s[1], s[2]>>
  BY DEF Slots
<1>3. QpExclusive
  BY <1>2 DEF MapInv, Exclusive, GivenOut, QpExclusive
<1> QED
  BY <1>1, <1>3 DEF MapInv
-----------------------------------------------------------------------------
(* No algorithm is left out without cause.  Of each device the outer loop  *)
(* has reached, the entries are counted; of the current one, so are the    *)
(* parameters the inner loop has visited: the i before idx, wrapping       *)
(* around.                                                                 *)
DevSlots(d) == {s \in Slots : tbl[s[1]][s[2]].id = d}

AllMapped(c, d) == \A a \in conf.caps[d] : map[c][a] # NoEnt

Served(c, d) == AllMapped(c, d) \/ Len(tbl[c]) = MAX_QP_PER_LCORE

Distance(n) == IF n <= idx THEN idx - n ELSE idx - n + NbParams

Exhausted(d) == Cardinality(DevSlots(d)) = Min({NbParams, conf.maxqps[d]})

Counted ==
  /\ \A d \in Cdevs : IsFiniteSet(DevSlots(d))
  /\ cdev < NbCdevs => Cardinality(DevSlots(cdev)) = qp

(* A context with an entry for the current device got all it could.        *)
EntryMapsAll ==
  \A c \in Ctx : \A k \in DOMAIN tbl[c] : tbl[c][k].id = cdev => AllMapped(c, cdev)

VisitedServed ==
  cdev < NbCdevs =>
    \A n \in 1 .. NbParams : Distance(n) < i => Served(conf.params[n], cdev)

DevicesDone ==
  \A d \in Cdevs : d < cdev =>
    Exhausted(d) \/ \A n \in 1 .. NbParams : Served(conf.params[n], d)

CompleteInv == MapInv /\ Counted /\ EntryMapsAll /\ VisitedServed /\ DevicesDone
-----------------------------------------------------------------------------
LEMMA SlotFacts ==
  ASSUME NEW s \in Slots
  PROVE  s[1] \in Ctx /\ s[2] \in DOMAIN tbl[s[1]] /\ s = <<s[1], s[2]>>
  BY DEF Slots

LEMMA LaterUnused ==
  ASSUME MapInv, NEW d \in Cdevs, d > cdev
  PROVE  DevSlots(d) = {}
<1> SUFFICES ASSUME NEW s \in DevSlots(d) PROVE FALSE
  OBVIOUS
<1>1. /\ s[1] \in Ctx /\ s[2] \in DOMAIN tbl[s[1]]
      /\ tbl[s[1]][s[2]].id = d
  BY SlotFacts DEF DevSlots
<1>2. tbl[s[1]][s[2]].id <= cdev
  BY <1>1 DEF MapInv, GivenOut
<1>3. d \in Int /\ cdev \in Int
  BY CdevAssumption DEF Cdevs, MapInv, MapShape
<1> QED
  BY <1>1, <1>2, <1>3

(* There is a free entry for each algorithm that is not mapped. *)
LEMMA RoomForAll ==
  ASSUME MapsFit, MapShape, NEW c \in Ctx, cdev < NbCdevs
  PROVE  /\ IsFiniteSet(Unmapped(c)) /\ Unmapped(c) \subseteq Algos
         /\ FreeEntries(c) \in Int /\ FreeEntries(c) >= Cardinality(Unmapped(c))
<1> DEFINE K == Ctx \X Algos
           U == Unmapped(c)
           V == {c} \X U
           T == {x \in K : x[1][2] = c[2] /\ map[x[1]][x[2]] # NoEnt}
           f == [x \in U |-> <<c, x>>]
<1>1. U \subseteq Algos /\ \A a \in U : map[c][a] = NoEnt
  BY ConfFacts DEF Unmapped
<1>2. IsFiniteSet(K) /\ Cardinality(K) <= CDEV_MAP_ENTRIES /\ Cardinality(K) \in Nat
  BY FS_CardinalityType DEF MapsFit
<1>3. V \subseteq K /\ T \subseteq K /\ V \cap T = {}
  BY <1>1
<1>4. f \in Injection(U, V)
  BY <1>1 DEF Injection, IsInjective
<1>5. IsFiniteSet(V) /\ IsFiniteSet(T) /\ IsFiniteSet(V \cup T)
      /\ Cardinality(V \cup T) <= Cardinality(K)
  <2>1. V \in SUBSET K /\ T \in SUBSET K /\ V \cup T \in SUBSET K
    BY <1>3
  <2> QED
    BY <1>2, <2>1, FS_Subset
<1>6. IsFiniteSet(U) /\ Cardinality(U) <= Cardinality(V)
  BY <1>4, <1>5, FS_Injection
<1>7. Cardinality(V \cup T) = Cardinality(V) + Cardinality(T) - 0
  BY <1>3, <1>5, FS_Union, FS_EmptySet
<1>8. FreeEntries(c) = CDEV_MAP_ENTRIES - Cardinality(T)
  BY DEF FreeEntries
<1>9. /\ Cardinality(U) \in Nat /\ Cardinality(V) \in Nat /\ Cardinality(T) \in Nat
      /\ CDEV_MAP_ENTRIES \in Nat
  BY <1>5, <1>6, FS_CardinalityType, CdevAssumption
<1> HIDE DEF K, U, V, T, f
<1>10. FreeEntries(c) \in Int /\ FreeEntries(c) >= Cardinality(U)
  BY <1>2, <1>5, <1>6, <1>7, <1>8, <1>9
<1> QED
  BY <1>1, <1>6, <1>10 DEF U

LEMMA AllGetIn ==
  ASSUME MapsFit, MapShape, NEW c \in Ctx, cdev < NbCdevs,
         NEW new \in SUBSET Unmapped(c),
         Cardinality(new) = Min({Cardinality(Unmapped(c)), FreeEntries(c)})
  PROVE  new = Unmapped(c)
<1>1. /\ IsFiniteSet(Unmapped(c))
      /\ FreeEntries(c) \in Int /\ FreeEntries(c) >= Cardinality(Unmapped(c))
  BY RoomForAll
<1>2. Cardinality(Unmapped(c)) \in Nat
  BY <1>1, FS_CardinalityType
<1>3. Cardinality(new) = Cardinality(Unmapped(c))
  BY <1>1, <1>2, MinPair
<1> QED
  BY <1>1, <1>3, FS_Subset

(* A parameter takes a queue pair for all its algorithms, or nothing.      *)
LEMMA MapParamExact ==
  ASSUME MapsFit, MapInv, EntryMapsAll, MapParam
  PROVE  \/ /\ tbl' = [tbl EXCEPT ![Param] = Append(@, [id |-> cdev, qp |-> qp])]
            /\ Len(tbl[Param]) < MAX_QP_PER_LCORE
            /\ qp' = qp + 1
            /\ map' = [map EXCEPT ![Param] =
                         [a \in Algos |-> IF a \in Unmapped(Param) THEN Len(tbl[Param]) ELSE @[a]]]
         \/ /\ tbl' = tbl /\ qp' = qp /\ map' = map
            /\ Served(Param, cdev)
<1> DEFINE c == Param
<1>1. PICK new \in SUBSET Algos : AddCdevMapping(c, new) /\ qp' = NextQp(new)
  BY DEF MapParam
<1>2. /\ MapShape /\ cdev < NbCdevs /\ c \in Ctx /\ conf.caps[cdev] \in SUBSET Algos
      /\ tbl[c] \in Seq(QpEntry) /\ Len(tbl[c]) \in Nat /\ Len(tbl[c]) <= MAX_QP_PER_LCORE
      /\ MAX_QP_PER_LCORE \in Nat
  BY ConfFacts, SMTT(30) DEF MapInv, MapParam, MapShape
<1>3. map' = [map EXCEPT ![c] = [a \in Algos |-> IF a \in new THEN Entry(c) ELSE @[a]]]
  BY <1>1 DEF AddCdevMapping
<1>4. (\E k \in DOMAIN tbl[c] : tbl[c][k].id = cdev) => Unmapped(c) = {}
  BY <1>2 DEF EntryMapsAll, AllMapped, Unmapped
<1>5. CASE Unmapped(c) # {} /\ TblHasRoom(c)
  <2>1. /\ new \subseteq Unmapped(c)
        /\ Cardinality(new) = Min({Cardinality(Unmapped(c)), FreeEntries(c)})
        /\ tbl' = [tbl EXCEPT ![c] =
                     IF Entry(c) = Len(@) THEN Append(@, [id |-> cdev, qp |-> qp]) ELSE @]
    BY <1>1, <1>5 DEF AddCdevMapping
  <2>2. new = Unmapped(c)
    BY <1>2, <2>1, AllGetIn
  <2>3. Entry(c) = Len(tbl[c])
    BY <1>2, <1>4, <1>5, EntryFacts
  <2>4. tbl' = [tbl EXCEPT ![c] = Append(@, [id |-> cdev, qp |-> qp])]
    BY <2>1, <2>3
  <2>5. qp' = qp + 1 /\ Len(tbl[c]) < MAX_QP_PER_LCORE
    BY <1>1, <1>5, <2>2, <2>3 DEF NextQp, TblHasRoom
  <2>6. map' = [map EXCEPT ![c] =
                  [a \in Algos |-> IF a \in Unmapped(c) THEN Len(tbl[c]) ELSE @[a]]]
    BY <1>3, <2>2, <2>3
  <2> QED
    BY <2>4, <2>5, <2>6
<1>6. CASE ~(Unmapped(c) # {} /\ TblHasRoom(c))
  <2>1. new = {} /\ tbl' = tbl
    BY <1>1, <1>6 DEF AddCdevMapping
  <2>2. qp' = qp
    BY <1>1, <2>1 DEF NextQp
  <2>3. map' = map
    <3>1. map \in [Ctx -> [Algos -> Nat \cup {NoEnt}]]
      BY <1>2 DEF MapShape
    <3>2. [a \in Algos |-> IF a \in new THEN Entry(c) ELSE map[c][a]] = map[c]
      BY <1>2, <2>1, <3>1
    <3>3. map' = [map EXCEPT ![c] = map[c]]
      BY <1>3, <3>2
    <3> QED
      BY <3>1, <3>3
  <2>4. Served(c, cdev)
    <3>1. CASE Unmapped(c) = {}
      BY <1>2, <3>1 DEF Unmapped, Served, AllMapped
    <3>2. CASE ~TblHasRoom(c) /\ Unmapped(c) # {}
      <4>1. Entry(c) = Len(tbl[c])
        BY <1>2, <1>4, <3>2, EntryFacts
      <4> QED
        BY <1>2, <3>2, <4>1 DEF TblHasRoom, Served
    <3> QED
      BY <1>6, <3>1, <3>2
  <2> QED
    BY <2>1, <2>2, <2>3, <2>4
<1> QED
  BY <1>5, <1>6
-----------------------------------------------------------------------------
(* idx moves on: each visited parameter is one further away, and the one   *)
(* left behind is the nearest.                                             *)
LEMMA IdxMoves ==
  ASSUME NEW N \in Nat \ {0}, NEW x \in 0 .. N - 1
  PROVE  (x + 1) % N = IF x + 1 = N THEN 0 ELSE x + 1
<1>1. CASE x + 1 = N
  BY <1>1
<1>2. CASE x + 1 < N
  BY <1>2
<1> QED
  BY <1>1, <1>2

LEMMA DistanceMoves ==
  ASSUME MapShape, NEW n \in 1 .. NbParams, idx' = (idx + 1) % NbParams, conf' = conf
  PROVE  /\ n \in 1 .. NbParams'
         /\ n = idx + 1 \/ Distance(n)' = Distance(n) + 1
         /\ Distance(n) \in Nat /\ Distance(n) < NbParams
<1>1. NbParams \in Nat \ {0} /\ NbParams' = NbParams /\ idx \in 0 .. NbParams - 1
  BY ConfFacts DEF NbParams, MapShape
<1>2. idx' = IF idx + 1 = NbParams THEN 0 ELSE idx + 1
  BY <1>1, IdxMoves
<1>3. Distance(n)' = IF n <= idx' THEN idx' - n ELSE idx' - n + NbParams
  BY <1>1 DEF Distance
<1> QED
  BY <1>1, <1>2, <1>3 DEF Distance

(* What is mapped stays mapped, and a table does not shrink. *)
LEMMA ParamKeeps ==
  ASSUME MapsFit, MapInv, EntryMapsAll, MapParam
  PROVE  /\ \A c \in Ctx, d \in Cdevs : Served(c, d) => Served(c, d)'
         /\ \A c \in Ctx, d \in Cdevs : AllMapped(c, d) => AllMapped(c, d)'
         /\ \A c \in Ctx : c = Param => Served(c, cdev)' /\ cdev' = cdev
<1>1. /\ MapShape /\ cdev < NbCdevs /\ cdev \in Cdevs /\ Param \in Ctx
      /\ conf.caps \in [Cdevs -> SUBSET Algos]
      /\ UNCHANGED <<conf, cdev>>
  BY ConfFacts DEF MapInv, MapParam
<1>2. /\ tbl \in [Ctx -> Seq(QpEntry)] /\ \A c \in Ctx : Len(tbl[c]) \in Nat
      /\ map \in [Ctx -> [Algos -> Nat \cup {NoEnt}]]
  BY <1>1 DEF MapShape
<1>3. CASE tbl' = tbl /\ qp' = qp /\ map' = map /\ Served(Param, cdev)
  BY <1>1, <1>3 DEF Served, AllMapped
<1>4. CASE /\ tbl' = [tbl EXCEPT ![Param] = Append(@, [id |-> cdev, qp |-> qp])]
           /\ Len(tbl[Param]) < MAX_QP_PER_LCORE
           /\ map' = [map EXCEPT ![Param] =
                        [a \in Algos |-> IF a \in Unmapped(Param) THEN Len(tbl[Param]) ELSE @[a]]]
  <2> DEFINE p == Param
  <2>1. /\ \A c \in Ctx \ {p} : map'[c] = map[c] /\ tbl'[c] = tbl[c]
        /\ \A a \in Algos : map'[p][a] = IF a \in Unmapped(p) THEN Len(tbl[p]) ELSE map[p][a]
    BY <1>1, <1>2, <1>4
  <2>2. \A c \in Ctx, a \in Algos : map[c][a] # NoEnt => map'[c][a] # NoEnt
    BY <1>1, <1>2, <2>1 DEF NoEnt
  <2>3. \A c \in Ctx, d \in Cdevs : AllMapped(c, d) => AllMapped(c, d)'
    BY <1>1, <2>2 DEF AllMapped
  <2>4. \A c \in Ctx, d \in Cdevs : Served(c, d) => Served(c, d)'
    <3> SUFFICES ASSUME NEW c \in Ctx, NEW d \in Cdevs, Served(c, d) PROVE Served(c, d)'
      OBVIOUS
    <3>1. CASE AllMapped(c, d)
      BY <2>3, <3>1 DEF Served
    <3>2. CASE Len(tbl[c]) = MAX_QP_PER_LCORE
      <4>1. c # p
        BY <1>1, <1>2, <1>4, <3>2, CdevAssumption
      <4> QED
        BY <2>1, <3>2, <4>1 DEF Served
    <3> QED
      BY <3>1, <3>2 DEF Served
  <2>5. \A a \in conf.caps[cdev] : map'[p][a] # NoEnt
    BY <1>1, <1>2, <2>1 DEF NoEnt, Unmapped
  <2>6. \A c \in Ctx : c = p => Served(c, cdev)'
    BY <1>1, <2>5 DEF Served, AllMapped
  <2> QED
    BY <1>1, <2>3, <2>4, <2>6
<1> HIDE DEF Served, AllMapped
<1> QED
  BY <1>3, <1>4, MapParamExact
(* The entries of each device, one more of the current one if qp moved.    *)
LEMMA ParamCounts ==
  ASSUME MapsFit, MapInv, Counted, EntryMapsAll, MapParam
  PROVE  /\ Counted'
         /\ \A d \in Cdevs : d # cdev => DevSlots(d)' = DevSlots(d)
<1>1. /\ MapShape /\ cdev < NbCdevs /\ cdev \in Cdevs /\ Param \in Ctx /\ qp \in Nat
      /\ UNCHANGED <<conf, cdev>>
  BY ConfFacts, SMTT(30) DEF MapInv, MapParam, MapShape
<1>2. CASE tbl' = tbl /\ qp' = qp
  <2>1. \A d \in Cdevs : DevSlots(d)' = DevSlots(d)
    BY <1>2 DEF DevSlots, Slots
  <2> HIDE DEF DevSlots
  <2> QED
    BY <1>1, <1>2, <2>1 DEF Counted
<1>3. CASE /\ tbl' = [tbl EXCEPT ![Param] = Append(@, [id |-> cdev, qp |-> qp])]
           /\ qp' = qp + 1
  <2> DEFINE p == Param
             n == Len(tbl[p]) + 1
             e == [id |-> cdev, qp |-> qp]
  <2>1. tbl[p] \in Seq(QpEntry) /\ e \in QpEntry /\ e.id = cdev
    BY <1>1 DEF MapShape, QpEntry
  <2>2. /\ DOMAIN tbl[p] = 1 .. Len(tbl[p]) /\ DOMAIN Append(tbl[p], e) = 1 .. n
        /\ Len(tbl[p]) \in Nat
        /\ \A k \in 1 .. Len(tbl[p]) : Append(tbl[p], e)[k] = tbl[p][k]
        /\ Append(tbl[p], e)[n] = e
    BY <2>1, AppendFacts
  <2>3. /\ tbl'[p] = Append(tbl[p], e)
        /\ \A c \in Ctx : c # p => tbl'[c] = tbl[c]
    BY <1>1, <1>3 DEF MapShape
  <2>4. \A c \in Ctx : \A k \in DOMAIN tbl[c] : k \in DOMAIN tbl'[c] /\ tbl'[c][k] = tbl[c][k]
    BY <2>2, <2>3
  <2>5. \A c \in Ctx : \A k \in DOMAIN tbl'[c] :
          \/ k \in DOMAIN tbl[c]
          \/ c = p /\ k = n
    BY <2>2, <2>3
  <2>6. n \in DOMAIN tbl'[p] /\ n \notin DOMAIN tbl[p] /\ tbl'[p][n].id = cdev
    BY <2>1, <2>2, <2>3
  <2> HIDE DEF n, e
  <2>7. Slots' = Slots \cup {<<p, n>>}
    BY <1>1, <2>4, <2>5, <2>6 DEF Slots
  <2>8. <<p, n>> \notin Slots
    BY <2>6 DEF Slots
  <2>9. \A s \in Slots : tbl'[s[1]][s[2]] = tbl[s[1]][s[2]]
    BY <2>4, SlotFacts
  <2> DEFINE S(d) == {s \in Slots \cup {<<p, n>>} : tbl'[s[1]][s[2]].id = d}
  <2>10. \A d \in Cdevs : DevSlots(d)' = S(d)
    BY <2>7 DEF DevSlots
  <2>11. \A d \in Cdevs : d # cdev => S(d) = DevSlots(d)
    BY <2>6, <2>9 DEF DevSlots
  <2>12. S(cdev) = DevSlots(cdev) \cup {<<p, n>>}
    BY <2>6, <2>9 DEF DevSlots
  <2>13. <<p, n>> \notin DevSlots(cdev)
    BY <2>8 DEF DevSlots
  <2>14. DevSlots(cdev)' = DevSlots(cdev) \cup {<<p, n>>}
    <3>1. DevSlots(cdev)' = S(cdev)
      BY <1>1, <2>7 DEF DevSlots
    <3> QED
      BY <2>12, <3>1
  <2> HIDE DEF S, DevSlots, p
  <2>15. IsFiniteSet(DevSlots(cdev)) /\ Cardinality(DevSlots(cdev)) = qp
    BY <1>1 DEF Counted
  <2>16. IsFiniteSet(DevSlots(cdev)') /\ Cardinality(DevSlots(cdev)') = qp + 1
    BY <2>13, <2>14, <2>15, FS_AddElement
  <2>17. \A d \in Cdevs : d # cdev => DevSlots(d)' = DevSlots(d)
    BY <2>10, <2>11
  <2>18. \A d \in Cdevs : IsFiniteSet(DevSlots(d)')
    <3> SUFFICES ASSUME NEW d \in Cdevs PROVE IsFiniteSet(DevSlots(d)')
      OBVIOUS
    <3>1. CASE d # cdev
      BY <2>17, <3>1 DEF Counted
    <3>2. CASE d = cdev
      BY <1>1, <2>10, <2>11, <2>12, <2>14, <2>16, <3>2
    <3> QED
      BY <3>1, <3>2
  <2> QED
    BY <1>1, <1>3, <2>16, <2>17, <2>18 DEF Counted
<1> QED
  BY <1>2, <1>3, MapParamExact

LEMMA MapParamComplete ==
  ASSUME MapsFit, CompleteInv, MapParam
  PROVE  CompleteInv'
<1>1. /\ MapInv /\ Counted /\ EntryMapsAll /\ VisitedServed /\ DevicesDone
      /\ MapShape /\ cdev < NbCdevs /\ cdev \in Cdevs /\ Param \in Ctx
      /\ idx' = (idx + 1) % NbParams /\ i' = i + 1
      /\ UNCHANGED <<conf, cdev>> /\ NbParams' = NbParams
      /\ conf.params \in Seq(Ctx) /\ NbCdevs \in Nat
  BY ConfFacts DEF CompleteInv, MapInv, MapParam, NbParams
<1>2. MapInv'
  BY <1>1, MapParamStep
<1>3. Counted' /\ \A d \in Cdevs : d # cdev => DevSlots(d)' = DevSlots(d)
  BY <1>1, ParamCounts
<1>4. /\ \A c \in Ctx, d \in Cdevs : Served(c, d) => Served(c, d)'
      /\ \A c \in Ctx, d \in Cdevs : AllMapped(c, d) => AllMapped(c, d)'
      /\ \A c \in Ctx : c = Param => Served(c, cdev)'
  BY <1>1, ParamKeeps
<1>5. \A n \in 1 .. NbParams : conf.params[n] \in Ctx
  BY <1>1 DEF NbParams
<1>6. EntryMapsAll'
  <2> SUFFICES ASSUME NEW c \in Ctx, NEW k \in DOMAIN tbl'[c], tbl'[c][k].id = cdev
               PROVE  AllMapped(c, cdev)'
    BY <1>1 DEF EntryMapsAll
  <2>1. CASE /\ tbl' = [tbl EXCEPT ![Param] = Append(@, [id |-> cdev, qp |-> qp])]
             /\ map' = [map EXCEPT ![Param] =
                          [a \in Algos |-> IF a \in Unmapped(Param) THEN Len(tbl[Param]) ELSE @[a]]]
    <3>1. CASE c = Param
      <4>1. conf.caps[cdev] \subseteq Algos /\ Len(tbl[c]) \in Nat
        BY <1>1, <3>1, ConfFacts, SMTT(30) DEF MapShape
      <4>2. \A a \in conf.caps[cdev] : map'[c][a] # NoEnt
        BY <1>1, <2>1, <3>1, <4>1 DEF MapShape, Unmapped, NoEnt
      <4> QED
        BY <1>1, <4>2 DEF AllMapped
    <3>2. CASE c # Param
      <4>1. tbl'[c] = tbl[c]
        BY <1>1, <2>1, <3>2 DEF MapShape
      <4>2. AllMapped(c, cdev)
        BY <1>1, <4>1 DEF EntryMapsAll
      <4> QED
        BY <1>1, <1>4, <4>2 DEF AllMapped
    <3> QED
      BY <3>1, <3>2
  <2>2. CASE tbl' = tbl /\ map' = map
    BY <1>1, <2>2 DEF EntryMapsAll, AllMapped
  <2> QED
    BY <1>1, <2>1, <2>2, MapParamExact
<1>7. VisitedServed'
  <2> SUFFICES ASSUME NEW n \in 1 .. NbParams, Distance(n)' < i + 1
               PROVE  Served(conf.params[n], cdev)'
    BY <1>1 DEF VisitedServed
  <2>1. /\ n = idx + 1 \/ Distance(n)' = Distance(n) + 1
        /\ Distance(n) \in Nat /\ i \in Nat
    BY <1>1, DistanceMoves DEF MapShape
  <2>2. CASE n = idx + 1
    <3>1. conf.params[n] = Param
      BY <2>2 DEF Param
    <3> QED
      BY <1>1, <1>4, <3>1 DEF Served, AllMapped
  <2>3. CASE Distance(n)' = Distance(n) + 1
    <3>1. Distance(n) < i
      BY <2>1, <2>3
    <3>2. Served(conf.params[n], cdev)
      BY <1>1, <3>1 DEF VisitedServed
    <3> QED
      BY <1>1, <1>4, <1>5, <3>2 DEF Served, AllMapped
  <2> QED
    BY <2>1, <2>2, <2>3
<1>8. DevicesDone'
  <2> SUFFICES ASSUME NEW d \in Cdevs, d < cdev
               PROVE  (Exhausted(d) \/ \A n \in 1 .. NbParams : Served(conf.params[n], d))'
    BY <1>1 DEF DevicesDone
  <2>1. DevSlots(d)' = DevSlots(d)
    <3>1. d # cdev
      BY <1>1 DEF MapShape, Cdevs
    <3> QED
      BY <1>3, <3>1
  <2>2. CASE Exhausted(d)
    BY <1>1, <2>1, <2>2 DEF Exhausted
  <2>3. CASE \A n \in 1 .. NbParams : Served(conf.params[n], d)
    <3>1. \A n \in 1 .. NbParams : Served(conf.params[n], d)'
      BY <1>1, <1>4, <1>5, <2>3 DEF Served, AllMapped
    <3> QED
      BY <1>1, <3>1
  <2> QED
    BY <1>1, <2>2, <2>3 DEF DevicesDone
<1> QED
  BY <1>2, <1>3, <1>6, <1>7, <1>8 DEF CompleteInv
LEMMA ConfigureComplete ==
  ASSUME MapsFit, CompleteInv, ConfigureCdev
  PROVE  CompleteInv'
<1>1. /\ MapInv /\ Counted /\ EntryMapsAll /\ VisitedServed /\ DevicesDone /\ MapShape
      /\ cdev < NbCdevs /\ cdev \in Cdevs /\ cdev \in Nat /\ ~MoreParams
      /\ cdev' = cdev + 1 /\ qp' = 0 /\ i' = 0
      /\ UNCHANGED <<conf, idx, tbl, map>> /\ NbParams' = NbParams
      /\ NbParams \in Nat /\ NbCdevs \in Nat
  BY ConfFacts, SMTT(30) DEF CompleteInv, MapInv, MapShape, ConfigureCdev, NbParams, Cdevs
<1>2. MapInv'
  BY <1>1, ConfigureStep
<1>3. \A d \in Cdevs : DevSlots(d)' = DevSlots(d)
  BY <1>1 DEF DevSlots, Slots
<1>4. Counted'
  <2>1. \A d \in Cdevs : IsFiniteSet(DevSlots(d)')
    BY <1>1, <1>3 DEF Counted
  <2>2. cdev' < NbCdevs => Cardinality(DevSlots(cdev)') = 0
    <3> SUFFICES ASSUME cdev + 1 < NbCdevs PROVE Cardinality(DevSlots(cdev)') = 0
      BY <1>1
    <3>1. cdev + 1 \in Cdevs
      BY <1>1 DEF Cdevs
    <3>2. DevSlots(cdev + 1) = {}
      BY <1>1, <3>1, LaterUnused
    <3>3. DevSlots(cdev)' = DevSlots(cdev + 1)
      BY <1>1 DEF DevSlots, Slots
    <3> QED
      BY <3>2, <3>3, FS_EmptySet
  <2> QED
    BY <1>1, <2>1, <2>2 DEF Counted
<1>5. EntryMapsAll'
  <2> SUFFICES ASSUME NEW c \in Ctx, NEW k \in DOMAIN tbl[c], tbl[c][k].id = cdev + 1
               PROVE  FALSE
    BY <1>1 DEF EntryMapsAll
  <2>1. tbl[c][k].id <= cdev
    BY <1>1 DEF MapInv, GivenOut
  <2> QED
    BY <1>1, <2>1
<1>6. VisitedServed'
  <2>1. \A n \in 1 .. NbParams : Distance(n)' = Distance(n) /\ Distance(n) \in Nat
    BY <1>1 DEF Distance, MapShape
  <2> QED
    BY <1>1, <2>1 DEF VisitedServed
<1>7. Exhausted(cdev) \/ \A n \in 1 .. NbParams : Served(conf.params[n], cdev)
  <2>1. /\ MaxNbQps \in Nat /\ qp \in Nat /\ i \in 0 .. NbParams /\ qp <= MaxNbQps
    BY <1>1, MaxNbQpsFacts DEF MapInv, GivenOut, MapShape
  <2>2. CASE qp >= MaxNbQps
    <3>1. qp = MaxNbQps
      BY <2>1, <2>2
    <3> QED
      BY <1>1, <3>1 DEF Exhausted, Counted, MaxNbQps
  <2>3. CASE i = NbParams
    <3>1. \A n \in 1 .. NbParams : Distance(n) < i
      BY <1>1, <2>3 DEF Distance, MapShape
    <3> QED
      BY <1>1, <3>1 DEF VisitedServed
  <2> QED
    BY <1>1, <2>1, <2>2, <2>3 DEF MoreParams
<1>8. DevicesDone'
  <2> SUFFICES ASSUME NEW d \in Cdevs, d < cdev + 1
               PROVE  (Exhausted(d) \/ \A n \in 1 .. NbParams : Served(conf.params[n], d))'
    BY <1>1 DEF DevicesDone
  <2>1. Exhausted(d) \/ \A n \in 1 .. NbParams : Served(conf.params[n], d)
    <3>1. d = cdev \/ d < cdev
      BY <1>1 DEF Cdevs
    <3> QED
      BY <1>1, <1>7, <3>1 DEF DevicesDone
  <2>2. CASE Exhausted(d)
    BY <1>1, <1>3, <2>2 DEF Exhausted
  <2>3. CASE \A n \in 1 .. NbParams : Served(conf.params[n], d)
    <3>1. \A n \in 1 .. NbParams : Served(conf.params[n], d)'
      BY <1>1, <2>3 DEF Served, AllMapped
    <3> QED
      BY <1>1, <3>1
  <2> QED
    BY <2>1, <2>2, <2>3
<1> QED
  BY <1>2, <1>4, <1>5, <1>6, <1>8 DEF CompleteInv

LEMMA InitComplete == Init => CompleteInv
<1> SUFFICES ASSUME Init PROVE CompleteInv
  OBVIOUS
<1>1. MapInv
  BY InitMapInv
<1>2. /\ MapShape /\ NbParams \in Nat \ {0} /\ NbCdevs \in Nat
      /\ cdev = 0 /\ idx = 0 /\ qp = 0 /\ i = 0 /\ tbl = [c \in Ctx |-> <<>>]
  BY <1>1, ConfFacts DEF Init, MapInv
<1>3. Slots = {}
  BY <1>2 DEF Slots
<1>4. Counted
  BY <1>2, <1>3, FS_EmptySet DEF Counted, DevSlots
<1>5. EntryMapsAll
  BY <1>2 DEF EntryMapsAll
<1>6. VisitedServed
  BY <1>2 DEF VisitedServed, Distance
<1>7. DevicesDone
  BY <1>2 DEF DevicesDone, Cdevs
<1> QED
  BY <1>1, <1>4, <1>5, <1>6, <1>7 DEF CompleteInv

LEMMA CompleteKept ==
  ASSUME CompleteInv, UNCHANGED mapvars
  PROVE  CompleteInv'
<1>1. MapInv'
  BY DEF CompleteInv, MapInv, MapShape, GivenOut, Exclusive, MapSound, mapvars, MaxNbQps, NbParams
<1>2. Counted'
  BY DEF CompleteInv, Counted, DevSlots, Slots, mapvars
<1>3. EntryMapsAll' /\ VisitedServed'
  BY DEF CompleteInv, EntryMapsAll, VisitedServed, Served, AllMapped, Distance, NbParams, mapvars
<1>4. DevicesDone'
  BY DEF CompleteInv, DevicesDone, Exhausted, DevSlots, Slots, Served, AllMapped, NbParams, mapvars
<1> QED
  BY <1>1, <1>2, <1>3, <1>4 DEF CompleteInv

LEMMA CompleteImplies == CompleteInv => MapComplete
<1> SUFFICES ASSUME CompleteInv, Done,
                    NEW n \in DOMAIN conf.params, NEW a \in Algos, NEW d \in Cdevs,
                    a \in conf.caps[d], map[conf.params[n]][a] = NoEnt
             PROVE  \/ Len(tbl[conf.params[n]]) = MAX_QP_PER_LCORE
                    \/ Exhausted(d)
  BY DEF MapComplete, Exhausted, DevSlots
<1>1. d < cdev /\ n \in 1 .. NbParams
  BY ConfFacts DEF CompleteInv, MapInv, Done, Cdevs, NbParams
<1> QED
  BY <1>1 DEF CompleteInv, DevicesDone, Served, AllMapped
-----------------------------------------------------------------------------
(***************************************************************************)
(* Sessions of lookaside SAs: what an lcore enqueues meets a device that   *)
(* was given its session, for every number of lcores, SAs, devices,        *)
(* algorithms and sessions in the pool, in both modes, whatever devices    *)
(* refuse and wherever the creation of sessions overlaps.                  *)
(*                                                                         *)
(* The inductive invariant has a part for each SA, that holds however many *)
(* contexts create its session at once: a session that is not NULL was     *)
(* given to the device of the SA's algorithm and its queue pair is stored, *)
(* or a context is about to do so.  Another part says that a context that  *)
(* is not early is the only one at work on its SA.                         *)
(***************************************************************************)

UsersOf(s) == {d \in Users : d[2] = SaDir[s]}

(* Every context that uses s finds the index n, and there the device x. *)
Idx(s, n) == n \in Nat /\ \A d \in UsersOf(s) : map[d][SaAlgo[s]] = n

Dev(s, x) == \A d \in UsersOf(s) : DevAt(d, map[d][SaAlgo[s]]) = x

Found == {"cpu", "publish", "init", "setqp", "prepare"}

(* Entry k of the table of c has a device for the algorithm of s. *)
Fits(c, k, s) ==
  k + 1 \in DOMAIN tbl[c] /\ SaAlgo[s] \in conf.caps[tbl[c][k + 1].id]

SesTypes ==
  /\ enable \in BOOLEAN
  /\ pc \in [Ctx -> {Idle, "enqueue"} \cup Busy]
  /\ cur \in [Ctx -> SA]
  /\ my_qp \in [Ctx -> Nat]
  /\ nses \in 0 .. PoolSize
  /\ ses \in [SA -> 0 .. nses]
  /\ cdev_id_qp \in [SA -> Nat]
  /\ dev_id \in [SA -> Cdevs \cup {0}]
  /\ inited \in [1 .. PoolSize -> SUBSET Cdevs]
  /\ refused \in [1 .. PoolSize -> SUBSET Cdevs]
  /\ cleared \subseteq SA

SesShape ==
  /\ SesTypes
  /\ \A c \in Ctx : pc[c] # Idle => Done /\ c \in Users /\ SaDir[cur[c]] = c[2]
  /\ \A s \in SA : ses[s] # 0 \/ cdev_id_qp[s] # 0 => Done
  /\ \A c \in Ctx : pc[c] \in Found =>
       Fits(c, my_qp[c], cur[c]) /\ my_qp[c] = map[c][SaAlgo[cur[c]]]

CpuOk(s) == Type(s) = "CPU_CRYPTO" => Dev(s, dev_id[s]) /\ dev_id[s] \in CpuDevs

Given(s) == \E x \in Cdevs : Dev(s, x) /\ x \in inited[ses[s]] \cup refused[ses[s]]

SaOk(s) ==
  SameEntry(s) =>
    /\ cdev_id_qp[s] = 0 \/ Idx(s, cdev_id_qp[s])
    /\ ses[s] # 0 =>
         /\ \E n \in Nat : Idx(s, n)
         /\ Idx(s, cdev_id_qp[s]) \/ \E c \in Ctx : cur[c] = s /\ pc[c] \in {"init", "setqp"}
         /\ Given(s) \/ \E c \in Ctx : cur[c] = s /\ pc[c] = "init"
         /\ CpuOk(s)

CtxOk(c) ==
  SameEntry(cur[c]) =>
    /\ pc[c] = "enqueue" => \E n \in Nat : Idx(cur[c], n)
    /\ pc[c] = "prepare" \/ (pc[c] = "enqueue" /\ c \notin early) =>
         Idx(cur[c], cdev_id_qp[cur[c]])
    /\ pc[c] \in {"publish", "init", "setqp", "prepare"} => CpuOk(cur[c])

Alone(c) ==
  c \notin early =>
    /\ pc[c] \in Busy => \A d \in Ctx : pc[d] \in Busy /\ cur[d] = cur[c] => d = c
    /\ pc[c] \in {"init", "setqp"} => ses[cur[c]] # 0 \/ nses = PoolSize
    /\ pc[c] = "enqueue" =>
         \/ ses[cur[c]] = 0 /\ nses = PoolSize
         \/ ses[cur[c]] # 0 /\ \A d \in Ctx : pc[d] \in Busy => cur[d] # cur[c]

Sessions ==
  (\A s \in SA : SaOk(s)) /\ (\A c \in Ctx : CtxOk(c)) /\ (\A c \in Ctx : Alone(c))

SesInv == MapInv /\ SesShape /\ Sessions
-----------------------------------------------------------------------------
LEMMA InitSesInv ==
  ASSUME SA # {} PROVE SesInit => SesInv
<1> SUFFICES ASSUME SesInit PROVE SesInv
  OBVIOUS
<1>1. MapInv
  BY InitMapInv DEF SesInit
<1>2. SesShape
  BY SesAssumption DEF SesInit, SesShape, SesTypes, Idle, Busy, Found
<1>3. Sessions
  BY DEF SesInit, Sessions, SaOk, CtxOk, Alone, Idle, Busy
<1> QED
  BY <1>1, <1>2, <1>3 DEF SesInv

(* cryptodevs_init runs before the lcores. *)
LEMMA MapStepSes ==
  ASSUME MapsFit, SesInv, MapNext, UNCHANGED <<enable, sesvars>>
  PROVE  SesInv'
<1>1. MapInv'
  BY NextMapInv DEF SesInv
<1>2. /\ ~Done
      /\ \A c \in Ctx : pc[c] = Idle
      /\ \A s \in SA : ses[s] = 0
  <2>1. cdev < NbCdevs
    BY DEF MapNext, MapParam, ConfigureCdev
  <2>2. ~Done
    BY <2>1, CdevAssumption DEF Done, SesInv, MapInv, MapShape
  <2> QED
    BY <2>2 DEF SesInv, SesShape
<1>3. SesShape'
  BY <1>2 DEF SesInv, SesShape, SesTypes, sesvars, Idle, Found
<1>4. Sessions'
  <2>1. \A s \in SA : cdev_id_qp'[s] = 0 /\ ses'[s] = 0
    BY <1>2 DEF SesInv, SesShape, SesTypes, sesvars
  <2>2. \A c \in Ctx : pc'[c] = Idle
    BY <1>2 DEF sesvars
  <2>3. \A s \in SA : SaOk(s)'
    BY <2>1 DEF SaOk
  <2>4. \A c \in Ctx : CtxOk(c)' /\ Alone(c)'
    BY <2>2 DEF CtxOk, Alone, Idle, Busy
  <2> QED
    BY <2>3, <2>4 DEF Sessions
<1> QED
  BY <1>1, <1>3, <1>4 DEF SesInv
-----------------------------------------------------------------------------
LEMMA MapKept ==
  ASSUME MapInv, UNCHANGED mapvars
  PROVE  MapInv'
  BY DEF MapInv, MapShape, GivenOut, Exclusive, MapSound, mapvars, MaxNbQps, NbParams

(* The tables do not change while the lcores run. *)
LEMMA TablesKept ==
  ASSUME UNCHANGED mapvars
  PROVE  /\ Users' = Users /\ (Done <=> Done')
         /\ \A s \in SA : SameEntry(s)' <=> SameEntry(s)
         /\ \A s \in SA, n \in Nat : Idx(s, n)' <=> Idx(s, n)
         /\ \A s \in SA, x \in Int : Dev(s, x)' <=> Dev(s, x)
<1>1. Users' = Users /\ (Done <=> Done') /\ tbl' = tbl /\ map' = map
  BY DEF Users, Done, mapvars
<1>2. \A s \in SA : SameEntry(s)' <=> SameEntry(s)
  BY <1>1 DEF SameEntry, DevAt
<1>3. \A s \in SA, n \in Nat : Idx(s, n)' <=> Idx(s, n)
  BY <1>1 DEF Idx, UsersOf
<1>4. \A s \in SA, x \in Int : Dev(s, x)' <=> Dev(s, x)
  BY <1>1 DEF Dev, DevAt, UsersOf
<1> QED
  BY <1>1, <1>2, <1>3, <1>4

(* What a context that has found its device knows of it. *)
LEMMA CdevFacts ==
  ASSUME MapInv, SesShape, NEW c \in Ctx, pc[c] \in Found
  PROVE  /\ Cdev(c) \in Cdevs /\ Cdev(c) \in Int /\ cur[c] \in SA /\ my_qp[c] \in Nat
         /\ Done /\ c \in Users /\ SaDir[cur[c]] = c[2]
         /\ SameEntry(cur[c]) => Idx(cur[c], my_qp[c]) /\ Dev(cur[c], Cdev(c))
<1>1. /\ cur[c] \in SA /\ my_qp[c] \in Nat /\ Fits(c, my_qp[c], cur[c])
      /\ my_qp[c] = map[c][SaAlgo[cur[c]]]
      /\ Done /\ c \in Users /\ SaDir[cur[c]] = c[2]
  BY DEF SesShape, SesTypes, Idle, Found
<1>2. Cdev(c) \in Cdevs /\ Cdev(c) \in Int
  <2>1. PICK k \in DOMAIN tbl[c] : k = my_qp[c] + 1
    BY <1>1, Zenon DEF Fits
  <2>2. MapShape
    BY DEF MapInv
  <2>3. tbl[c][k].id \in Cdevs /\ tbl[c][k].id \in Nat
    BY <2>2, EntriesTyped
  <2> QED
    BY <2>1, <2>3, SMTT(30) DEF Cdev
<1>3. my_qp[c] # NoEnt
  BY <1>1, SMTT(30) DEF NoEnt
<1>4. SameEntry(cur[c]) => Idx(cur[c], my_qp[c]) /\ Dev(cur[c], Cdev(c))
  BY <1>1, <1>3 DEF SameEntry, Idx, Dev, UsersOf, DevAt, Cdev
<1> QED
  BY <1>1, <1>2, <1>4

(* What a step of c leaves to the other contexts. *)
LEMMA OthersCtx ==
  ASSUME SesShape, UNCHANGED mapvars, NEW c \in Ctx, NEW d \in Ctx, d # c, CtxOk(d),
         pc'[d] = pc[d], cur'[d] = cur[d], d \in early => d \in early',
         cdev_id_qp' \in [SA -> Nat],
         \A s \in SA : SameEntry(s) /\ Idx(s, cdev_id_qp[s]) => Idx(s, cdev_id_qp'[s]),
         \A s \in SA : SameEntry(s) /\ CpuOk(s) => CpuOk(s)'
  PROVE  CtxOk(d)'
<1>1. cur[d] \in SA /\ cdev_id_qp'[cur[d]] \in Nat
  BY DEF SesShape, SesTypes
<1>2. /\ SameEntry(cur[d])' <=> SameEntry(cur[d])
      /\ \A n \in Nat : Idx(cur[d], n)' <=> Idx(cur[d], n)
  BY <1>1, TablesKept
<1> QED
  BY <1>1, <1>2 DEF CtxOk

(* A context that is not early is not disturbed by a step of another that  *)
(* does not start to create a session.                                     *)
LEMMA OthersAlone ==
  ASSUME SesShape, NEW c \in Ctx, NEW d \in Ctx, d # c, Alone(d),
         \A e \in Ctx : e # c => pc'[e] = pc[e] /\ cur'[e] = cur[e],
         pc'[c] \in Busy => pc[c] \in Busy /\ cur'[c] = cur[c],
         d \in early => d \in early',
         \A s \in SA : s # cur[c] \/ pc[c] \notin Busy => ses'[s] = ses[s],
         ses'[cur[c]] # ses[cur[c]] => ses'[cur[c]] = 0 \/ nses # PoolSize,
         nses = PoolSize => nses' = PoolSize
  PROVE  Alone(d)'
<1>1. SUFFICES ASSUME d \notin early' PROVE Alone(d)'
  BY DEF Alone
<1>2. cur[d] \in SA /\ d \notin early /\ cur[c] \in SA
  BY <1>1 DEF SesShape, SesTypes
<1>3. pc'[d] \in Busy => \A e \in Ctx : pc'[e] \in Busy /\ cur'[e] = cur'[d] => e = d
  BY <1>2 DEF Alone
<1>4. pc'[d] \in {"init", "setqp"} => ses'[cur'[d]] # 0 \/ nses' = PoolSize
  BY <1>2 DEF Alone, Busy
<1>5. pc'[d] = "enqueue" =>
        \/ ses'[cur'[d]] = 0 /\ nses' = PoolSize
        \/ ses'[cur'[d]] # 0 /\ \A e \in Ctx : pc'[e] \in Busy => cur'[e] # cur'[d]
  BY <1>2 DEF Alone
<1> QED
  BY <1>3, <1>4, <1>5 DEF Alone

(* An SA that a step leaves alone stays as it is, as long as the step does *)
(* not end the work of a context on it.                                    *)
LEMMA SaStays ==
  ASSUME SesShape, UNCHANGED mapvars, NEW s \in SA, SaOk(s),
         ses'[s] = ses[s], cdev_id_qp'[s] = cdev_id_qp[s],
         ses[s] # 0 => /\ inited[ses[s]] \subseteq inited'[ses[s]]
                       /\ refused[ses[s]] \subseteq refused'[ses[s]],
         CpuOk(s) => CpuOk(s)',
         \A d \in Ctx : cur[d] = s /\ pc[d] \in {"init", "setqp"} => cur'[d] = s /\ pc'[d] = pc[d]
  PROVE  SaOk(s)'
<1>1. cdev_id_qp[s] \in Nat
  BY DEF SesShape, SesTypes
<1>2. /\ SameEntry(s)' <=> SameEntry(s)
      /\ \A n \in Nat : Idx(s, n)' <=> Idx(s, n)
      /\ \A x \in Int : Dev(s, x)' <=> Dev(s, x)
  BY TablesKept
<1>3. Cdevs \subseteq Int
  BY CdevAssumption DEF Cdevs
<1>4. ses[s] # 0 /\ Given(s) => Given(s)'
  BY <1>2, <1>3 DEF Given
<1> QED
  BY <1>1, <1>2, <1>4 DEF SaOk

LEMMA CpuStays ==
  ASSUME SesShape, UNCHANGED mapvars, NEW s \in SA, CpuOk(s),
         dev_id'[s] = dev_id[s], cleared \subseteq cleared'
  PROVE  CpuOk(s)'
<1>1. dev_id[s] \in Int
  BY CdevAssumption DEF SesShape, SesTypes, Cdevs
<1>2. \A x \in Int : Dev(s, x)' <=> Dev(s, x)
  BY TablesKept
<1> QED
  BY <1>1, <1>2 DEF CpuOk, Type

LEMMA ShapeStep ==
  ASSUME SesShape, NEW c \in Ctx, Done, c \in Users, UNCHANGED mapvars, SesTypes',
         \A d \in Ctx : d # c => pc'[d] = pc[d] /\ cur'[d] = cur[d] /\ my_qp'[d] = my_qp[d],
         SaDir[cur'[c]] = c[2],
         pc'[c] \in Found =>
           Fits(c, my_qp'[c], cur'[c]) /\ my_qp'[c] = map[c][SaAlgo[cur'[c]]]
  PROVE  SesShape'
<1>1. Done' /\ Users' = Users
  BY TablesKept
<1>2. \A d \in Ctx : pc'[d] # Idle => Done' /\ d \in Users' /\ SaDir[cur'[d]] = d[2]
  BY <1>1 DEF SesShape
<1>3. \A d \in Ctx : pc'[d] \in Found =>
        Fits(d, my_qp'[d], cur'[d]) /\ my_qp'[d] = map[d][SaAlgo[cur'[d]]]
  BY DEF SesShape
<1>4. conf' = conf /\ tbl' = tbl /\ map' = map
  BY DEF mapvars
<1> QED
  BY <1>1, <1>2, <1>3, <1>4 DEF SesShape, Fits
-----------------------------------------------------------------------------
LEMMA TestSessionStep ==
  ASSUME MapInv, SesShape, Sessions, NEW c \in Ctx, TestSession(c), Done,
         UNCHANGED <<enable, mapvars>>
  PROVE  SesShape' /\ Sessions'
<1>1. PICK s \in SA :
        /\ SaDir[s] = c[2]
        /\ cur' = [cur EXCEPT ![c] = s]
        /\ Goto(c, IF ses[s] # 0 THEN "enqueue" ELSE "create")
        /\ early' = early \cup {d \in {c} : Creators(s) # {}}
                          \cup {d \in Creators(s) : ses[s] = 0}
  BY DEF TestSession
<1>2. /\ pc[c] = Idle /\ c \in Users /\ UNCHANGED mapvars
      /\ UNCHANGED <<my_qp, ses, cdev_id_qp, dev_id, inited, refused, nses, cleared>>
  BY DEF TestSession
<1>3. /\ pc' = [pc EXCEPT ![c] = IF ses[s] # 0 THEN "enqueue" ELSE "create"]
      /\ pc'[c] = IF ses[s] # 0 THEN "enqueue" ELSE "create"
      /\ cur'[c] = s
      /\ \A d \in Ctx : d # c => pc'[d] = pc[d] /\ cur'[d] = cur[d]
  BY <1>1 DEF Goto, SesShape, SesTypes
<1>4. SesShape'
  <2>1. SesTypes'
    BY <1>1, <1>2, <1>3 DEF SesShape, SesTypes, Busy
  <2> QED
    BY <1>1, <1>2, <1>3, <2>1, ShapeStep DEF Found
<1>5. \A x \in SA : CpuOk(x) => CpuOk(x)'
  BY <1>2, CpuStays
<1>6. \A x \in SA : SaOk(x)'
  BY <1>2, <1>3, <1>5, SaStays DEF Sessions, Idle
<1>7. \A d \in Ctx : d # c => CtxOk(d)'
  BY <1>1, <1>2, <1>3, <1>5, OthersCtx DEF Sessions, SesShape, SesTypes
<1>8. CtxOk(c)'
  <2>1. SameEntry(s)' <=> SameEntry(s)
    BY <1>2, TablesKept
  <2>2. ASSUME ses[s] # 0, SameEntry(s)
        PROVE  /\ \E n \in Nat : Idx(s, n)'
               /\ c \notin early' => Idx(s, cdev_id_qp[s])'
    <3>1. SaOk(s) /\ cdev_id_qp[s] \in Nat
      BY DEF Sessions, SesShape, SesTypes
    <3>2. \A n \in Nat : Idx(s, n)' <=> Idx(s, n)
      BY <1>2, TablesKept
    <3>3. c \notin early' => Creators(s) = {}
      BY <1>1
    <3>4. Creators(s) = {} => Idx(s, cdev_id_qp[s])
      BY <2>2, <3>1 DEF SaOk, Creators, Busy
    <3> QED
      BY <1>2, <2>2, <3>1, <3>2, <3>3, <3>4 DEF SaOk
  <2> QED
    BY <1>3, <2>1, <2>2 DEF CtxOk
<1>9. \A d \in Ctx : Alone(d)'
  <2>1. \A d \in Ctx : d # c /\ cur[d] = s /\ pc[d] \in Busy =>
          /\ c \in early'
          /\ ses[s] = 0 => d \in early'
    BY <1>1 DEF Creators
  <2>2. Alone(c)'
    <3> SUFFICES ASSUME c \notin early' PROVE Alone(c)'
      BY DEF Alone
    <3>1. \A d \in Ctx : pc'[d] \in Busy /\ cur'[d] = s => d = c
      BY <1>3, <2>1
    <3>2. pc'[c] = "enqueue" => ses'[s] # 0 /\ \A d \in Ctx : pc'[d] \in Busy => cur'[d] # s
      BY <1>2, <1>3, <3>1 DEF Busy
    <3> QED
      BY <1>3, <3>1, <3>2 DEF Alone
  <2>3. ASSUME NEW d \in Ctx, d # c PROVE Alone(d)'
    <3> SUFFICES ASSUME d \notin early' PROVE Alone(d)'
      BY DEF Alone
    <3>1. Alone(d) /\ d \notin early /\ pc'[d] = pc[d] /\ cur'[d] = cur[d]
      BY <1>1, <1>3, <2>3 DEF Sessions
    <3>2. pc'[d] \in Busy => \A e \in Ctx : pc'[e] \in Busy /\ cur'[e] = cur'[d] => e = d
      BY <1>3, <2>1, <2>3, <3>1 DEF Alone, Busy
    <3>3. pc'[d] = "enqueue" =>
            \/ ses[cur[d]] = 0 /\ nses = PoolSize
            \/ ses[cur[d]] # 0 /\ \A e \in Ctx : pc'[e] \in Busy => cur'[e] # cur[d]
      BY <1>3, <2>3, <3>1 DEF Alone, Busy
    <3> QED
      BY <1>2, <3>1, <3>2, <3>3 DEF Alone
  <2> QED
    BY <2>2, <2>3
<1> QED
  BY <1>4, <1>6, <1>7, <1>8, <1>9 DEF Sessions

(* The packet is freed when there is no device; the SA is left alone. *)
LEMMA LookupCdevStep ==
  ASSUME MapInv, SesShape, Sessions, NEW c \in Ctx, LookupCdev(c), UNCHANGED <<enable, mapvars>>
  PROVE  SesShape' /\ Sessions'
<1>1. /\ pc[c] = "create" /\ UNCHANGED mapvars
      /\ UNCHANGED <<cur, ses, cdev_id_qp, dev_id, inited, refused, nses, cleared>>
  BY DEF LookupCdev
<1>2. cur[c] \in SA /\ SaAlgo[cur[c]] \in Algos /\ Done /\ c \in Users /\ SaDir[cur[c]] = c[2]
  BY <1>1, SesAssumption DEF SesShape, SesTypes, Idle
<1>3. \E l \in {Idle, "cpu", "publish"} :
        /\ pc' = [pc EXCEPT ![c] = l]
        /\ l = "publish" => Type(cur[c]) # "CPU_CRYPTO"
        /\ IF l = Idle
           THEN my_qp' = my_qp /\ early' = early \ {c}
           ELSE /\ my_qp' = [my_qp EXCEPT ![c] = MappedQp(c)]
                /\ early' = early /\ ~LookupFails(c)
  BY DEF LookupCdev, Goto, Leave, Idle
<1>4. PICK l \in {Idle, "cpu", "publish"} :
        /\ pc' = [pc EXCEPT ![c] = l]
        /\ l = "publish" => Type(cur[c]) # "CPU_CRYPTO"
        /\ IF l = Idle
           THEN my_qp' = my_qp /\ early' = early \ {c}
           ELSE /\ my_qp' = [my_qp EXCEPT ![c] = MappedQp(c)]
                /\ early' = early /\ ~LookupFails(c)
  BY <1>3
<1>5. ~LookupFails(c) => /\ MappedQp(c) \in Nat /\ MappedQp(c) = map[c][SaAlgo[cur[c]]]
                         /\ Fits(c, MappedQp(c), cur[c])
  <2> SUFFICES ASSUME ~LookupFails(c)
               PROVE  /\ MappedQp(c) \in Nat /\ MappedQp(c) = map[c][SaAlgo[cur[c]]]
                      /\ Fits(c, MappedQp(c), cur[c])
    OBVIOUS
  <2>1. /\ map[c][SaAlgo[cur[c]]] \in Nat
        /\ Fits(c, map[c][SaAlgo[cur[c]]], cur[c])
    BY <1>2 DEF MapInv, MapShape, MapSound, LookupFails, Fits
  <2>2. MappedQp(c) = map[c][SaAlgo[cur[c]]]
    BY <2>1, MaxPair DEF MappedQp
  <2> QED
    BY <2>1, <2>2
<1>6. /\ pc'[c] = l /\ my_qp' \in [Ctx -> Nat]
      /\ \A d \in Ctx : d # c => pc'[d] = pc[d] /\ my_qp'[d] = my_qp[d]
      /\ \A d \in Ctx : d # c /\ d \in early => d \in early'
  BY <1>4, <1>5 DEF SesShape, SesTypes
<1>7. l # Idle => my_qp'[c] = MappedQp(c)
  BY <1>4 DEF SesShape, SesTypes
<1>8. SesShape'
  <2>1. pc' \in [Ctx -> {Idle, "enqueue"} \cup Busy]
    BY <1>4 DEF SesShape, SesTypes, Busy
  <2>2. SesTypes'
    BY <1>1, <1>6, <2>1 DEF SesShape, SesTypes
  <2>3. pc'[c] \in Found =>
          Fits(c, my_qp'[c], cur'[c]) /\ my_qp'[c] = map[c][SaAlgo[cur'[c]]]
    BY <1>1, <1>4, <1>5, <1>6, <1>7 DEF Found, Idle
  <2> QED
    BY <1>1, <1>2, <1>6, <2>2, <2>3, ShapeStep
<1>9. \A x \in SA : CpuOk(x) => CpuOk(x)'
  BY <1>1, CpuStays
<1>10. \A x \in SA : SaOk(x)'
  BY <1>1, <1>6, <1>9, SaStays DEF Sessions
<1>11. \A d \in Ctx : d # c => CtxOk(d)'
  BY <1>1, <1>6, <1>9, OthersCtx DEF Sessions, SesShape, SesTypes
<1>12. CtxOk(c)'
  <2>1. pc'[c] # "enqueue" /\ pc'[c] \notin {"init", "setqp", "prepare"}
    BY <1>6 DEF Idle
  <2>2. pc'[c] = "publish" => CpuOk(cur[c])'
    BY <1>1, <1>4, <1>6 DEF CpuOk, Type, Idle
  <2> QED
    BY <1>1, <2>1, <2>2 DEF CtxOk
<1>13. \A d \in Ctx : d # c => Alone(d)'
  BY <1>1, <1>6, OthersAlone DEF Sessions, Busy, Idle
<1>14. Alone(c)'
  <2>1. c \notin early' /\ l # Idle =>
          \A d \in Ctx : pc[d] \in Busy /\ cur[d] = cur[c] => d = c
    BY <1>1, <1>4 DEF Sessions, Alone, Busy
  <2> QED
    BY <1>1, <1>6, <2>1 DEF Alone, Busy, Idle
<1> QED
  BY <1>8, <1>10, <1>11, <1>12, <1>13, <1>14 DEF Sessions

LEMMA CpuDeviceStep ==
  ASSUME MapInv, SesShape, Sessions, NEW c \in Ctx, CpuDevice(c), UNCHANGED <<enable, mapvars>>
  PROVE  SesShape' /\ Sessions'
<1>1. /\ pc[c] = "cpu" /\ UNCHANGED mapvars
      /\ UNCHANGED <<cur, my_qp, ses, cdev_id_qp, inited, refused, nses, cleared>>
  BY DEF CpuDevice
<1>2. /\ Cdev(c) \in Cdevs /\ Cdev(c) \in Int /\ cur[c] \in SA /\ my_qp[c] \in Nat
      /\ Done /\ c \in Users /\ SaDir[cur[c]] = c[2]
      /\ SameEntry(cur[c]) => Idx(cur[c], my_qp[c]) /\ Dev(cur[c], Cdev(c))
  BY <1>1, CdevFacts DEF Found
<1>3. \/ /\ pc' = [pc EXCEPT ![c] = "publish"] /\ pc'[c] = "publish" /\ early' = early
         /\ Cdev(c) \in CpuDevs /\ dev_id' = [dev_id EXCEPT ![cur[c]] = Cdev(c)]
      \/ /\ pc' = [pc EXCEPT ![c] = Idle] /\ pc'[c] = Idle /\ early' = early \ {c}
         /\ dev_id' = dev_id
  BY DEF CpuDevice, Goto, Leave, SesShape, SesTypes
<1>4. /\ \A d \in Ctx : d # c => pc'[d] = pc[d]
      /\ \A d \in Ctx : d # c /\ d \in early => d \in early'
      /\ \A s \in SA : s # cur[c] => dev_id'[s] = dev_id[s]
      /\ dev_id'[cur[c]] \in {dev_id[cur[c]], Cdev(c)}
      /\ pc'[c] = "publish" => dev_id'[cur[c]] = Cdev(c) /\ Cdev(c) \in CpuDevs
      /\ dev_id'[cur[c]] # dev_id[cur[c]] => dev_id'[cur[c]] = Cdev(c) /\ Cdev(c) \in CpuDevs
  BY <1>2, <1>3 DEF SesShape, SesTypes, Idle
<1>5. SesShape'
  <2>1. pc' \in [Ctx -> {Idle, "enqueue"} \cup Busy]
    BY <1>3 DEF SesShape, SesTypes, Busy
  <2>2. dev_id' \in [SA -> Cdevs \cup {0}]
    BY <1>2, <1>3 DEF SesShape, SesTypes
  <2>3. SesTypes'
    BY <1>1, <2>1, <2>2 DEF SesShape, SesTypes
  <2> QED
    BY <1>1, <1>2, <1>4, <2>3, ShapeStep DEF SesShape, Found
<1>6. ASSUME SameEntry(cur[c]), dev_id'[cur[c]] = Cdev(c), Cdev(c) \in CpuDevs
      PROVE  CpuOk(cur[c])'
  <2>1. PICK x \in Cdevs : x = Cdev(c) /\ x \in Int
    BY <1>2
  <2>2. Dev(cur[c], x)'
    BY <1>1, <1>2, <1>6, <2>1, TablesKept
  <2> QED
    BY <1>1, <1>6, <2>1, <2>2 DEF CpuOk
<1>7. \A s \in SA : SameEntry(s) /\ CpuOk(s) => CpuOk(s)'
  <2> SUFFICES ASSUME NEW s \in SA, SameEntry(s), CpuOk(s) PROVE CpuOk(s)'
    OBVIOUS
  <2>1. CASE dev_id'[s] = dev_id[s]
    BY <1>1, <2>1, CpuStays
  <2>2. CASE dev_id'[s] # dev_id[s]
    <3>1. s = cur[c] /\ cur'[c] = cur[c]
      BY <1>1, <1>4, <2>2
    <3> QED
      BY <1>4, <1>6, <2>2, <3>1
  <2> QED
    BY <2>1, <2>2
<1>8. \A s \in SA : SaOk(s)'
  <2> SUFFICES ASSUME NEW s \in SA PROVE SaOk(s)'
    OBVIOUS
  <2>1. CASE SameEntry(s) /\ ses[s] # 0
    BY <1>1, <1>4, <1>7, <2>1, SaStays DEF Sessions, SaOk
  <2>2. CASE SameEntry(s) /\ ses[s] = 0
    <3>1. Idx(s, cdev_id_qp[s])' <=> Idx(s, cdev_id_qp[s])
      BY <1>1, TablesKept DEF SesShape, SesTypes
    <3> QED
      BY <1>1, <2>2, <3>1 DEF Sessions, SaOk
  <2>3. CASE ~SameEntry(s)
    BY <1>1, <2>3, TablesKept DEF SaOk
  <2> QED
    BY <2>1, <2>2, <2>3
<1>9. \A d \in Ctx : d # c => CtxOk(d)'
  BY <1>1, <1>4, <1>7, OthersCtx DEF Sessions, SesShape, SesTypes
<1>10. CtxOk(c)'
  <2>1. SameEntry(cur[c])' <=> SameEntry(cur[c])
    BY <1>1, <1>2, TablesKept
  <2>2. SameEntry(cur[c]) /\ pc'[c] = "publish" => CpuOk(cur[c])'
    BY <1>4, <1>6
  <2> QED
    BY <1>1, <1>3, <2>1, <2>2 DEF CtxOk, Idle
<1>11. \A d \in Ctx : d # c => Alone(d)'
  BY <1>1, <1>3, <1>4, OthersAlone DEF Sessions, Busy, Idle
<1>12. Alone(c)'
  <2>1. c \notin early' /\ pc'[c] # Idle =>
          \A d \in Ctx : pc[d] \in Busy /\ cur[d] = cur[c] => d = c
    BY <1>1, <1>3 DEF Sessions, Alone, Busy
  <2> QED
    BY <1>1, <1>3, <1>4, <2>1 DEF Alone, Busy, Idle
<1> QED
  BY <1>5, <1>8, <1>9, <1>10, <1>11, <1>12 DEF Sessions

LEMMA CreateSessionStep ==
  ASSUME MapInv, SesShape, Sessions, NEW c \in Ctx, CreateSession(c),
         UNCHANGED <<enable, mapvars>>
  PROVE  SesShape' /\ Sessions'
<1>1. /\ pc[c] = "publish" /\ nses < PoolSize /\ UNCHANGED mapvars
      /\ nses' = nses + 1
      /\ ses' = [ses EXCEPT ![cur[c]] = nses + 1]
      /\ UNCHANGED <<cur, my_qp, cdev_id_qp, dev_id, refused, cleared, early>>
  BY DEF CreateSession
<1>2. /\ Cdev(c) \in Cdevs /\ Cdev(c) \in Int /\ cur[c] \in SA /\ my_qp[c] \in Nat
      /\ Done /\ c \in Users /\ SaDir[cur[c]] = c[2]
      /\ SameEntry(cur[c]) => Idx(cur[c], my_qp[c]) /\ Dev(cur[c], Cdev(c))
  BY <1>1, CdevFacts DEF Found
<1>3. nses \in Nat /\ PoolSize \in Nat /\ nses + 1 \in 1 .. PoolSize
  BY <1>1, SesAssumption DEF SesShape, SesTypes
<1>4. \/ /\ pc' = [pc EXCEPT ![c] = "setqp"] /\ pc'[c] = "setqp"
         /\ inited' = [inited EXCEPT ![nses + 1] = {Cdev(c)}]
      \/ /\ pc' = [pc EXCEPT ![c] = "init"] /\ pc'[c] = "init"
         /\ inited' = inited
  BY DEF CreateSession, Goto, SesShape, SesTypes
<1>5. /\ \A d \in Ctx : d # c => pc'[d] = pc[d]
      /\ ses'[cur[c]] = nses + 1 /\ \A s \in SA : s # cur[c] => ses'[s] = ses[s]
  BY <1>1, <1>2, <1>4 DEF SesShape, SesTypes
<1>6. /\ \A n \in 1 .. PoolSize : n # nses + 1 => inited'[n] = inited[n]
      /\ pc'[c] = "setqp" => Cdev(c) \in inited'[nses + 1]
  <2>1. inited \in [1 .. PoolSize -> SUBSET Cdevs]
    BY DEF SesShape, SesTypes
  <2>2. PICK m \in 1 .. PoolSize : m = nses + 1
    BY <1>3
  <2>3. inited' = [inited EXCEPT ![m] = {Cdev(c)}] \/ (inited' = inited /\ pc'[c] = "init")
    BY <1>4, <2>2
  <2>4. CASE inited' = [inited EXCEPT ![m] = {Cdev(c)}]
    BY <2>1, <2>2, <2>4
  <2>5. CASE inited' = inited /\ pc'[c] = "init"
    BY <2>5
  <2> QED
    BY <2>3, <2>4, <2>5
<1>7. SesShape'
  <2>1. pc' \in [Ctx -> {Idle, "enqueue"} \cup Busy]
    BY <1>4 DEF SesShape, SesTypes, Busy
  <2>2. ses' \in [SA -> 0 .. nses'] /\ nses' \in 0 .. PoolSize
    BY <1>1, <1>2, <1>3 DEF SesShape, SesTypes
  <2>3. inited' \in [1 .. PoolSize -> SUBSET Cdevs]
    <3>1. inited \in [1 .. PoolSize -> SUBSET Cdevs]
      BY DEF SesShape, SesTypes
    <3>2. PICK X \in SUBSET Cdevs : X = {Cdev(c)}
      BY <1>2
    <3>3. inited' = [inited EXCEPT ![nses + 1] = X] \/ inited' = inited
      BY <1>4, <3>2
    <3> QED
      BY <3>1, <3>3
  <2>4. SesTypes'
    BY <1>1, <2>1, <2>2, <2>3 DEF SesShape, SesTypes
  <2> QED
    BY <1>1, <1>2, <1>4, <1>5, <2>4, ShapeStep DEF SesShape, Found
<1>8. \A s \in SA : CpuOk(s) => CpuOk(s)'
  BY <1>1, CpuStays
<1>9. \A s \in SA : SaOk(s)'
  <2> SUFFICES ASSUME NEW s \in SA PROVE SaOk(s)'
    OBVIOUS
  <2>1. CASE s # cur[c] /\ ses[s] # 0
    <3>1. ses[s] \in 1 .. PoolSize /\ ses[s] # nses + 1
      BY <1>3, <2>1 DEF SesShape, SesTypes
    <3> QED
      BY <1>1, <1>5, <1>6, <1>8, <2>1, <3>1, SaStays DEF Sessions
  <2>2. CASE s # cur[c] /\ ses[s] = 0
    <3>1. Idx(s, cdev_id_qp[s])' <=> Idx(s, cdev_id_qp[s])
      BY <1>1, TablesKept DEF SesShape, SesTypes
    <3>2. SameEntry(s)' <=> SameEntry(s)
      BY <1>1, TablesKept
    <3> QED
      BY <1>1, <1>5, <2>2, <3>1, <3>2 DEF Sessions, SaOk
  <2>3. CASE s = cur[c]
    <3> SUFFICES ASSUME SameEntry(s)' PROVE SaOk(s)'
      BY DEF SaOk
    <3>1. /\ SameEntry(s) /\ \A n \in Nat : Idx(s, n)' <=> Idx(s, n)
          /\ \A x \in Int : Dev(s, x)' <=> Dev(s, x)
      BY <1>1, TablesKept
    <3>2. cdev_id_qp'[s] = 0 \/ Idx(s, cdev_id_qp[s])'
      BY <1>1, <3>1 DEF Sessions, SaOk, SesShape, SesTypes
    <3>3. \E n \in Nat : Idx(s, n)'
      BY <1>2, <2>3, <3>1
    <3>4. pc'[c] = "setqp" => Given(s)'
      <4>1. PICK x \in Cdevs : x = Cdev(c) /\ x \in Int
        BY <1>2
      <4>2. Dev(s, x)'
        BY <1>2, <2>3, <3>1, <4>1
      <4> QED
        BY <1>5, <1>6, <2>3, <4>1, <4>2 DEF Given
    <3>5. CpuOk(s)'
      BY <1>1, <1>8, <2>3, <3>1 DEF Sessions, CtxOk
    <3> QED
      BY <1>1, <1>4, <2>3, <3>2, <3>3, <3>4, <3>5 DEF SaOk
  <2> QED
    BY <2>1, <2>2, <2>3
<1>10. \A d \in Ctx : d # c => CtxOk(d)'
  BY <1>1, <1>5, <1>8, OthersCtx DEF Sessions, SesShape, SesTypes
<1>11. CtxOk(c)'
  BY <1>1, <1>2, <1>4, <1>8, TablesKept DEF CtxOk, Sessions
<1>12. \A d \in Ctx : d # c => Alone(d)'
  BY <1>1, <1>3, <1>4, <1>5, OthersAlone DEF Sessions, Busy
<1>13. Alone(c)'
  BY <1>1, <1>3, <1>4, <1>5 DEF Sessions, Alone, Busy
<1> QED
  BY <1>7, <1>9, <1>10, <1>11, <1>12, <1>13 DEF Sessions

LEMMA CreateFailsStep ==
  ASSUME MapInv, SesShape, Sessions, NEW c \in Ctx, CreateFails(c),
         UNCHANGED <<enable, mapvars>>
  PROVE  SesShape' /\ Sessions'
<1>1. /\ pc[c] = "publish" /\ UNCHANGED mapvars
      /\ ses' = [ses EXCEPT ![cur[c]] = 0]
      /\ UNCHANGED <<cur, my_qp, cdev_id_qp, dev_id, inited, refused, nses, cleared>>
  BY DEF CreateFails
<1>2. /\ cur[c] \in SA /\ Done /\ c \in Users /\ SaDir[cur[c]] = c[2]
      /\ nses \in Nat /\ PoolSize \in Nat /\ nses <= PoolSize
  BY <1>1, CdevFacts, SesAssumption DEF Found, SesShape, SesTypes
<1>3. \/ /\ pc' = [pc EXCEPT ![c] = "init"] /\ pc'[c] = "init" /\ early' = early
         /\ nses = PoolSize
      \/ pc' = [pc EXCEPT ![c] = Idle] /\ pc'[c] = Idle /\ early' = early \ {c}
  BY <1>2 DEF CreateFails, Goto, Leave, SesShape, SesTypes
<1>4. /\ \A d \in Ctx : d # c => pc'[d] = pc[d]
      /\ \A d \in Ctx : d # c /\ d \in early => d \in early'
      /\ ses'[cur[c]] = 0 /\ \A s \in SA : s # cur[c] => ses'[s] = ses[s]
  BY <1>1, <1>2, <1>3 DEF SesShape, SesTypes
<1>5. SesShape'
  <2>1. pc' \in [Ctx -> {Idle, "enqueue"} \cup Busy]
    BY <1>3 DEF SesShape, SesTypes, Busy
  <2>2. ses' \in [SA -> 0 .. nses]
    BY <1>1, <1>2 DEF SesShape, SesTypes
  <2>3. SesTypes'
    BY <1>1, <2>1, <2>2 DEF SesShape, SesTypes
  <2> QED
    BY <1>1, <1>2, <1>3, <1>4, <2>3, ShapeStep DEF SesShape, Found
<1>6. \A s \in SA : CpuOk(s) => CpuOk(s)'
  BY <1>1, CpuStays
<1>7. \A s \in SA : SaOk(s)'
  <2> SUFFICES ASSUME NEW s \in SA PROVE SaOk(s)'
    OBVIOUS
  <2>1. CASE s # cur[c]
    BY <1>1, <1>4, <1>6, <2>1, SaStays DEF Sessions
  <2>2. CASE s = cur[c]
    <3>1. Idx(s, cdev_id_qp[s])' <=> Idx(s, cdev_id_qp[s])
      BY <1>1, TablesKept DEF SesShape, SesTypes
    <3>2. SameEntry(s)' <=> SameEntry(s)
      BY <1>1, TablesKept
    <3> QED
      BY <1>1, <1>4, <2>2, <3>1, <3>2 DEF Sessions, SaOk
  <2> QED
    BY <2>1, <2>2
<1>8. \A d \in Ctx : d # c => CtxOk(d)'
  BY <1>1, <1>4, <1>6, OthersCtx DEF Sessions, SesShape, SesTypes
<1>9. CtxOk(c)'
  BY <1>1, <1>2, <1>3, <1>6, TablesKept DEF CtxOk, Sessions, Idle
<1>10. \A d \in Ctx : d # c => Alone(d)'
  BY <1>1, <1>3, <1>4, OthersAlone DEF Sessions, Busy, Idle
<1>11. Alone(c)'
  BY <1>1, <1>3, <1>4 DEF Sessions, Alone, Busy, Idle
<1> QED
  BY <1>5, <1>7, <1>8, <1>9, <1>10, <1>11 DEF Sessions

(* Whether the device takes the session or refuses it. *)
LEMMA InitSessionStep ==
  ASSUME MapInv, SesShape, Sessions, NEW c \in Ctx, InitSession(c),
         UNCHANGED <<enable, mapvars>>
  PROVE  SesShape' /\ Sessions'
<1>1. /\ pc[c] = "init" /\ UNCHANGED mapvars
      /\ pc' = [pc EXCEPT ![c] = "setqp"]
      /\ UNCHANGED <<cur, my_qp, ses, cdev_id_qp, dev_id, nses, cleared, early>>
  BY DEF InitSession, Goto
<1>2. PICK x \in Cdevs : x = Cdev(c) /\ x \in Int
  BY <1>1, CdevFacts DEF Found
<1>3. /\ cur[c] \in SA /\ my_qp[c] \in Nat
      /\ Done /\ c \in Users /\ SaDir[cur[c]] = c[2]
      /\ SameEntry(cur[c]) => Idx(cur[c], my_qp[c]) /\ Dev(cur[c], x)
  BY <1>1, <1>2, CdevFacts DEF Found
<1>4. /\ pc'[c] = "setqp" /\ \A d \in Ctx : d # c => pc'[d] = pc[d]
      /\ pc' \in [Ctx -> {Idle, "enqueue"} \cup Busy]
  BY <1>1 DEF SesShape, SesTypes, Busy
<1>5. /\ inited' \in [1 .. PoolSize -> SUBSET Cdevs]
      /\ refused' \in [1 .. PoolSize -> SUBSET Cdevs]
      /\ \A n \in 1 .. PoolSize : inited[n] \subseteq inited'[n] /\ refused[n] \subseteq refused'[n]
      /\ ses[cur[c]] # 0 => x \in inited'[ses[cur[c]]] \cup refused'[ses[cur[c]]]
  <2>1. /\ inited \in [1 .. PoolSize -> SUBSET Cdevs]
        /\ refused \in [1 .. PoolSize -> SUBSET Cdevs]
        /\ ses[cur[c]] # 0 => ses[cur[c]] \in 1 .. PoolSize
    BY <1>3, SesAssumption DEF SesShape, SesTypes
  <2>2. CASE ses[cur[c]] = 0
    BY <2>1, <2>2 DEF InitSession, WithCdev
  <2>3. CASE ses[cur[c]] # 0
    <3> DEFINE n == ses[cur[c]]
    <3>1. \/ inited' = [inited EXCEPT ![n] = @ \cup {x}] /\ refused' = refused
          \/ refused' = [refused EXCEPT ![n] = @ \cup {x}] /\ inited' = inited
      BY <1>2, <2>3 DEF InitSession, WithCdev
    <3>2. n \in 1 .. PoolSize
      BY <2>1, <2>3
    <3> HIDE DEF n
    <3>3. inited' \in [1 .. PoolSize -> SUBSET Cdevs] /\ refused' \in [1 .. PoolSize -> SUBSET Cdevs]
      BY <2>1, <3>1, <3>2
    <3>4. /\ \A m \in 1 .. PoolSize : inited[m] \subseteq inited'[m] /\ refused[m] \subseteq refused'[m]
          /\ x \in inited'[n] \cup refused'[n]
      BY <2>1, <3>1, <3>2
    <3> QED
      BY <3>3, <3>4 DEF n
  <2> QED
    BY <2>2, <2>3
<1>6. SesShape'
  <2>1. SesTypes'
    BY <1>1, <1>4, <1>5 DEF SesShape, SesTypes
  <2> QED
    BY <1>1, <1>3, <1>4, <2>1, ShapeStep DEF SesShape, Found
<1>7. \A s \in SA : CpuOk(s) => CpuOk(s)'
  BY <1>1, CpuStays
<1>8. \A s \in SA : SaOk(s)'
  <2> SUFFICES ASSUME NEW s \in SA PROVE SaOk(s)'
    OBVIOUS
  <2>1. ses[s] # 0 => ses[s] \in 1 .. PoolSize
    BY SesAssumption DEF SesShape, SesTypes
  <2>2. CASE s # cur[c]
    BY <1>1, <1>4, <1>5, <1>7, <2>1, <2>2, SaStays DEF Sessions
  <2>3. CASE s = cur[c]
    <3>1. /\ SameEntry(s)' <=> SameEntry(s)
          /\ \A n \in Nat : Idx(s, n)' <=> Idx(s, n)
          /\ \A y \in Int : Dev(s, y)' <=> Dev(s, y)
      BY <1>1, TablesKept
    <3>2. SameEntry(s) /\ ses[s] # 0 => Given(s)'
      BY <1>1, <1>2, <1>3, <1>5, <2>3, <3>1 DEF Given
    <3> QED
      BY <1>1, <1>4, <1>7, <2>3, <3>1, <3>2 DEF Sessions, SaOk, SesShape, SesTypes
  <2> QED
    BY <2>2, <2>3
<1>9. \A d \in Ctx : d # c => CtxOk(d)'
  BY <1>1, <1>4, <1>7, OthersCtx DEF Sessions, SesShape, SesTypes
<1>10. CtxOk(c)'
  BY <1>1, <1>3, <1>4, <1>7, TablesKept DEF CtxOk, Sessions
<1>11. \A d \in Ctx : d # c => Alone(d)'
  BY <1>1, <1>4, OthersAlone DEF Sessions, Busy
<1>12. Alone(c)'
  BY <1>1, <1>4 DEF Sessions, Alone, Busy
<1> QED
  BY <1>6, <1>8, <1>9, <1>10, <1>11, <1>12 DEF Sessions

(* The session is usable once a creator has stored the queue pair. *)
LEMMA SetQpStep ==
  ASSUME MapInv, SesShape, Sessions, NEW c \in Ctx, SetQp(c), UNCHANGED <<enable, mapvars>>
  PROVE  SesShape' /\ Sessions'
<1>1. /\ pc[c] = "setqp" /\ UNCHANGED mapvars
      /\ cdev_id_qp' = [cdev_id_qp EXCEPT ![cur[c]] = my_qp[c]]
      /\ UNCHANGED <<cur, my_qp, ses, dev_id, inited, refused, nses, cleared, early>>
  BY DEF SetQp
<1>2. /\ cur[c] \in SA /\ my_qp[c] \in Nat
      /\ Done /\ c \in Users /\ SaDir[cur[c]] = c[2]
      /\ SameEntry(cur[c]) => Idx(cur[c], my_qp[c])
  BY <1>1, CdevFacts DEF Found
<1>3. \/ pc' = [pc EXCEPT ![c] = "prepare"] /\ pc'[c] = "prepare"
      \/ pc' = [pc EXCEPT ![c] = "enqueue"] /\ pc'[c] = "enqueue"
  BY DEF SetQp, Goto, SesShape, SesTypes
<1>4. /\ \A d \in Ctx : d # c => pc'[d] = pc[d]
      /\ cdev_id_qp' \in [SA -> Nat]
      /\ cdev_id_qp'[cur[c]] = my_qp[c]
      /\ \A s \in SA : s # cur[c] => cdev_id_qp'[s] = cdev_id_qp[s]
  BY <1>1, <1>2, <1>3 DEF SesShape, SesTypes
<1>5. SesShape'
  <2>1. pc' \in [Ctx -> {Idle, "enqueue"} \cup Busy]
    BY <1>3 DEF SesShape, SesTypes, Busy
  <2>2. SesTypes'
    BY <1>1, <1>4, <2>1 DEF SesShape, SesTypes
  <2> QED
    BY <1>1, <1>2, <1>3, <1>4, <2>2, ShapeStep DEF SesShape, Found
<1>6. \A s \in SA : CpuOk(s) => CpuOk(s)'
  BY <1>1, CpuStays
<1>7. \A s \in SA : SaOk(s)'
  <2> SUFFICES ASSUME NEW s \in SA PROVE SaOk(s)'
    OBVIOUS
  <2>1. CASE s # cur[c]
    BY <1>1, <1>4, <1>6, <2>1, SaStays DEF Sessions
  <2>2. CASE s = cur[c]
    <3>1. /\ SameEntry(s)' <=> SameEntry(s)
          /\ \A n \in Nat : Idx(s, n)' <=> Idx(s, n)
          /\ \A y \in Int : Dev(s, y)' <=> Dev(s, y)
      BY <1>1, TablesKept
    <3>2. Given(s) => Given(s)'
      BY <1>1, <3>1, CdevAssumption DEF Given, Cdevs
    <3>3. SameEntry(s) => Idx(s, cdev_id_qp'[s])
      BY <1>2, <1>4, <2>2
    <3> QED
      BY <1>1, <1>4, <1>6, <2>2, <3>1, <3>2, <3>3 DEF Sessions, SaOk
  <2> QED
    BY <2>1, <2>2
<1>8. \A d \in Ctx : d # c => CtxOk(d)'
  <2>1. \A s \in SA : SameEntry(s) /\ Idx(s, cdev_id_qp[s]) => Idx(s, cdev_id_qp'[s])
    BY <1>2, <1>4
  <2> QED
    BY <1>1, <1>4, <1>6, <2>1, OthersCtx DEF Sessions
<1>9. CtxOk(c)'
  <2>1. SameEntry(cur[c]) => Idx(cur[c], cdev_id_qp'[cur[c]])
    BY <1>2, <1>4
  <2>2. \A n \in Nat : Idx(cur[c], n)' <=> Idx(cur[c], n)
    BY <1>1, <1>2, TablesKept
  <2> QED
    BY <1>1, <1>2, <1>3, <1>4, <1>6, <2>1, <2>2, TablesKept DEF CtxOk, Sessions
<1>10. \A d \in Ctx : d # c => Alone(d)'
  BY <1>1, <1>3, <1>4, OthersAlone DEF Sessions, Busy
<1>11. Alone(c)'
  <2>1. c \notin early => \A d \in Ctx : pc[d] \in Busy /\ cur[d] = cur[c] => d = c
    BY <1>1 DEF Sessions, Alone, Busy
  <2>2. c \notin early => ses[cur[c]] # 0 \/ nses = PoolSize
    BY <1>1 DEF Sessions, Alone
  <2>3. pc'[c] = "enqueue" => \A d \in Ctx : pc'[d] \in Busy => d # c /\ pc[d] \in Busy
    BY <1>4 DEF Busy
  <2> QED
    BY <1>1, <1>3, <1>4, <2>1, <2>2, <2>3 DEF Alone
<1> QED
  BY <1>5, <1>7, <1>8, <1>9, <1>10, <1>11 DEF Sessions

LEMMA PrepareStep ==
  ASSUME MapInv, SesShape, Sessions, NEW c \in Ctx, Prepare(c), UNCHANGED <<enable, mapvars>>
  PROVE  SesShape' /\ Sessions'
<1>1. /\ pc[c] = "prepare" /\ UNCHANGED mapvars
      /\ UNCHANGED <<cur, my_qp, cdev_id_qp, inited, refused, nses>>
  BY DEF Prepare
<1>2. /\ cur[c] \in SA /\ my_qp[c] \in Nat
      /\ Done /\ c \in Users /\ SaDir[cur[c]] = c[2]
      /\ SameEntry(cur[c]) => Idx(cur[c], my_qp[c])
  BY <1>1, CdevFacts DEF Found
<1>3. \/ /\ pc' = [pc EXCEPT ![c] = "enqueue"] /\ pc'[c] = "enqueue"
         /\ ses[cur[c]] # 0 /\ UNCHANGED <<ses, dev_id, cleared, early>>
      \/ /\ pc' = [pc EXCEPT ![c] = Idle] /\ pc'[c] = Idle
         /\ ses' = [ses EXCEPT ![cur[c]] = 0]
         /\ dev_id' = [dev_id EXCEPT ![cur[c]] = 0]
         /\ cleared' = cleared \cup {cur[c]} /\ early' = early \ {c}
  BY DEF Prepare, Goto, Leave, SesShape, SesTypes
<1>4. /\ \A d \in Ctx : d # c => pc'[d] = pc[d]
      /\ \A d \in Ctx : d # c /\ d \in early => d \in early'
      /\ \A s \in SA : s # cur[c] => ses'[s] = ses[s] /\ dev_id'[s] = dev_id[s]
      /\ ses'[cur[c]] \in {0, ses[cur[c]]}
      /\ cleared \subseteq cleared'
      /\ dev_id'[cur[c]] = dev_id[cur[c]] \/ cur[c] \in cleared'
  BY <1>2, <1>3 DEF SesShape, SesTypes
<1>5. SesShape'
  <2>1. pc' \in [Ctx -> {Idle, "enqueue"} \cup Busy]
    BY <1>3 DEF SesShape, SesTypes
  <2>2. ses' \in [SA -> 0 .. nses]
    <3>1. ses \in [SA -> 0 .. nses] /\ nses \in Nat
      BY DEF SesShape, SesTypes
    <3> QED
      BY <1>3, <3>1
  <2>3. cleared' \subseteq SA /\ dev_id' \in [SA -> Cdevs \cup {0}]
    BY <1>2, <1>3 DEF SesShape, SesTypes
  <2>4. SesTypes'
    BY <1>1, <2>1, <2>2, <2>3 DEF SesShape, SesTypes
  <2> QED
    BY <1>1, <1>2, <1>3, <1>4, <2>4, ShapeStep DEF SesShape, Found, Idle
<1>6. \A s \in SA : CpuOk(s) => CpuOk(s)'
  <2> SUFFICES ASSUME NEW s \in SA, CpuOk(s) PROVE CpuOk(s)'
    OBVIOUS
  <2>1. CASE dev_id'[s] = dev_id[s]
    BY <1>1, <1>4, <2>1, CpuStays
  <2>2. CASE s \in cleared'
    BY <2>2 DEF CpuOk, Type
  <2> QED
    BY <1>4, <2>1, <2>2
<1>7. \A s \in SA : SaOk(s)'
  <2> SUFFICES ASSUME NEW s \in SA PROVE SaOk(s)'
    OBVIOUS
  <2>1. CASE ses'[s] = ses[s]
    BY <1>1, <1>4, <1>6, <2>1, SaStays DEF Sessions
  <2>2. CASE ses'[s] = 0
    <3>1. Idx(s, cdev_id_qp[s])' <=> Idx(s, cdev_id_qp[s])
      BY <1>1, TablesKept DEF SesShape, SesTypes
    <3>2. SameEntry(s)' <=> SameEntry(s)
      BY <1>1, TablesKept
    <3> QED
      BY <1>1, <2>2, <3>1, <3>2 DEF Sessions, SaOk
  <2> QED
    BY <1>4, <2>1, <2>2
<1>8. \A d \in Ctx : d # c => CtxOk(d)'
  BY <1>1, <1>4, <1>6, OthersCtx DEF Sessions, SesShape, SesTypes
<1>9. CtxOk(c)'
  <2>1. /\ SameEntry(cur[c])' <=> SameEntry(cur[c])
        /\ \A n \in Nat : Idx(cur[c], n)' <=> Idx(cur[c], n)
    BY <1>1, <1>2, TablesKept
  <2>2. SameEntry(cur[c]) => Idx(cur[c], cdev_id_qp[cur[c]]) /\ cdev_id_qp[cur[c]] \in Nat
    BY <1>1, <1>2 DEF Sessions, CtxOk, SesShape, SesTypes
  <2> QED
    BY <1>1, <1>3, <2>1, <2>2 DEF CtxOk, Idle
<1>10. \A d \in Ctx : d # c => Alone(d)'
  BY <1>1, <1>3, <1>4, OthersAlone DEF Sessions, Busy, Idle
<1>11. Alone(c)'
  <2>1. c \notin early => \A d \in Ctx : pc[d] \in Busy /\ cur[d] = cur[c] => d = c
    BY <1>1 DEF Sessions, Alone, Busy
  <2>2. pc'[c] = "enqueue" => \A d \in Ctx : pc'[d] \in Busy => d # c /\ pc[d] \in Busy
    BY <1>4 DEF Busy
  <2> QED
    BY <1>1, <1>3, <1>4, <2>1, <2>2 DEF Alone, Busy, Idle
<1> QED
  BY <1>5, <1>7, <1>8, <1>9, <1>10, <1>11 DEF Sessions

LEMMA EnqueueStep ==
  ASSUME MapInv, SesShape, Sessions, NEW c \in Ctx, Enqueue(c), UNCHANGED <<enable, mapvars>>
  PROVE  SesShape' /\ Sessions'
<1>1. /\ pc[c] = "enqueue" /\ pc'[c] = Idle /\ pc' = [pc EXCEPT ![c] = Idle]
      /\ UNCHANGED mapvars /\ early' = early \ {c}
      /\ \A d \in Ctx : d # c => pc'[d] = pc[d]
      /\ UNCHANGED <<cur, my_qp, ses, cdev_id_qp, dev_id, inited, refused, nses, cleared>>
  BY DEF Enqueue, Goto, Leave, SesShape, SesTypes
<1>2. SesShape'
  <2>1. SesTypes'
    BY <1>1 DEF SesShape, SesTypes
  <2> QED
    BY <1>1, <2>1, ShapeStep DEF SesShape, Found, Idle
<1>3. \A s \in SA : CpuOk(s) => CpuOk(s)'
  BY <1>1, CpuStays
<1>4. \A s \in SA : SaOk(s)'
  BY <1>1, <1>3, SaStays DEF Sessions
<1>5. \A d \in Ctx : d # c => CtxOk(d)'
  BY <1>1, <1>3, OthersCtx DEF Sessions, SesShape, SesTypes
<1>6. \A d \in Ctx : d # c => Alone(d)'
  BY <1>1, OthersAlone DEF Sessions, Busy, Idle
<1>7. CtxOk(c)' /\ Alone(c)'
  BY <1>1 DEF CtxOk, Alone, Busy, Idle
<1> QED
  BY <1>2, <1>4, <1>5, <1>6, <1>7 DEF Sessions
-----------------------------------------------------------------------------
LEMMA NextSesInv ==
  ASSUME MapsFit PROVE SesInv /\ [SesNext]_vars => SesInv'
<1> SUFFICES ASSUME SesInv, [SesNext]_vars PROVE SesInv'
  OBVIOUS
<1>1. CASE MapNext /\ UNCHANGED <<enable, sesvars>>
  BY <1>1, MapStepSes
<1>2. CASE Done /\ \E c \in Ctx : LcoreStep(c) /\ UNCHANGED <<enable, mapvars>>
  <2>1. PICK c \in Ctx : LcoreStep(c) /\ UNCHANGED <<enable, mapvars>>
    BY <1>2
  <2>2. MapInv'
    BY <2>1, MapKept DEF SesInv
  <2>3. SesShape' /\ Sessions'
    BY <1>2, <2>1, TestSessionStep, LookupCdevStep, CpuDeviceStep, CreateSessionStep,
       CreateFailsStep, InitSessionStep, SetQpStep, PrepareStep, EnqueueStep
       DEF LcoreStep, SesInv
  <2> QED
    BY <2>2, <2>3 DEF SesInv
<1>3. CASE UNCHANGED vars
  <2>1. MapInv' /\ UNCHANGED <<enable, mapvars>> /\ UNCHANGED sesvars
    BY <1>3, MapKept DEF SesInv, vars
  <2>2. SesShape'
    BY <2>1 DEF SesInv, SesShape, SesTypes, Fits, Done, Users, mapvars, sesvars
  <2>3. \A s \in SA : CpuOk(s) => CpuOk(s)'
    BY <2>1, CpuStays DEF SesInv, sesvars
  <2>4. \A s \in SA : SaOk(s)'
    BY <2>1, <2>3, SaStays, SMTT(30) DEF SesInv, Sessions, sesvars
  <2>5. \A c \in Ctx : CtxOk(c)' /\ Alone(c)'
    BY <2>1 DEF SesInv, Sessions, CtxOk, Alone, SameEntry, DevAt, Idx, UsersOf, CpuOk, Dev, Type,
                Users, mapvars, sesvars
  <2> QED
    BY <2>1, <2>2, <2>4, <2>5 DEF SesInv, Sessions
<1> QED
  BY <1>1, <1>2, <1>3 DEF SesNext

LEMMA SesInvHolds == ASSUME MapsFit, SA # {} PROVE SesSpec => []SesInv
<1>1. SesInit => SesInv
  BY InitSesInv
<1>2. SesInv /\ [SesNext]_vars => SesInv'
  BY NextSesInv
<1> QED
  BY <1>1, <1>2, PTL DEF SesSpec

(* What ipsec_enqueue and ipsec_process enqueue can be processed: the      *)
(* queue pair stored in the SA lies in the lcore's table (the RTE_ASSERT   *)
(* of ipsec_enqueue), its device has the algorithm and was given the       *)
(* session.  Nothing is assumed of the pool, of what the devices refuse,   *)
(* or of how many lcores create the session of an SA at once.              *)
THEOREM SessionIsUsable == ASSUME MapsFit, SA # {} PROVE SesSpec => []SessionUsable
<1>1. SesInv => SessionUsable
  <2> SUFFICES ASSUME SesInv, NEW c \in Ctx, pc[c] = "enqueue", SameEntry(cur[c])
               PROVE  /\ cdev_id_qp[cur[c]] < Len(tbl[c])
                      /\ c \notin early =>
                           LET d == tbl[c][cdev_id_qp[cur[c]] + 1].id IN
                           /\ SaAlgo[cur[c]] \in conf.caps[d]
                           /\ ses[cur[c]] = 0 => nses = PoolSize
                           /\ ses[cur[c]] # 0 =>
                                /\ d \in inited[ses[cur[c]]] \cup refused[ses[cur[c]]]
                                /\ Type(cur[c]) = "CPU_CRYPTO" => dev_id[cur[c]] = d /\ d \in CpuDevs
    BY DEF SessionUsable
  <2> DEFINE s == cur[c]
             k == cdev_id_qp[s] + 1
             d == tbl[c][k].id
  <2>1. /\ s \in SA /\ SaAlgo[s] \in Algos /\ cdev_id_qp[s] \in Nat
        /\ c \in UsersOf(s) /\ MapShape /\ MapSound
        /\ SaOk(s) /\ CtxOk(c) /\ Alone(c)
    BY SesAssumption DEF SesInv, MapInv, SesShape, SesTypes, Sessions, Idle, UsersOf
  <2>2. PICK n \in Nat : Idx(s, n)
    BY <2>1 DEF CtxOk
  <2>3. map[c][SaAlgo[s]] = n
    BY <2>1, <2>2 DEF Idx
  <2>4. n + 1 \in DOMAIN tbl[c] /\ SaAlgo[s] \in conf.caps[tbl[c][n + 1].id]
    BY <2>1, <2>3 DEF MapSound, NoEnt
  <2>5. tbl[c] \in Seq(QpEntry) /\ n < Len(tbl[c])
    BY <2>1, <2>4 DEF MapShape
  <2>6. cdev_id_qp[s] = 0 \/ cdev_id_qp[s] = n
    BY <2>1, <2>3 DEF SaOk, Idx
  <2>7. cdev_id_qp[s] < Len(tbl[c])
    BY <2>5, <2>6
  <2>8. ASSUME c \notin early
        PROVE  /\ SaAlgo[s] \in conf.caps[d]
               /\ ses[s] = 0 => nses = PoolSize
               /\ ses[s] # 0 => /\ d \in inited[ses[s]] \cup refused[ses[s]]
                                /\ Type(s) = "CPU_CRYPTO" => dev_id[s] = d /\ d \in CpuDevs
    <3>1. cdev_id_qp[s] = n
      BY <2>1, <2>3, <2>8 DEF CtxOk, Idx
    <3>2. d = DevAt(c, map[c][SaAlgo[s]])
      BY <2>3, <3>1 DEF DevAt, NoEnt
    <3>3. ses[s] = 0 => nses = PoolSize
      BY <2>1, <2>8 DEF Alone
    <3>4. ses[s] # 0 => Given(s) /\ CpuOk(s)
      BY <2>1, <2>8 DEF Alone, SaOk, Busy
    <3>5. ses[s] # 0 => d \in inited[ses[s]] \cup refused[ses[s]]
      BY <2>1, <3>2, <3>4 DEF Given, Dev
    <3>6. ses[s] # 0 /\ Type(s) = "CPU_CRYPTO" => dev_id[s] = d /\ d \in CpuDevs
      BY <2>1, <3>2, <3>4 DEF CpuOk, Dev
    <3> QED
      BY <2>4, <3>1, <3>3, <3>5, <3>6
  <2> QED
    BY <2>7, <2>8
<1> QED
  BY <1>1, SesInvHolds, PTL

(* Types of the session variables; a context that creates a session has a  *)
(* queue pair for it.                                                      *)
THEOREM SesTypeCorrect == ASSUME MapsFit, SA # {} PROVE SesSpec => []SesTypeOK
<1>1. SesInv => SesTypeOK
  <2> SUFFICES ASSUME SesInv PROVE SesTypeOK
    OBVIOUS
  <2>1. MapTypeOK
    BY MapInvImplies DEF SesInv
  <2>2. \A c \in Ctx : pc[c] \in {"cpu", "publish", "init", "setqp"} => my_qp[c] < Len(tbl[c])
    <3> SUFFICES ASSUME NEW c \in Ctx, pc[c] \in {"cpu", "publish", "init", "setqp"}
                 PROVE  my_qp[c] < Len(tbl[c])
      OBVIOUS
    <3>1. my_qp[c] \in Nat /\ my_qp[c] + 1 \in DOMAIN tbl[c] /\ tbl[c] \in Seq(QpEntry)
      BY DEF SesInv, SesShape, SesTypes, Found, Fits, MapInv, MapShape
    <3> QED
      BY <3>1
  <2> QED
    BY <2>1, <2>2 DEF SesInv, SesShape, SesTypes, SesTypeOK
<1> QED
  BY <1>1, SesInvHolds, PTL

LEMMA MapInvHolds == ASSUME MapsFit PROVE SesSpec => []MapInv
<1>1. SesInit => MapInv
  BY InitMapInv DEF SesInit
<1>2. MapInv /\ [SesNext]_vars => MapInv'
  BY NextMapInv, MapKept DEF SesNext, vars
<1> QED
  BY <1>1, <1>2, PTL DEF SesSpec

(* cryptodevs_init gives no queue pair of a crypto device to two contexts, *)
(* and configures each device with every queue pair it has given out,      *)
(* before and while the lcores run.                                        *)
THEOREM QueuePairsExclusive == ASSUME MapsFit PROVE SesSpec => []QpExclusive
<1>1. MapInv => QpExclusive
  BY MapInvImplies
<1> QED
  BY <1>1, MapInvHolds, PTL

(* add_cdev_mapping leads an algorithm to an entry of the context's own    *)
(* table, of a device that supports it.                                    *)
THEOREM MapsSound == ASSUME MapsFit PROVE SesSpec => []MapSound
<1>1. MapInv => MapSound
  BY MapInvImplies
<1> QED
  BY <1>1, MapInvHolds, PTL

(* An lcore is left without a crypto device for an algorithm only if every *)
(* device that supports it has given out all the queue pairs it can, or    *)
(* the lcore's table is full: cryptodevs_init loses no queue pair, and the *)
(* index it carries from one device to the next skips no lcore.            *)
THEOREM MapIsComplete == ASSUME MapsFit PROVE SesSpec => []MapComplete
<1>1. SesInit => CompleteInv
  BY InitComplete DEF SesInit
<1>2. CompleteInv /\ [SesNext]_vars => CompleteInv'
  BY MapParamComplete, ConfigureComplete, CompleteKept DEF SesNext, MapNext, vars
<1>3. CompleteInv => MapComplete
  BY CompleteImplies
<1> QED
  BY <1>1, <1>2, <1>3, PTL DEF SesSpec
=============================================================================
