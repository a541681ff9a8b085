--------------------------- MODULE IpsecCtxProofs ---------------------------
(***************************************************************************)
(* Invariants of IpsecCtx and its refinement of PktLife, proved for every  *)
(* burst size, number of queue pairs, device depth, set of SAs and both    *)
(* modes.                                                                  *)
(***************************************************************************)
EXTENDS IpsecCtx, FiniteSetTheorems, TLAPS

(* What the array bound of ol_pkts rests on: while a burst is being        *)
(* enqueued the packets left and those already in ol_pkts are one burst at *)
(* most; while ol_pkts is emptied, what was returned and what is left are; *)
(* library mode never uses the array.                                      *)
BurstFits ==
  /\ pc = "enqueue" => Len(todo) + Len(ol_pkts) <= MAX_PKT_BURST
  /\ pc = "inline" => nb + Len(ol_pkts) <= MAX_PKT_BURST
  /\ pc \notin {"enqueue", "inline"} => ol_pkts = <<>>
  /\ enable => ol_pkts = <<>>

(* The second loop of ctx_dequeue stops at last_qp. *)
LoopBound == pc = "dequeue2" => iq <= last_qp

IInv == TypeOK /\ InFlightExact /\ BufHasRoom /\ BurstFits /\ LoopBound
-----------------------------------------------------------------------------
(* Facts about sequences used below. *)

LEMMA ConstFacts ==
  /\ NbQps \in Nat /\ NbQps > 0
  /\ MAX_PKT_BURST \in Nat /\ MAX_PKT_BURST > 0
  /\ PmdDepth \in Nat
BY CtxAssumption

LEMMA LesserFacts ==
  ASSUME NEW a \in Int, NEW b \in Int, NEW x \in Int, x <= Lesser(a, b)
  PROVE  x <= a /\ x <= b
BY DEF Lesser

LEMMA ConcatFacts ==
  ASSUME NEW S, NEW s \in Seq(S), NEW t \in Seq(S)
  PROVE  /\ s \o t \in Seq(S)
         /\ Len(s \o t) = Len(s) + Len(t)
OBVIOUS

LEMMA SubSeqFacts ==
  ASSUME NEW S, NEW s \in Seq(S), NEW m \in Nat, NEW n \in Nat,
         1 <= m, m <= n + 1, n <= Len(s)
  PROVE  /\ SubSeq(s, m, n) \in Seq(S)
         /\ Len(SubSeq(s, m, n)) = n - m + 1
OBVIOUS

LEMMA PrefixFacts ==
  ASSUME NEW S, NEW s \in Seq(S), NEW n \in Nat, n <= Len(s)
  PROVE  /\ SubSeq(s, 1, n) \in Seq(S)
         /\ Len(SubSeq(s, 1, n)) = n
BY SubSeqFacts

LEMMA RangeFacts ==
  ASSUME NEW S, NEW s \in Seq(S)
  PROVE  Range(s) \subseteq S
BY DEF Range

(* What IInv says of one queue pair. *)
LEMMA QueueFacts ==
  ASSUME TypeOK, InFlightExact, NEW q \in Qps
  PROVE  /\ pmd[q] \in Seq(Pkts) /\ Len(pmd[q]) \in Nat
         /\ buf[q] \in Seq(Pkts) /\ Len(buf[q]) \in Nat
         /\ ready[q] \in Nat /\ ready[q] <= Len(pmd[q])
         /\ in_flight[q] = Len(pmd[q])
         /\ Len(pmd[q]) <= PmdDepth
<1>1. pmd[q] \in Seq(Pkts) /\ buf[q] \in Seq(Pkts) /\ ready[q] \in Nat
  BY DEF TypeOK
<1>2. QED BY <1>1 DEF InFlightExact

(* Offering ops to the PMD keeps in_flight exact. *)
LEMMA EnqueueBurstFacts ==
  ASSUME TypeOK, InFlightExact, NEW q \in Qps, NEW ops \in Seq(Pkts),
         NEW acc \in 0 .. Room(q, ops), NEW bad \in SUBSET Pkts,
         EnqueueBurst(q, ops, acc, bad)
  PROVE  /\ pmd' \in [Qps -> Seq(Pkts)]
         /\ in_flight' \in [Qps -> Nat]
         /\ pool' \in SUBSET Pkts
         /\ \A r \in Qps : /\ in_flight'[r] = Len(pmd'[r])
                           /\ ready[r] <= Len(pmd'[r])
                           /\ Len(pmd'[r]) <= PmdDepth
<1>1. acc \in Nat /\ acc <= Len(ops) /\ acc <= PmdDepth - Len(pmd[q])
  BY QueueFacts, ConstFacts DEF Room, Lesser
<1> DEFINE taken == SubSeq(ops, 1, acc)
           grown == pmd[q] \o taken
<1>2. taken \in Seq(Pkts) /\ Len(taken) = acc
  BY <1>1, SubSeqFacts
<1>3. Rejected(ops, acc) \subseteq Pkts
  <2>1. SubSeq(ops, acc + 1, Len(ops)) \in Seq(Pkts)
    BY <1>1, SubSeqFacts
  <2>2. QED BY <2>1, RangeFacts DEF Rejected
<1> HIDE DEF taken
<1>4. grown \in Seq(Pkts) /\ Len(grown) = Len(pmd[q]) + acc
  BY <1>2, QueueFacts, ConcatFacts
<1>5. pmd' = [pmd EXCEPT ![q] = grown]
  BY DEF EnqueueBurst, taken
<1> HIDE DEF grown
<1>6. in_flight' = [in_flight EXCEPT ![q] = in_flight[q] + acc]
  BY DEF EnqueueBurst
<1>7. /\ pmd' \in [Qps -> Seq(Pkts)]
      /\ in_flight' \in [Qps -> Nat]
      /\ pmd'[q] = grown
      /\ in_flight'[q] = in_flight[q] + acc
  <2>1. pmd \in [Qps -> Seq(Pkts)] /\ in_flight \in [Qps -> Nat] BY DEF TypeOK
  <2>2. in_flight[q] + acc \in Nat BY <2>1, <1>1
  <2>3. QED BY <1>4, <1>5, <1>6, <2>1, <2>2
<1>8. pool' \in SUBSET Pkts
  BY <1>3 DEF EnqueueBurst, TypeOK
<1>9. ASSUME NEW r \in Qps
      PROVE  /\ in_flight'[r] = Len(pmd'[r])
             /\ ready[r] <= Len(pmd'[r])
             /\ Len(pmd'[r]) <= PmdDepth
  <2>1. CASE r = q
    BY <2>1, <1>1, <1>4, <1>7, QueueFacts, ConstFacts
  <2>2. CASE r # q
    BY <2>2, <1>5, <1>6, QueueFacts DEF TypeOK
  <2>3. QED BY <2>1, <2>2
<1>10. QED BY <1>7, <1>8, <1>9

(* Dequeuing n completed operations keeps in_flight exact. *)
LEMMA TakeFromFacts ==
  ASSUME TypeOK, InFlightExact, NEW q \in Qps, NEW max \in Nat,
         TakeFrom(q, Dequeued(q, max))
  PROVE  /\ pmd' \in [Qps -> Seq(Pkts)]
         /\ in_flight' \in [Qps -> Nat]
         /\ ready' \in [Qps -> Nat]
         /\ InFlightExact'
         /\ Dequeued(q, max) \in 0 .. max
         /\ SubSeq(pmd[q], 1, Dequeued(q, max)) \in Seq(Pkts)
         /\ Len(SubSeq(pmd[q], 1, Dequeued(q, max))) = Dequeued(q, max)
<1> DEFINE n    == Dequeued(q, max)
           rest == SubSeq(pmd[q], n + 1, Len(pmd[q]))
<1>1. n \in Nat /\ n <= max /\ n <= ready[q] /\ n <= Len(pmd[q])
  BY QueueFacts DEF Dequeued, Lesser
<1> HIDE DEF n
<1>2. /\ rest \in Seq(Pkts)
      /\ Len(rest) = Len(pmd[q]) - n
      /\ SubSeq(pmd[q], 1, n) \in Seq(Pkts)
      /\ Len(SubSeq(pmd[q], 1, n)) = n
  BY <1>1, QueueFacts, SubSeqFacts
<1>3. /\ pmd' = [pmd EXCEPT ![q] = rest]
      /\ ready' = [ready EXCEPT ![q] = ready[q] - n]
      /\ in_flight' = [in_flight EXCEPT ![q] = in_flight[q] - n]
  BY DEF TakeFrom, n
<1> HIDE DEF rest
<1>4. /\ pmd' \in [Qps -> Seq(Pkts)]
      /\ ready' \in [Qps -> Nat]
      /\ in_flight' \in [Qps -> Nat]
      /\ pmd'[q] = rest
      /\ ready'[q] = ready[q] - n
      /\ in_flight'[q] = in_flight[q] - n
  <2>1. /\ pmd \in [Qps -> Seq(Pkts)]
        /\ ready \in [Qps -> Nat]
        /\ in_flight \in [Qps -> Nat]
    BY DEF TypeOK
  <2>2. ready[q] - n \in Nat /\ in_flight[q] - n \in Nat
    BY <1>1, QueueFacts
  <2>3. QED BY <1>2, <1>3, <2>1, <2>2
<1>5. ASSUME NEW r \in Qps
      PROVE  /\ in_flight'[r] = Len(pmd'[r])
             /\ ready'[r] <= Len(pmd'[r])
             /\ Len(pmd'[r]) <= PmdDepth
  <2>1. CASE r = q
    BY <2>1, <1>1, <1>2, <1>4, QueueFacts, ConstFacts
  <2>2. CASE r # q
    BY <2>2, <1>3, QueueFacts DEF TypeOK
  <2>3. QED BY <2>1, <2>2
<1>6. QED BY <1>1, <1>2, <1>4, <1>5 DEF InFlightExact, n
-----------------------------------------------------------------------------
LEMMA InitIInv == Init => IInv
<1> SUFFICES ASSUME Init PROVE IInv OBVIOUS
<1>1. TypeOK
  <2>1. <<>> \in Seq(Pkts) /\ Len(<<>>) = 0 OBVIOUS
  <2>2. QED BY <2>1, ConstFacts DEF Init, TypeOK, PC, Qps, DequeueMax
<1>2. InFlightExact /\ BufHasRoom
  BY ConstFacts DEF Init, InFlightExact, BufHasRoom
<1>3. BurstFits /\ LoopBound
  BY DEF Init, BurstFits, LoopBound
<1>4. QED BY <1>1, <1>2, <1>3 DEF IInv

(* The steps of the device, the drain timer and the NIC. *)
LEMMA DeviceSteps ==
  ASSUME IInv, \/ \E q \in Qps : PmdComplete(q)
               \/ TxDone \/ DrainSkip \/ DrainCryptoBuffers \/ RxBurst
  PROVE  IInv'
<1> USE DEF IInv
<1>1. CASE TxDone
  BY <1>1 DEF TxDone, TypeOK, InFlightExact, BufHasRoom, BurstFits, LoopBound, queues, loop
<1>2. CASE DrainSkip
  BY <1>2 DEF DrainSkip, TypeOK, PC, InFlightExact, BufHasRoom, BurstFits, LoopBound, queues, loop
<1>3. ASSUME NEW q \in Qps, PmdComplete(q) PROVE IInv'
  <2>1. /\ ready' \in [Qps -> Nat]
        /\ \A r \in Qps : ready'[r] <= Len(pmd[r])
    <3>1. ready \in [Qps -> Nat] /\ pmd[q] \in Seq(Pkts) BY DEF TypeOK
    <3>2. QED BY <1>3, <3>1, QueueFacts DEF PmdComplete
  <2>2. TypeOK'
    BY <1>3, <2>1 DEF PmdComplete, TypeOK, loop
  <2>3. InFlightExact'
    BY <1>3, <2>1 DEF PmdComplete, InFlightExact
  <2>4. QED
    BY <1>3, <2>2, <2>3 DEF PmdComplete, BufHasRoom, BurstFits, LoopBound, loop
<1>4. CASE RxBurst
  <2>1. PICK k \in 0 .. MAX_PKT_BURST : \E burst \in [1 .. k -> pool] :
          todo' = burst /\ pool' = pool \ Range(burst)
    BY <1>4 DEF RxBurst
  <2>2. PICK burst \in [1 .. k -> pool] : todo' = burst /\ pool' = pool \ Range(burst)
    BY <2>1
  <2>3. burst \in Seq(Pkts) /\ Len(burst) = k
    BY ConstFacts DEF TypeOK
  <2>4. TypeOK'
    BY <1>4, <2>2, <2>3, ConstFacts, SMTT(30) DEF RxBurst, TypeOK, PC, queues, loop
  <2>5. QED
    BY <1>4, <2>2, <2>3, <2>4, ConstFacts
    DEF RxBurst, InFlightExact, BufHasRoom, BurstFits, LoopBound, queues, loop
<1>5. CASE DrainCryptoBuffers
  <2>1. PICK acc \in [Qps -> 0 .. MAX_PKT_BURST] :
          /\ \A q \in Qps : acc[q] <= Room(q, buf[q])
          /\ pmd' = [q \in Qps |-> pmd[q] \o SubSeq(buf[q], 1, acc[q])]
          /\ in_flight' = [q \in Qps |-> in_flight[q] + acc[q]]
          /\ pool' = pool \cup UNION {Rejected(buf[q], acc[q]) : q \in Qps}
    BY <1>5 DEF DrainCryptoBuffers
  <2>2. ASSUME NEW q \in Qps
        PROVE  /\ acc[q] \in Nat
               /\ pmd'[q] \in Seq(Pkts)
               /\ Len(pmd'[q]) = Len(pmd[q]) + acc[q]
               /\ Len(pmd'[q]) <= PmdDepth
               /\ Rejected(buf[q], acc[q]) \subseteq Pkts
    <3>1. acc[q] \in Nat /\ acc[q] <= Len(buf[q]) /\ acc[q] <= PmdDepth - Len(pmd[q])
      <4>1. acc[q] <= Room(q, buf[q]) BY <2>1
      <4>2. acc[q] \in 0 .. MAX_PKT_BURST OBVIOUS
      <4>3. Len(buf[q]) \in Nat /\ Len(pmd[q]) \in Nat BY QueueFacts
      <4>4. acc[q] \in Nat BY <4>2, ConstFacts
      <4>5. acc[q] <= Lesser(Len(buf[q]), PmdDepth - Len(pmd[q])) BY <4>1 DEF Room
      <4>6. PmdDepth - Len(pmd[q]) \in Int BY <4>3, ConstFacts
      <4>7. QED BY <4>3, <4>4, <4>5, <4>6, LesserFacts
    <3> DEFINE taken == SubSeq(buf[q], 1, acc[q])
               left  == SubSeq(buf[q], acc[q] + 1, Len(buf[q]))
    <3>2. taken \in Seq(Pkts) /\ Len(taken) = acc[q] /\ left \in Seq(Pkts)
      BY <3>1, QueueFacts, SubSeqFacts
    <3>3. Rejected(buf[q], acc[q]) \subseteq Pkts
      <4>1. Range(left) \subseteq Pkts BY <3>2, RangeFacts
      <4>2. QED BY <4>1 DEF Rejected
    <3>4. pmd'[q] = pmd[q] \o taken
      BY <2>1
    <3> HIDE DEF taken
    <3>5. pmd[q] \o taken \in Seq(Pkts) /\ Len(pmd[q] \o taken) = Len(pmd[q]) + acc[q]
      <4>1. pmd[q] \in Seq(Pkts) BY QueueFacts
      <4>2. QED BY <4>1, <3>2, ConcatFacts
    <3>6. QED BY <3>1, <3>3, <3>4, <3>5, QueueFacts, ConstFacts
  <2>3. pmd' \in [Qps -> Seq(Pkts)]
    <3>1. pmd' = [q \in Qps |-> pmd'[q]] BY <2>1
    <3>2. QED BY <3>1, <2>2
  <2>4. in_flight' \in [Qps -> Nat] /\ \A q \in Qps : in_flight'[q] = Len(pmd'[q])
    <3>1. \A q \in Qps : in_flight'[q] = in_flight[q] + acc[q] BY <2>1
    <3>2. ASSUME NEW q \in Qps
          PROVE  in_flight'[q] = Len(pmd'[q]) /\ in_flight'[q] \in Nat
      BY <3>1, <2>2, QueueFacts
    <3>3. QED BY <2>1, <3>2
  <2>5. pool' \in SUBSET Pkts
    BY <2>1, <2>2 DEF TypeOK
  <2>6. buf' \in [Qps -> Seq(Pkts)] /\ \A q \in Qps : Len(buf'[q]) = 0
    BY <1>5 DEF DrainCryptoBuffers
  <2>7. TypeOK'
    BY <1>5, <2>3, <2>4, <2>5, <2>6 DEF DrainCryptoBuffers, TypeOK, PC, loop
  <2>8. InFlightExact'
    <3>1. \A q \in Qps : ready[q] <= Len(pmd'[q]) BY <2>2, QueueFacts
    <3>2. QED BY <1>5, <2>2, <2>4, <3>1 DEF DrainCryptoBuffers, InFlightExact
  <2>9. BufHasRoom' BY <2>6, ConstFacts DEF BufHasRoom
  <2>10. BurstFits' /\ LoopBound'
    BY <1>5 DEF DrainCryptoBuffers, BurstFits, LoopBound
  <2>11. QED BY <2>7, <2>8, <2>9, <2>10
<1>6. QED BY <1>1, <1>2, <1>3, <1>4, <1>5

(* The first packet of a burst and what is left of it. *)
LEMMA TodoFacts ==
  ASSUME TypeOK, todo # <<>>
  PROVE  /\ Head(todo) \in Pkts
         /\ Tail(todo) \in Seq(Pkts)
         /\ Len(Tail(todo)) = Len(todo) - 1
         /\ Len(todo) \in Nat /\ Len(todo) <= MAX_PKT_BURST
BY DEF TypeOK

(* The steps of legacy mode. *)
LEMMA LegacySteps ==
  ASSUME IInv, LegacyStep
  PROVE  IInv'
<1> USE DEF IInv
<1>1. CASE EnqueueDiscard
  <2>1. TypeOK'
    BY <1>1, TodoFacts, ConstFacts, SMTT(30) DEF EnqueueDiscard, TypeOK, queues, loop
  <2>2. BurstFits'
    <3>1. Len(ol_pkts) \in Nat BY DEF TypeOK
    <3>2. QED BY <1>1, <3>1, TodoFacts, ConstFacts DEF EnqueueDiscard, BurstFits
  <2>3. QED
    BY <1>1, <2>1, <2>2 DEF EnqueueDiscard, InFlightExact, BufHasRoom, LoopBound, queues, loop
<1>2. CASE EnqueueInline
  <2>1. /\ ol_pkts' \in Seq(Pkts) /\ Len(ol_pkts') = Len(ol_pkts) + 1
        /\ Len(ol_pkts) \in Nat
    BY <1>2, TodoFacts DEF EnqueueInline, TypeOK
  <2>2. TypeOK'
    <3>1. /\ todo' \in Seq(Pkts) /\ Len(todo') <= MAX_PKT_BURST
      BY <1>2, TodoFacts, ConstFacts DEF EnqueueInline
    <3>2. UNCHANGED <<enable, pc, pool, queues, loop, out>>
      BY <1>2 DEF EnqueueInline
    <3>3. QED BY <2>1, <3>1, <3>2 DEF TypeOK, queues, loop
  <2>3. BurstFits'
    <3>1. pc = "enqueue" /\ pc' = "enqueue" /\ ~enable /\ enable' = enable
      BY <1>2 DEF EnqueueInline
    <3>2. Len(todo') + Len(ol_pkts') <= MAX_PKT_BURST
      BY <1>2, <2>1, <3>1, TodoFacts, ConstFacts DEF EnqueueInline, BurstFits
    <3>3. QED BY <3>1, <3>2 DEF BurstFits
  <2>4. QED
    BY <1>2, <2>2, <2>3 DEF EnqueueInline, InFlightExact, BufHasRoom, LoopBound, queues, loop
<1>3. CASE EnqueueLookaside
  <2> DEFINE p   == Head(todo)
             q   == SaQp[SaOf[p]]
             ops == Append(buf[q], p)
  <2>1. p \in Pkts /\ q \in Qps
    BY <1>3, TodoFacts, CtxAssumption DEF EnqueueLookaside
  <2>2. EnqueueCop(q, p) BY <1>3 DEF EnqueueLookaside
  <2> HIDE DEF p, q
  <2>3. ops \in Seq(Pkts) /\ Len(ops) = Len(buf[q]) + 1
    <3>1. buf[q] \in Seq(Pkts) BY <2>1, QueueFacts
    <3>2. QED BY <2>1, <3>1
  <2>4. /\ ops \in Seq(Pkts) /\ Len(ops) \in Nat /\ Len(ops) <= MAX_PKT_BURST
    BY <2>1, <2>3, QueueFacts, ConstFacts DEF BufHasRoom
  <2> HIDE DEF ops
  <2>5. /\ pmd' \in [Qps -> Seq(Pkts)]
        /\ in_flight' \in [Qps -> Nat]
        /\ pool' \in SUBSET Pkts
        /\ \A r \in Qps : /\ in_flight'[r] = Len(pmd'[r])
                          /\ ready[r] <= Len(pmd'[r])
                          /\ Len(pmd'[r]) <= PmdDepth
        /\ buf' \in [Qps -> Seq(Pkts)]
        /\ \A r \in Qps : Len(buf'[r]) < MAX_PKT_BURST
    <3>0. buf \in [Qps -> Seq(Pkts)] BY DEF TypeOK
    <3>1. CASE Len(ops) = MAX_PKT_BURST
      <4>1. PICK acc \in 0 .. Room(q, ops) : EnqueueBurst(q, ops, acc, {})
        BY <2>2, <3>1 DEF EnqueueCop, ops
      <4>2. buf' = [buf EXCEPT ![q] = <<>>]
        BY <2>2, <3>1 DEF EnqueueCop, ops
      <4>3. buf' \in [Qps -> Seq(Pkts)] /\ \A r \in Qps : Len(buf'[r]) < MAX_PKT_BURST
        BY <2>1, <3>0, <4>2, ConstFacts DEF BufHasRoom
      <4>4. QED BY <2>1, <2>4, <4>1, <4>3, EnqueueBurstFacts
    <3>2. CASE Len(ops) # MAX_PKT_BURST
      <4>1. buf' = [buf EXCEPT ![q] = ops] /\ UNCHANGED <<pmd, in_flight, pool>>
        BY <2>2, <3>2 DEF EnqueueCop, ops
      <4>2. Len(ops) < MAX_PKT_BURST
        BY <2>4, <3>2, ConstFacts
      <4>3. buf' \in [Qps -> Seq(Pkts)] /\ \A r \in Qps : Len(buf'[r]) < MAX_PKT_BURST
        BY <2>1, <2>4, <3>0, <4>1, <4>2 DEF BufHasRoom
      <4>4. QED BY <4>1, <4>3 DEF TypeOK, InFlightExact
    <3>3. QED BY <3>1, <3>2
  <2>6. TypeOK'
    <3>1. todo' \in Seq(Pkts) /\ Len(todo') <= MAX_PKT_BURST
      BY <1>3, TodoFacts, ConstFacts DEF EnqueueLookaside
    <3>2. QED BY <1>3, <2>5, <3>1 DEF EnqueueLookaside, TypeOK, loop
  <2>7. InFlightExact' /\ BufHasRoom'
    BY <1>3, <2>5 DEF EnqueueLookaside, InFlightExact, BufHasRoom
  <2>8. BurstFits'
    <3>1. Len(ol_pkts) \in Nat BY DEF TypeOK
    <3>2. QED BY <1>3, <3>1, TodoFacts, ConstFacts DEF EnqueueLookaside, BurstFits
  <2>9. LoopBound' BY <1>3 DEF EnqueueLookaside, LoopBound
  <2>10. QED BY <2>6, <2>7, <2>8, <2>9
<1>4. CASE EnqueueEnd
  <2>1. TypeOK'
    BY <1>4, ConstFacts DEF EnqueueEnd, TypeOK, PC, DequeueMax, queues
  <2>2. BurstFits'
    BY <1>4 DEF EnqueueEnd, BurstFits, TypeOK
  <2>3. QED
    BY <1>4, <2>1, <2>2 DEF EnqueueEnd, InFlightExact, BufHasRoom, LoopBound, queues
<1>5. CASE InlineDequeue
  <2> DEFINE l == Len(ol_pkts)
  <2>1. l \in Nat /\ l > 0 /\ ol_pkts[l] \in Pkts /\ nb < MAX_PKT_BURST /\ nb \in Nat
    BY <1>5 DEF InlineDequeue, InlineMore, TypeOK
  <2>2. SubSeq(ol_pkts, 1, l - 1) \in Seq(Pkts) /\ Len(SubSeq(ol_pkts, 1, l - 1)) = l - 1
    <3>1. ol_pkts \in Seq(Pkts) /\ l - 1 \in Nat BY <2>1 DEF TypeOK
    <3>2. l - 1 <= Len(ol_pkts) BY <2>1
    <3>3. QED BY <3>1, <3>2, PrefixFacts
  <2>3. ol_pkts' \in Seq(Pkts) /\ Len(ol_pkts') = l - 1
    BY <1>5, <2>2 DEF InlineDequeue
  <2>4. /\ nb' \in {nb, nb + 1}
        /\ pool' \in SUBSET Pkts
        /\ out' \in SUBSET Pkts
    BY <1>5, <2>1 DEF InlineDequeue, TypeOK
  <2>5. TypeOK'
    BY <1>5, <2>1, <2>3, <2>4, ConstFacts, SMTT(30) DEF InlineDequeue, TypeOK, DequeueMax, queues
  <2>6. BurstFits'
    <3>1. ~enable \/ ol_pkts = <<>> BY DEF BurstFits
    <3>2. ~enable BY <2>1, <3>1
    <3>3. pc = "inline" /\ pc' = "inline" BY <1>5 DEF InlineDequeue
    <3>4. nb + l <= MAX_PKT_BURST BY <3>3 DEF BurstFits
    <3>5. nb' + Len(ol_pkts') <= MAX_PKT_BURST BY <2>1, <2>3, <2>4, <3>4, ConstFacts
    <3>6. enable' = enable BY <1>5 DEF InlineDequeue
    <3>7. QED BY <3>2, <3>3, <3>5, <3>6 DEF BurstFits
  <2>7. QED
    BY <1>5, <2>5, <2>6 DEF InlineDequeue, InFlightExact, BufHasRoom, LoopBound, queues
<1>6. CASE InlineEnd
  <2>1. ol_pkts = <<>>
    BY <1>6, ConstFacts DEF InlineEnd, InlineMore, BurstFits, TypeOK
  <2>2. TypeOK'
    BY <1>6, ConstFacts DEF InlineEnd, TypeOK, PC, DequeueMax, queues
  <2>3. QED
    BY <1>6, <2>1, <2>2
    DEF InlineEnd, InFlightExact, BufHasRoom, BurstFits, LoopBound, queues
<1>7. CASE DequeueQp
  <2> DEFINE max == DequeueMax - nb
             n   == Dequeued(last_qp, max)
             ops == SubSeq(pmd[last_qp], 1, n)
  <2>1. last_qp \in Qps /\ max \in Nat /\ nb \in Nat /\ nb + max = DequeueMax
    BY <1>7, ConstFacts DEF DequeueQp, DequeueMore, TypeOK, DequeueMax
  <2> HIDE DEF max
  <2>2. TakeFrom(last_qp, n)
    BY <1>7 DEF DequeueQp, max
  <2>3. /\ pmd' \in [Qps -> Seq(Pkts)]
        /\ in_flight' \in [Qps -> Nat]
        /\ ready' \in [Qps -> Nat]
        /\ InFlightExact'
        /\ n \in 0 .. max
        /\ ops \in Seq(Pkts) /\ Len(ops) = n
    BY <2>1, <2>2, TakeFromFacts
  <2>4. PICK bad \in SUBSET (1 .. n) :
          /\ out' = out \cup {ops[j] : j \in (1 .. n) \ bad}
          /\ pool' = pool \cup {ops[j] : j \in bad}
          /\ nb' = nb + Cardinality((1 .. n) \ bad)
    BY <1>7 DEF DequeueQp, max
  <2> HIDE DEF n, ops
  <2>5. nb' \in 0 .. DequeueMax
    <3>1. IsFiniteSet(1 .. n) /\ Cardinality(1 .. n) = n
      BY <2>1, <2>3, FS_Interval
    <3>2. /\ IsFiniteSet((1 .. n) \ bad)
          /\ Cardinality((1 .. n) \ bad) <= Cardinality(1 .. n)
      BY <3>1, FS_Subset
    <3>3. Cardinality((1 .. n) \ bad) \in Nat
      BY <3>2, FS_CardinalityType
    <3>4. QED BY <2>1, <2>3, <2>4, <3>1, <3>2, <3>3
  <2>6. out' \in SUBSET Pkts /\ pool' \in SUBSET Pkts
    <3>1. \A j \in 1 .. n : ops[j] \in Pkts
      BY <2>3
    <3>2. QED BY <2>4, <3>1 DEF TypeOK
  <2>7. last_qp' \in Qps /\ iq' \in 0 .. NbQps
    <3>1. iq \in 0 .. NbQps /\ iq < NbQps /\ iq' = iq + 1 /\ last_qp' = (last_qp + 1) % NbQps
      BY <1>7 DEF DequeueQp, DequeueMore, TypeOK
    <3>2. (last_qp + 1) % NbQps \in 0 .. NbQps - 1
      BY <2>1, ConstFacts DEF Qps
    <3>3. QED BY <3>1, <3>2, ConstFacts DEF Qps
  <2>8. TypeOK'
    BY <1>7, <2>3, <2>5, <2>6, <2>7 DEF DequeueQp, TypeOK
  <2>9. QED
    BY <1>7, <2>3, <2>8 DEF DequeueQp, BufHasRoom, BurstFits, LoopBound
<1>8. CASE DequeueEnd
  BY <1>8 DEF DequeueEnd, TypeOK, PC, InFlightExact, BufHasRoom, BurstFits, LoopBound, queues, loop
<1>9. QED BY <1>1, <1>2, <1>3, <1>4, <1>5, <1>6, <1>7, <1>8 DEF LegacyStep

(* A group of the burst and what is left of it. *)
LEMMA GroupFacts ==
  ASSUME TypeOK, NEW cnt \in 1 .. Len(todo)
  PROVE  /\ Range(Group(cnt)) \in SUBSET Pkts
         /\ NextGroup(cnt) \in Seq(Pkts)
         /\ Len(NextGroup(cnt)) <= MAX_PKT_BURST
         /\ cnt \in Nat /\ cnt <= MAX_PKT_BURST
<1>1. /\ todo \in Seq(Pkts) /\ Len(todo) \in Nat /\ Len(todo) <= MAX_PKT_BURST
      /\ cnt \in Nat /\ 1 <= cnt /\ cnt <= Len(todo)
  BY DEF TypeOK
<1>2. Group(cnt) \in Seq(Pkts) BY <1>1, PrefixFacts DEF Group
<1>3. NextGroup(cnt) \in Seq(Pkts) /\ Len(NextGroup(cnt)) = Len(todo) - cnt
  <2>1. cnt + 1 \in Nat /\ 1 <= cnt + 1 /\ cnt + 1 <= Len(todo) + 1 BY <1>1
  <2>2. Len(SubSeq(todo, cnt + 1, Len(todo))) = Len(todo) - (cnt + 1) + 1
    BY <1>1, <2>1, SubSeqFacts
  <2>3. SubSeq(todo, cnt + 1, Len(todo)) \in Seq(Pkts)
    BY <1>1, <2>1, SubSeqFacts
  <2>4. QED BY <1>1, <2>2, <2>3 DEF NextGroup
<1>4. QED BY <1>1, <1>2, <1>3, RangeFacts, ConstFacts

(* Offering a prepared group to a queue pair keeps in_flight exact and     *)
(* leaves room in the buffer.                                              *)
LEMMA EnqueueCopBulkFacts ==
  ASSUME TypeOK, InFlightExact, BufHasRoom,
         NEW q \in Qps, NEW ops \in Seq(Pkts), Len(ops) <= MAX_PKT_BURST,
         NEW bad \in SUBSET Pkts, EnqueueCopBulk(q, ops, bad)
  PROVE  /\ pmd' \in [Qps -> Seq(Pkts)]
         /\ in_flight' \in [Qps -> Nat]
         /\ pool' \in SUBSET Pkts
         /\ \A r \in Qps : /\ in_flight'[r] = Len(pmd'[r])
                           /\ ready[r] <= Len(pmd'[r])
                           /\ Len(pmd'[r]) <= PmdDepth
         /\ buf' \in [Qps -> Seq(Pkts)]
         /\ \A r \in Qps : Len(buf'[r]) < MAX_PKT_BURST
<1> DEFINE all  == buf[q] \o ops
           full == SubSeq(all, 1, MAX_PKT_BURST)
           rest == SubSeq(all, MAX_PKT_BURST + 1, Len(all))
<1>1. /\ buf \in [Qps -> Seq(Pkts)] /\ buf[q] \in Seq(Pkts)
      /\ Len(buf[q]) \in Nat /\ Len(buf[q]) < MAX_PKT_BURST
      /\ Len(ops) \in Nat
  BY QueueFacts, SMTT(30) DEF TypeOK, BufHasRoom
<1>2. all \in Seq(Pkts) /\ Len(all) \in Nat /\ Len(all) < MAX_PKT_BURST + MAX_PKT_BURST
  <2>1. all \in Seq(Pkts) /\ Len(all) = Len(buf[q]) + Len(ops)
    BY <1>1, ConcatFacts
  <2>2. QED BY <1>1, <2>1, ConstFacts
<1> HIDE DEF all
<1>3. CASE Straight(q, ops) /\ UNCHANGED buf /\ \E acc \in 0 .. Room(q, ops) : EnqueueBurst(q, ops, acc, bad)
  <2>1. PICK acc \in 0 .. Room(q, ops) : EnqueueBurst(q, ops, acc, bad) BY <1>3
  <2>2. buf' \in [Qps -> Seq(Pkts)] /\ \A r \in Qps : Len(buf'[r]) < MAX_PKT_BURST
    BY <1>1, <1>3 DEF BufHasRoom
  <2>3. QED BY <2>1, <2>2, EnqueueBurstFacts
<1>4. CASE /\ Len(all) >= MAX_PKT_BURST
           /\ \E acc \in 0 .. Room(q, full) : EnqueueBurst(q, full, acc, bad)
           /\ buf' = [buf EXCEPT ![q] = rest]
  <2>1. full \in Seq(Pkts)
    BY <1>2, <1>4, ConstFacts, PrefixFacts
  <2>2. rest \in Seq(Pkts) /\ Len(rest) < MAX_PKT_BURST
    <3>1. /\ MAX_PKT_BURST + 1 \in Nat /\ 1 <= MAX_PKT_BURST + 1
          /\ MAX_PKT_BURST + 1 <= Len(all) + 1
      BY <1>2, <1>4, ConstFacts
    <3>2. rest \in Seq(Pkts) /\ Len(rest) = Len(all) - (MAX_PKT_BURST + 1) + 1
      BY <1>2, <3>1, SubSeqFacts
    <3>3. QED BY <1>2, <3>2, ConstFacts
  <2> HIDE DEF full, rest
  <2>3. PICK acc \in 0 .. Room(q, full) : EnqueueBurst(q, full, acc, bad) BY <1>4
  <2>4. buf' \in [Qps -> Seq(Pkts)] /\ \A r \in Qps : Len(buf'[r]) < MAX_PKT_BURST
    BY <1>1, <1>4, <2>2 DEF BufHasRoom
  <2>5. QED BY <2>1, <2>3, <2>4, EnqueueBurstFacts
<1>5. CASE /\ Len(all) < MAX_PKT_BURST
           /\ buf' = [buf EXCEPT ![q] = all]
           /\ pool' = pool \cup bad
           /\ UNCHANGED <<pmd, in_flight>>
  <2>1. buf' \in [Qps -> Seq(Pkts)] /\ \A r \in Qps : Len(buf'[r]) < MAX_PKT_BURST
    BY <1>1, <1>2, <1>5 DEF BufHasRoom
  <2>2. QED BY <1>5, <2>1 DEF TypeOK, InFlightExact
<1>6. QED BY <1>3, <1>4, <1>5 DEF EnqueueCopBulk, all, full, rest

(* One dequeue of ctx_dequeue from queue pair iq. *)
LEMMA CqpDequeueFacts ==
  ASSUME IInv, iq \in Qps, Len(cops) # DequeueMax, CqpDequeue
  PROVE  /\ pmd' \in [Qps -> Seq(Pkts)]
         /\ in_flight' \in [Qps -> Nat]
         /\ ready' \in [Qps -> Nat]
         /\ InFlightExact'
         /\ cops' \in Seq(Pkts) /\ Len(cops') <= DequeueMax
<1> USE DEF IInv
<1> DEFINE max == DequeueMax - Len(cops)
           n   == Dequeued(iq, max)
           ops == SubSeq(pmd[iq], 1, n)
<1>1. /\ max \in Nat /\ cops \in Seq(Pkts) /\ Len(cops) \in Nat
      /\ DequeueMax \in Nat /\ Len(cops) + max = DequeueMax
  BY ConstFacts DEF TypeOK, DequeueMax
<1> HIDE DEF max
<1>2. TakeFrom(iq, n) /\ cops' = cops \o ops
  BY DEF CqpDequeue, max
<1>3. /\ pmd' \in [Qps -> Seq(Pkts)]
      /\ in_flight' \in [Qps -> Nat]
      /\ ready' \in [Qps -> Nat]
      /\ InFlightExact'
      /\ n \in 0 .. max
      /\ ops \in Seq(Pkts) /\ Len(ops) = n
  BY <1>1, <1>2, TakeFromFacts
<1> HIDE DEF n, ops
<1>4. cops' \in Seq(Pkts) /\ Len(cops') = Len(cops) + n
  BY <1>1, <1>2, <1>3, ConcatFacts
<1>5. Len(cops') <= DequeueMax
  BY <1>1, <1>3, <1>4
<1>6. QED BY <1>3, <1>4, <1>5

(* The steps of library mode. *)
LEMMA LibrarySteps ==
  ASSUME IInv, LibraryStep
  PROVE  IInv'
<1> USE DEF IInv
<1>1. CASE GroupDiscard
  <2>1. PICK cnt \in 1 .. Len(todo) :
          pool' = pool \cup Range(Group(cnt)) /\ todo' = NextGroup(cnt)
    BY <1>1 DEF GroupDiscard
  <2>2. pool' \in SUBSET Pkts /\ todo' \in Seq(Pkts) /\ Len(todo') <= MAX_PKT_BURST
    <3>1. pool \in SUBSET Pkts BY DEF TypeOK
    <3>2. QED BY <2>1, <3>1, GroupFacts
  <2>3. TypeOK'
    BY <1>1, <2>2 DEF GroupDiscard, TypeOK, queues, loop
  <2>4. BurstFits'
    <3>1. ol_pkts' = <<>> /\ pc' = "enqueue" BY <1>1 DEF GroupDiscard, BurstFits
    <3>2. QED BY <2>3, <3>1 DEF BurstFits, TypeOK
  <2>5. QED
    BY <1>1, <2>3, <2>4 DEF GroupDiscard, InFlightExact, BufHasRoom, LoopBound, queues, loop
<1>2. CASE GroupCrypto
  <2> DEFINE q == SaQp[SaOf[todo[1]]]
  <2>1. PICK cnt \in 1 .. Len(todo) : \E k \in 1 .. cnt : \E idx \in [1 .. k -> 1 .. cnt] :
          LET ops == [i \in 1 .. k |-> todo[idx[i]]] IN
          /\ EnqueueCopBulk(q, ops, Range(Group(cnt)) \ Range(ops))
          /\ todo' = NextGroup(cnt)
    BY <1>2 DEF GroupCrypto
  <2>2. PICK k \in 1 .. cnt : \E idx \in [1 .. k -> 1 .. cnt] :
          LET ops == [i \in 1 .. k |-> todo[idx[i]]] IN
          /\ EnqueueCopBulk(q, ops, Range(Group(cnt)) \ Range(ops))
          /\ todo' = NextGroup(cnt)
    BY <2>1
  <2>3. PICK idx \in [1 .. k -> 1 .. cnt] :
          LET ops == [i \in 1 .. k |-> todo[idx[i]]] IN
          /\ EnqueueCopBulk(q, ops, Range(Group(cnt)) \ Range(ops))
          /\ todo' = NextGroup(cnt)
    BY <2>2
  <2> DEFINE ops == [i \in 1 .. k |-> todo[idx[i]]]
             bad == Range(Group(cnt)) \ Range(ops)
  <2>4. EnqueueCopBulk(q, ops, bad) /\ todo' = NextGroup(cnt)
    BY <2>3
  <2>5. q \in Qps
    <3>1. todo[1] \in Pkts BY <1>2, SMTT(30) DEF GroupCrypto, TypeOK
    <3>2. QED BY <1>2, <3>1, CtxAssumption DEF GroupCrypto
  <2> HIDE DEF q
  <2>6. cnt \in Nat /\ cnt <= MAX_PKT_BURST /\ bad \in SUBSET Pkts
    BY GroupFacts
  <2>7. todo' \in Seq(Pkts) /\ Len(todo') <= MAX_PKT_BURST
    BY <2>4, GroupFacts
  <2>8. ops \in Seq(Pkts) /\ Len(ops) <= MAX_PKT_BURST
    <3>1. k \in Nat /\ k <= MAX_PKT_BURST BY <2>6, ConstFacts
    <3>2. \A i \in 1 .. k : todo[idx[i]] \in Pkts
      <4>1. todo \in Seq(Pkts) /\ Len(todo) \in Nat BY DEF TypeOK
      <4>2. \A j \in 1 .. cnt : j \in 1 .. Len(todo) BY <2>6, <4>1
      <4>3. \A j \in 1 .. cnt : todo[j] \in Pkts BY <4>1, <4>2
      <4>4. QED BY <4>3
    <3>3. QED BY <3>1, <3>2
  <2> HIDE DEF ops, bad
  <2>9. /\ pmd' \in [Qps -> Seq(Pkts)]
        /\ in_flight' \in [Qps -> Nat]
        /\ pool' \in SUBSET Pkts
        /\ \A r \in Qps : /\ in_flight'[r] = Len(pmd'[r])
                          /\ ready[r] <= Len(pmd'[r])
                          /\ Len(pmd'[r]) <= PmdDepth
        /\ buf' \in [Qps -> Seq(Pkts)]
        /\ \A r \in Qps : Len(buf'[r]) < MAX_PKT_BURST
    BY <2>4, <2>5, <2>6, <2>8, EnqueueCopBulkFacts
  <2>10. TypeOK'
    BY <1>2, <2>7, <2>9 DEF GroupCrypto, TypeOK, loop
  <2>11. InFlightExact' /\ BufHasRoom'
    BY <1>2, <2>9 DEF GroupCrypto, InFlightExact, BufHasRoom
  <2>12. BurstFits' /\ LoopBound'
    <3>1. ol_pkts' = <<>> /\ pc' = "enqueue" BY <1>2 DEF GroupCrypto, BurstFits
    <3>2. QED BY <2>10, <3>1 DEF BurstFits, LoopBound, TypeOK
  <2>13. QED BY <2>10, <2>11, <2>12
<1>3. CASE GroupSync
  <2>1. PICK cnt \in 1 .. Len(todo) : \E bad \in SUBSET Range(Group(cnt)) :
          /\ out' = out \cup (Range(Group(cnt)) \ bad)
          /\ pool' = pool \cup bad
          /\ todo' = NextGroup(cnt)
    BY <1>3 DEF GroupSync
  <2>2. /\ pool' \in SUBSET Pkts /\ out' \in SUBSET Pkts
        /\ todo' \in Seq(Pkts) /\ Len(todo') <= MAX_PKT_BURST
    <3>1. pool \in SUBSET Pkts /\ out \in SUBSET Pkts BY DEF TypeOK
    <3>2. Range(Group(cnt)) \in SUBSET Pkts BY GroupFacts
    <3>3. QED BY <2>1, <3>1, <3>2, GroupFacts
  <2>3. TypeOK'
    BY <1>3, <2>2 DEF GroupSync, TypeOK, queues, loop
  <2>4. BurstFits'
    <3>1. ol_pkts' = <<>> /\ pc' = "enqueue" BY <1>3 DEF GroupSync, BurstFits
    <3>2. QED BY <2>3, <3>1 DEF BurstFits, TypeOK
  <2>5. QED
    BY <1>3, <2>3, <2>4 DEF GroupSync, InFlightExact, BufHasRoom, LoopBound, queues, loop
<1>4. CASE GroupEnd
  <2>1. TypeOK'
    BY <1>4, ConstFacts, SMTT(30) DEF GroupEnd, TypeOK, PC, Qps, queues
  <2>2. QED
    BY <1>4, <2>1 DEF GroupEnd, InFlightExact, BufHasRoom, BurstFits, LoopBound, queues
<1>5. CASE CtxDequeueFirst
  <2>1. CASE Len(cops) # DequeueMax /\ iq # NbQps /\ CqpDequeue /\ iq' = iq + 1 /\ UNCHANGED pc
    <3>1. iq \in Qps /\ iq' \in 0 .. NbQps
      BY <2>1, ConstFacts DEF TypeOK, Qps
    <3>2. /\ pmd' \in [Qps -> Seq(Pkts)]
          /\ in_flight' \in [Qps -> Nat]
          /\ ready' \in [Qps -> Nat]
          /\ InFlightExact'
          /\ cops' \in Seq(Pkts) /\ Len(cops') <= DequeueMax
      BY <2>1, <3>1, CqpDequeueFacts
    <3>3. TypeOK'
      BY <1>5, <2>1, <3>1, <3>2 DEF CtxDequeueFirst, TypeOK
    <3>4. QED
      BY <1>5, <2>1, <3>2, <3>3 DEF CtxDequeueFirst, BufHasRoom, BurstFits, LoopBound
  <2>2. CASE pc' = "dequeue2" /\ iq' = 0 /\ UNCHANGED <<pmd, ready, in_flight, cops>>
    <3>1. TypeOK'
      BY <1>5, <2>2, ConstFacts DEF CtxDequeueFirst, TypeOK, PC
    <3>2. LoopBound'
      BY <1>5, <2>2, ConstFacts DEF CtxDequeueFirst, LoopBound, TypeOK, Qps
    <3>3. QED
      BY <1>5, <2>2, <3>1, <3>2 DEF CtxDequeueFirst, InFlightExact, BufHasRoom, BurstFits
  <2>3. QED BY <1>5, <2>1, <2>2 DEF CtxDequeueFirst
<1>6. CASE CtxDequeueSecond
  <2>1. CASE /\ Len(cops) # DequeueMax /\ iq # last_qp
             /\ CqpDequeue
             /\ iq' = iq + 1
             /\ UNCHANGED <<pc, last_qp>>
    <3>1. iq \in Qps /\ iq' \in 0 .. NbQps /\ iq' <= last_qp
      BY <1>6, <2>1, ConstFacts DEF CtxDequeueSecond, LoopBound, TypeOK, Qps
    <3>2. /\ pmd' \in [Qps -> Seq(Pkts)]
          /\ in_flight' \in [Qps -> Nat]
          /\ ready' \in [Qps -> Nat]
          /\ InFlightExact'
          /\ cops' \in Seq(Pkts) /\ Len(cops') <= DequeueMax
      BY <2>1, <3>1, CqpDequeueFacts
    <3>3. TypeOK'
      BY <1>6, <2>1, <3>1, <3>2 DEF CtxDequeueSecond, TypeOK
    <3>4. QED
      BY <1>6, <2>1, <3>1, <3>2, <3>3 DEF CtxDequeueSecond, BufHasRoom, BurstFits, LoopBound
  <2>2. CASE pc' = "process" /\ last_qp' = iq /\ UNCHANGED <<pmd, ready, in_flight, cops, iq>>
    <3>1. last_qp' \in Qps
      BY <1>6, <2>2, ConstFacts DEF CtxDequeueSecond, LoopBound, TypeOK, Qps
    <3>2. TypeOK'
      BY <1>6, <2>2, <3>1 DEF CtxDequeueSecond, TypeOK, PC
    <3>3. QED
      BY <1>6, <2>2, <3>2
      DEF CtxDequeueSecond, InFlightExact, BufHasRoom, BurstFits, LoopBound
  <2>3. QED BY <1>6, <2>1, <2>2 DEF CtxDequeueSecond
<1>7. CASE CqpProcess
  <2>1. pool' \in SUBSET Pkts /\ out' \in SUBSET Pkts
    <3>1. Range(cops) \subseteq Pkts BY RangeFacts DEF TypeOK
    <3>2. QED BY <1>7, <3>1 DEF CqpProcess, TypeOK
  <2>2. TypeOK'
    <3>1. cops' \in Seq(Pkts) /\ Len(cops') <= DequeueMax
      BY <1>7, ConstFacts DEF CqpProcess, DequeueMax
    <3>2. QED BY <1>7, <2>1, <3>1 DEF CqpProcess, TypeOK, PC, queues
  <2>3. QED
    BY <1>7, <2>2
    DEF CqpProcess, InFlightExact, BufHasRoom, BurstFits, LoopBound, queues
<1>8. QED BY <1>1, <1>2, <1>3, <1>4, <1>5, <1>6, <1>7 DEF LibraryStep
-----------------------------------------------------------------------------
(* IInv is inductive. *)
LEMMA NextIInv == IInv /\ [Next]_vars => IInv'
<1>1. ASSUME IInv, Next PROVE IInv'
  BY <1>1, DeviceSteps, LegacySteps, LibrarySteps DEF Next, Lcore
<1>2. ASSUME IInv, UNCHANGED vars PROVE IInv'
  BY <1>2 DEF IInv, TypeOK, InFlightExact, BufHasRoom, BurstFits, LoopBound, vars, queues, loop
<1>3. QED BY <1>1, <1>2

(* The inductive invariant holds throughout. *)
THEOREM SpecIInv == Spec => []IInv
BY InitIInv, NextIInv, PTL DEF Spec

(* Every field of the context stays in its range, in both modes.           *)
THEOREM TypeCorrect == Spec => []TypeOK
<1>1. IInv => TypeOK BY DEF IInv
<1>2. QED BY <1>1, SpecIInv, PTL

(* cdev_qp.in_flight is the number of operations inside the device, for    *)
(* every number of queue pairs and whatever the device accepts or refuses. *)
THEOREM InFlightIsExact == Spec => []InFlightExact
<1>1. IInv => InFlightExact BY DEF IInv
<1>2. QED BY <1>1, SpecIInv, PTL

(* The unchecked writes to cdev_qp.buf stay inside the array: the library  *)
(* path's memcpy of a group and the legacy path's one packet at a time.    *)
THEOREM BufNeverFull == Spec => []BufHasRoom
<1>1. IInv => BufHasRoom BY DEF IInv
<1>2. QED BY <1>1, SpecIInv, PTL

(* The unchecked writes to ipsec_ctx.ol_pkts stay inside the array, since  *)
(* every ipsec_inline_dequeue empties it.                                  *)
THEOREM OlPktsNeverOverflow == Spec => []OlPktsFit
<1>1. IInv => OlPktsFit
  BY ConstFacts DEF IInv, TypeOK, BurstFits, OlPktsFit
<1>2. QED BY <1>1, SpecIInv, PTL
-----------------------------------------------------------------------------
(***************************************************************************)
(* No mbuf is lost or owned twice by an IPsec context, and the context     *)
(* implements PktLife, for every number of mbufs and queue pairs, burst    *)
(* size, device depth and assignment of packets to SAs, in both modes.     *)
(*                                                                         *)
(* The invariant names the place of every mbuf: k gives its kind, d the    *)
(* queue pair of one in a crypto buffer or device.  That the places are    *)
(* disjoint and hold all mbufs is then that k is a function; what is left  *)
(* is that no list holds an mbuf twice.  Every step moves some mbufs, and  *)
(* the kinds they leave and reach are a move of PktLife.                   *)
(***************************************************************************)

Distinct(s) == \A i, j \in DOMAIN s : s[i] = s[j] => i = j

Kinds == {"pool", "out", "todo", "ol", "cops", "buf", "pmd"}

SetsPlaced(k) ==
  \A p \in Pkts : (p \in pool <=> k[p] = "pool") /\ (p \in out <=> k[p] = "out")

ListsPlaced(k) ==
  \A p \in Pkts :
    /\ p \in Range(todo) <=> k[p] = "todo"
    /\ p \in Range(ol_pkts) <=> k[p] = "ol"
    /\ p \in Range(cops) <=> k[p] = "cops"

QueuesPlaced(k, d) ==
  \A p \in Pkts, q \in Qps :
    /\ p \in Range(buf[q]) <=> k[p] = "buf" /\ d[p] = q
    /\ p \in Range(pmd[q]) <=> k[p] = "pmd" /\ d[p] = q

SasFit(k) ==
  \A p \in Pkts :
    /\ k[p] = "ol" => SaOf[p] # NoSa /\ SaType[SaOf[p]] \in InlineType
    /\ k[p] \in {"cops", "buf", "pmd"} => p \in LookasidePkts

ListsDistinct ==
  /\ Distinct(todo) /\ Distinct(ol_pkts) /\ Distinct(cops)
  /\ \A q \in Qps : Distinct(buf[q]) /\ Distinct(pmd[q])

Placed(k, d) ==
  /\ k \in [Pkts -> Kinds] /\ d \in [Pkts -> Qps]
  /\ SetsPlaced(k) /\ ListsPlaced(k) /\ QueuesPlaced(k, d) /\ SasFit(k) /\ ListsDistinct

(* The place of PktLife, and the moves it allows. *)
Stage(kind) ==
  CASE kind = "pool" -> "pool"
    [] kind = "out" -> "out"
    [] kind \in {"todo", "ol"} -> "rx"
    [] OTHER -> "crypto"

Allowed(p, a, b) == Stage(a) # Stage(b) => <<Stage(a), Stage(b)>> \in Life!Move(p)

(* The mbufs of a step go where they may. *)
Moves(k) ==
  \E k2 \in [Pkts -> Kinds], d2 \in [Pkts -> Qps] :
    Placed(k2, d2)' /\ \A p \in Pkts : Allowed(p, k[p], k2[p])
-----------------------------------------------------------------------------
LEMMA EmptyList == Range(<<>>) = {} /\ Distinct(<<>>)
  BY DEF Range, Distinct

LEMMA EmptyPlaces == \E s \in Seq(Pkts) : s = <<>> /\ Range(s) = {} /\ Distinct(s)
<1>1. <<>> \in Seq(Pkts)
  OBVIOUS
<1> QED
  BY <1>1, EmptyList

LEMMA ConcatPlaces ==
  ASSUME NEW s \in Seq(Pkts), NEW t \in Seq(Pkts)
  PROVE  /\ s \o t \in Seq(Pkts)
         /\ Range(s \o t) = Range(s) \cup Range(t)
         /\ Distinct(s) /\ Distinct(t) /\ Range(s) \cap Range(t) = {} => Distinct(s \o t)
<1>1. /\ DOMAIN (s \o t) = 1 .. Len(s) + Len(t)
      /\ DOMAIN s = 1 .. Len(s) /\ DOMAIN t = 1 .. Len(t) /\ Len(s) \in Nat /\ Len(t) \in Nat
      /\ \A i \in 1 .. Len(s) : (s \o t)[i] = s[i]
      /\ \A i \in 1 .. Len(s) + Len(t) : i > Len(s) => (s \o t)[i] = t[i - Len(s)]
      /\ s \o t \in Seq(Pkts)
  OBVIOUS
<1>2. ASSUME NEW i \in DOMAIN (s \o t)
      PROVE  \/ i \in DOMAIN s /\ (s \o t)[i] = s[i]
             \/ i > Len(s) /\ i - Len(s) \in DOMAIN t /\ (s \o t)[i] = t[i - Len(s)]
  BY <1>1
<1>3. Range(s \o t) \subseteq Range(s) \cup Range(t)
  BY <1>2 DEF Range
<1>4. Range(s) \subseteq Range(s \o t)
  BY <1>1 DEF Range
<1>5. ASSUME NEW i \in DOMAIN t PROVE t[i] \in Range(s \o t)
  <2>1. i + Len(s) \in DOMAIN (s \o t) /\ (s \o t)[i + Len(s)] = t[i]
    BY <1>1
  <2> QED
    BY <2>1 DEF Range
<1>6. Range(t) \subseteq Range(s \o t)
  BY <1>5 DEF Range
<1>7. ASSUME Distinct(s), Distinct(t), Range(s) \cap Range(t) = {} PROVE Distinct(s \o t)
  <2>1. \A i \in DOMAIN s, j \in DOMAIN t : s[i] # t[j]
    BY <1>7 DEF Range
  <2>2. ASSUME NEW i \in DOMAIN (s \o t), NEW j \in DOMAIN (s \o t), (s \o t)[i] = (s \o t)[j]
        PROVE  i = j
    <3>1. i \in Nat /\ j \in Nat /\ Len(s) \in Nat
      BY <1>1
    <3>2. CASE i \in DOMAIN s /\ (s \o t)[i] = s[i]
      BY <1>2, <1>7, <2>1, <2>2, <3>2 DEF Distinct
    <3>3. CASE i > Len(s) /\ i - Len(s) \in DOMAIN t /\ (s \o t)[i] = t[i - Len(s)]
      <4>1. j > Len(s) /\ j - Len(s) \in DOMAIN t /\ (s \o t)[j] = t[j - Len(s)]
        BY <1>2, <2>1, <2>2, <3>3
      <4>2. i - Len(s) = j - Len(s)
        BY <1>7, <2>2, <3>3, <4>1 DEF Distinct
      <4> QED
        BY <3>1, <4>2
    <3> QED
      BY <1>2, <3>2, <3>3
  <2> QED
    BY <2>2 DEF Distinct
<1> QED
  BY <1>1, <1>3, <1>4, <1>6, <1>7

(* A list cut in two. *)
LEMMA SplitPlaces ==
  ASSUME NEW s \in Seq(Pkts), Distinct(s), NEW n \in Nat, n <= Len(s)
  PROVE  LET a == SubSeq(s, 1, n)
             b == SubSeq(s, n + 1, Len(s))
         IN  /\ a \in Seq(Pkts) /\ b \in Seq(Pkts) /\ Len(a) = n
             /\ Range(s) = Range(a) \cup Range(b) /\ Range(a) \cap Range(b) = {}
             /\ Distinct(a) /\ Distinct(b)
<1> DEFINE a == SubSeq(s, 1, n)
           b == SubSeq(s, n + 1, Len(s))
<1>1. /\ a \in Seq(Pkts) /\ Len(a) = n /\ DOMAIN a = 1 .. n /\ DOMAIN s = 1 .. Len(s)
      /\ \A i \in 1 .. n : a[i] = s[i]
  BY PrefixFacts
<1>2. /\ b \in Seq(Pkts) /\ Len(b) = Len(s) - n /\ DOMAIN b = 1 .. Len(s) - n
      /\ \A i \in 1 .. Len(s) - n : b[i] = s[i + n]
  <2>1. Len(s) \in Nat /\ n + 1 \in Nat /\ 1 <= n + 1 /\ n + 1 <= Len(s) + 1
    OBVIOUS
  <2>2. b \in Seq(Pkts) /\ Len(b) = Len(s) - (n + 1) + 1
    BY <2>1, SubSeqFacts
  <2>3. Len(b) = Len(s) - n
    BY <2>1, <2>2
  <2> QED
    BY <2>1, <2>2, <2>3
<1> HIDE DEF a, b
<1>3. Len(s) \in Nat
  OBVIOUS
<1>4. Range(s) \subseteq Range(a) \cup Range(b)
  <2>1. ASSUME NEW i \in DOMAIN s PROVE s[i] \in Range(a) \cup Range(b)
    <3>1. CASE i <= n
      BY <1>1, <1>3, <3>1 DEF Range
    <3>2. CASE i > n
      <4>1. i - n \in DOMAIN b /\ b[i - n] = s[i]
        BY <1>1, <1>2, <1>3, <3>2
      <4> QED
        BY <4>1 DEF Range
    <3> QED
      BY <1>1, <3>1, <3>2
  <2> QED
    BY <2>1 DEF Range
<1>5. \A i \in DOMAIN a : i \in DOMAIN s /\ a[i] = s[i]
  BY <1>1, <1>3
<1>6. \A i \in DOMAIN b : i + n \in DOMAIN s /\ b[i] = s[i + n]
  BY <1>1, <1>2, <1>3
<1>7. Range(a) \subseteq Range(s) /\ Range(b) \subseteq Range(s)
  BY <1>5, <1>6 DEF Range
<1>8. Range(a) \cap Range(b) = {}
  <2>1. ASSUME NEW i \in DOMAIN a, NEW j \in DOMAIN b PROVE a[i] # b[j]
    <3>1. i # j + n
      BY <1>1, <1>2, <1>3
    <3> QED
      BY <1>5, <1>6, <3>1 DEF Distinct
  <2> QED
    BY <2>1 DEF Range
<1>9. Distinct(a)
  BY <1>5 DEF Distinct
<1>10. Distinct(b)
  <2>1. ASSUME NEW i \in DOMAIN b, NEW j \in DOMAIN b, b[i] = b[j] PROVE i = j
    <3>1. i + n = j + n
      BY <1>6, <2>1 DEF Distinct
    <3> QED
      BY <1>2, <1>3, <3>1
  <2> QED
    BY <2>1 DEF Distinct
<1> QED
  BY <1>1, <1>2, <1>4, <1>7, <1>8, <1>9, <1>10 DEF a, b

LEMMA HeadPlaces ==
  ASSUME NEW s \in Seq(Pkts), s # <<>>, Distinct(s)
  PROVE  /\ Head(s) \in Pkts /\ Tail(s) \in Seq(Pkts) /\ Distinct(Tail(s))
         /\ Range(s) = {Head(s)} \cup Range(Tail(s)) /\ Head(s) \notin Range(Tail(s))
<1>1. Len(s) \in Nat /\ 1 <= Len(s) /\ Head(s) = s[1] /\ Head(s) \in Pkts
  OBVIOUS
<1>2. Tail(s) = SubSeq(s, 1 + 1, Len(s))
  OBVIOUS
<1>3. /\ Tail(s) \in Seq(Pkts) /\ Distinct(Tail(s))
      /\ Range(s) = Range(SubSeq(s, 1, 1)) \cup Range(Tail(s))
      /\ Range(SubSeq(s, 1, 1)) \cap Range(Tail(s)) = {}
  <2>1. PICK n \in Nat : n = 1
    OBVIOUS
  <2>2. /\ SubSeq(s, n + 1, Len(s)) \in Seq(Pkts)
        /\ Range(s) = Range(SubSeq(s, 1, n)) \cup Range(SubSeq(s, n + 1, Len(s)))
        /\ Range(SubSeq(s, 1, n)) \cap Range(SubSeq(s, n + 1, Len(s))) = {}
        /\ Distinct(SubSeq(s, n + 1, Len(s)))
    BY <1>1, <2>1, SplitPlaces
  <2> QED
    BY <1>2, <2>1, <2>2
<1>4. Range(SubSeq(s, 1, 1)) = {Head(s)}
  <2>1. DOMAIN SubSeq(s, 1, 1) = {1} /\ SubSeq(s, 1, 1)[1] = s[1]
    BY <1>1
  <2> QED
    BY <1>1, <2>1 DEF Range
<1> QED
  BY <1>1, <1>3, <1>4

LEMMA OneElement ==
  ASSUME NEW p \in Pkts
  PROVE  <<p>> \in Seq(Pkts) /\ Range(<<p>>) = {p} /\ Distinct(<<p>>)
  BY DEF Range, Distinct

LEMMA AppendPlaces ==
  ASSUME NEW s \in Seq(Pkts), NEW p \in Pkts
  PROVE  /\ Append(s, p) \in Seq(Pkts)
         /\ Range(Append(s, p)) = Range(s) \cup {p}
         /\ Distinct(s) /\ p \notin Range(s) => Distinct(Append(s, p))
<1>1. Append(s, p) = s \o <<p>>
  OBVIOUS
<1>2. PICK t \in Seq(Pkts) : t = <<p>> /\ Range(t) = {p} /\ Distinct(t)
  BY OneElement
<1>3. /\ s \o t \in Seq(Pkts)
      /\ Range(s \o t) = Range(s) \cup Range(t)
      /\ Distinct(s) /\ Distinct(t) /\ Range(s) \cap Range(t) = {} => Distinct(s \o t)
  BY ConcatPlaces
<1> QED
  BY <1>1, <1>2, <1>3

(* The moves that the steps make. *)
LEMMA AllowedMoves ==
  ASSUME NEW p \in Pkts
  PROVE  /\ \A a : Allowed(p, a, a)
         /\ Allowed(p, "pool", "todo") /\ Allowed(p, "todo", "pool") /\ Allowed(p, "todo", "ol")
         /\ Allowed(p, "ol", "pool") /\ Allowed(p, "out", "pool")
         /\ p \in LookasidePkts =>
              /\ Allowed(p, "todo", "buf") /\ Allowed(p, "todo", "pmd")
              /\ Allowed(p, "buf", "pmd") /\ Allowed(p, "buf", "pool")
              /\ Allowed(p, "pmd", "cops") /\ Allowed(p, "pmd", "out") /\ Allowed(p, "pmd", "pool")
              /\ Allowed(p, "cops", "out") /\ Allowed(p, "cops", "pool")
         /\ SaOf[p] # NoSa /\ SaType[SaOf[p]] \notin LookasideType =>
              Allowed(p, "todo", "out") /\ Allowed(p, "ol", "out")
<1>1. \A a : Allowed(p, a, a)
  BY DEF Allowed
<1>2. Allowed(p, "pool", "todo") /\ Allowed(p, "todo", "pool") /\ Allowed(p, "todo", "ol")
      /\ Allowed(p, "ol", "pool") /\ Allowed(p, "out", "pool")
  BY DEF Allowed, Stage, Life!Move
<1>3. ASSUME p \in LookasidePkts
      PROVE  /\ Allowed(p, "todo", "buf") /\ Allowed(p, "todo", "pmd")
             /\ Allowed(p, "buf", "pmd") /\ Allowed(p, "buf", "pool")
             /\ Allowed(p, "pmd", "cops") /\ Allowed(p, "pmd", "out") /\ Allowed(p, "pmd", "pool")
             /\ Allowed(p, "cops", "out") /\ Allowed(p, "cops", "pool")
  BY <1>3 DEF Allowed, Stage, Life!Move
<1>4. ASSUME SaOf[p] # NoSa, SaType[SaOf[p]] \notin LookasideType
      PROVE  Allowed(p, "todo", "out") /\ Allowed(p, "ol", "out")
  <2>1. p \notin LookasidePkts /\ p \notin {x \in Pkts : SaOf[x] = NoSa}
    BY <1>4 DEF LookasidePkts
  <2>2. <<"rx", "out">> \in Life!Move(p)
    BY <2>1 DEF Life!Move
  <2>3. Stage("todo") = "rx" /\ Stage("ol") = "rx" /\ Stage("out") = "out"
    BY DEF Stage
  <2> QED
    BY <2>2, <2>3 DEF Allowed
<1> QED
  BY <1>1, <1>2, <1>3, <1>4

(* A step that moves no mbuf. *)
LEMMA StillMoves ==
  ASSUME NEW k, NEW d, Placed(k, d), UNCHANGED <<pool, out, todo, ol_pkts, cops, buf, pmd>>
  PROVE  Moves(k)
<1>1. Placed(k, d)'
  BY DEF Placed, SetsPlaced, ListsPlaced, QueuesPlaced, SasFit, ListsDistinct
<1>2. \A p \in Pkts : Allowed(p, k[p], k[p])
  BY AllowedMoves
<1> QED
  BY <1>1, <1>2 DEF Moves, Placed

LEMMA InitPlaced == Init => \E k \in [Pkts -> Kinds], d \in [Pkts -> Qps] : Placed(k, d)
<1> SUFFICES ASSUME Init PROVE \E k \in [Pkts -> Kinds], d \in [Pkts -> Qps] : Placed(k, d)
  OBVIOUS
<1> DEFINE k == [p \in Pkts |-> "pool"]
           d == [p \in Pkts |-> 0]
<1>1. k \in [Pkts -> Kinds] /\ d \in [Pkts -> Qps] /\ \A p \in Pkts : k[p] = "pool"
  BY ConstFacts DEF Kinds, Qps
<1> HIDE DEF k, d
<1>2. /\ Range(todo) = {} /\ Range(ol_pkts) = {} /\ Range(cops) = {}
      /\ \A q \in Qps : Range(buf[q]) = {} /\ Range(pmd[q]) = {}
      /\ ListsDistinct
  BY EmptyList DEF Init, ListsDistinct
<1>3. SetsPlaced(k)
  BY <1>1 DEF Init, SetsPlaced
<1>4. ListsPlaced(k) /\ QueuesPlaced(k, d) /\ SasFit(k)
  BY <1>1, <1>2 DEF ListsPlaced, QueuesPlaced, SasFit
<1> QED
  BY <1>1, <1>2, <1>3, <1>4 DEF Placed

(* Where the mbufs of IInv and Placed are. *)
LEMMA ListFacts ==
  ASSUME TypeOK, NEW k, NEW d, Placed(k, d)
  PROVE  /\ todo \in Seq(Pkts) /\ ol_pkts \in Seq(Pkts) /\ cops \in Seq(Pkts)
         /\ Distinct(todo) /\ Distinct(ol_pkts) /\ Distinct(cops)
         /\ Range(todo) \subseteq Pkts /\ Range(ol_pkts) \subseteq Pkts /\ Range(cops) \subseteq Pkts
         /\ \A q \in Qps : /\ buf[q] \in Seq(Pkts) /\ pmd[q] \in Seq(Pkts)
                           /\ Distinct(buf[q]) /\ Distinct(pmd[q])
                           /\ Range(buf[q]) \subseteq Pkts /\ Range(pmd[q]) \subseteq Pkts
<1>1. /\ todo \in Seq(Pkts) /\ ol_pkts \in Seq(Pkts) /\ cops \in Seq(Pkts)
      /\ \A q \in Qps : buf[q] \in Seq(Pkts) /\ pmd[q] \in Seq(Pkts)
  BY DEF TypeOK
<1>2. ListsDistinct
  BY DEF Placed
<1> QED
  BY <1>1, <1>2, RangeFacts DEF ListsDistinct

(* A step that leaves the crypto queues alone. *)
LEMMA ListMoves ==
  ASSUME NEW k, NEW d, Placed(k, d), UNCHANGED <<buf, pmd>>,
         NEW k2 \in [Pkts -> Kinds], SetsPlaced(k2)', ListsPlaced(k2)',
         Distinct(todo)', Distinct(ol_pkts)', Distinct(cops)',
         \A p \in Pkts : k2[p] # k[p] =>
           /\ k[p] \notin {"buf", "pmd"} /\ k2[p] \notin {"buf", "pmd", "cops"}
           /\ k2[p] = "ol" => SaOf[p] # NoSa /\ SaType[SaOf[p]] \in InlineType
           /\ Allowed(p, k[p], k2[p])
  PROVE  Moves(k)
<1>1. QueuesPlaced(k2, d)'
  BY DEF Placed, QueuesPlaced
<1>2. SasFit(k2)'
  BY DEF Placed, SasFit
<1>3. ListsDistinct'
  BY DEF Placed, ListsDistinct
<1>4. \A p \in Pkts : Allowed(p, k[p], k2[p])
  BY AllowedMoves
<1>5. Placed(k2, d)'
  BY <1>1, <1>2, <1>3 DEF Placed
<1> QED
  BY <1>4, <1>5 DEF Moves, Placed

LEMMA TxDoneMoves ==
  ASSUME NEW k, NEW d, Placed(k, d), TxDone
  PROVE  Moves(k)
<1>1. PICK x \in out : out' = out \ {x} /\ pool' = pool \cup {x}
  BY DEF TxDone
<1>2. UNCHANGED <<todo, ol_pkts, cops, buf, pmd>>
  BY DEF TxDone, queues, loop
<1> DEFINE k2 == [p \in Pkts |-> IF p = x THEN "pool" ELSE k[p]]
<1>3. k2 \in [Pkts -> Kinds] /\ \A p \in Pkts : k2[p] = IF p = x THEN "pool" ELSE k[p]
  BY DEF Placed, Kinds
<1> HIDE DEF k2
<1>4. x \in Pkts => k[x] = "out"
  BY DEF Placed, SetsPlaced
<1>5. SetsPlaced(k2)' /\ ListsPlaced(k2)'
  BY <1>1, <1>2, <1>3, <1>4 DEF Placed, SetsPlaced, ListsPlaced
<1>6. Distinct(todo)' /\ Distinct(ol_pkts)' /\ Distinct(cops)'
  BY <1>2 DEF Placed, ListsDistinct, Distinct
<1> QED
  BY <1>2, <1>3, <1>4, <1>5, <1>6, AllowedMoves, ListMoves

LEMMA RxBurstMoves ==
  ASSUME IInv, NEW k, NEW d, Placed(k, d), RxBurst, todo = <<>>
  PROVE  Moves(k)
<1>1. PICK n \in 0 .. MAX_PKT_BURST : \E burst \in [1 .. n -> pool] :
        /\ \A i, j \in 1 .. n : burst[i] = burst[j] => i = j
        /\ todo' = burst
        /\ pool' = pool \ Range(burst)
  BY DEF RxBurst
<1>2. PICK burst \in [1 .. n -> pool] :
        /\ \A i, j \in 1 .. n : burst[i] = burst[j] => i = j
        /\ todo' = burst
        /\ pool' = pool \ Range(burst)
  BY <1>1
<1>3. UNCHANGED <<out, ol_pkts, cops, buf, pmd>>
  BY DEF RxBurst, queues, loop
<1>4. Range(burst) \subseteq pool /\ Distinct(burst)
  BY <1>2 DEF Range, Distinct
<1> DEFINE k2 == [p \in Pkts |-> IF p \in Range(burst) THEN "todo" ELSE k[p]]
<1>5. k2 \in [Pkts -> Kinds]
      /\ \A p \in Pkts : k2[p] = IF p \in Range(burst) THEN "todo" ELSE k[p]
  BY DEF Placed, Kinds
<1> HIDE DEF k2
<1>6. Range(todo) = {}
  BY EmptyList
<1>7. SetsPlaced(k2)' /\ ListsPlaced(k2)'
  BY <1>2, <1>3, <1>4, <1>5, <1>6 DEF Placed, SetsPlaced, ListsPlaced
<1>8. Distinct(todo)' /\ Distinct(ol_pkts)' /\ Distinct(cops)'
  BY <1>2, <1>3, <1>4 DEF Placed, ListsDistinct, Distinct
<1>9. \A p \in Pkts : p \in Range(burst) => k[p] = "pool"
  BY <1>4 DEF Placed, SetsPlaced
<1> QED
  BY <1>3, <1>5, <1>7, <1>8, <1>9, AllowedMoves, ListMoves

(* One packet of the burst leaves. *)
LEMMA DiscardMoves ==
  ASSUME IInv, NEW k, NEW d, Placed(k, d), EnqueueDiscard
  PROVE  Moves(k)
<1>1. /\ todo # <<>> /\ pool' = pool \cup {Head(todo)} /\ todo' = Tail(todo)
      /\ UNCHANGED <<out, ol_pkts, cops, buf, pmd>>
  BY DEF EnqueueDiscard, queues, loop
<1>2. PICK x \in Pkts : /\ x = Head(todo) /\ Distinct(Tail(todo))
                        /\ Range(todo) = {x} \cup Range(Tail(todo)) /\ x \notin Range(Tail(todo))
  BY <1>1, ListFacts, HeadPlaces DEF IInv
<1> DEFINE k2 == [p \in Pkts |-> IF p = x THEN "pool" ELSE k[p]]
<1>3. k2 \in [Pkts -> Kinds] /\ \A p \in Pkts : k2[p] = IF p = x THEN "pool" ELSE k[p]
  BY DEF Placed, Kinds
<1> HIDE DEF k2
<1>4. k[x] = "todo"
  BY <1>2 DEF Placed, ListsPlaced
<1>5. SetsPlaced(k2)' /\ ListsPlaced(k2)'
  BY <1>1, <1>2, <1>3, <1>4 DEF Placed, SetsPlaced, ListsPlaced
<1>6. Distinct(todo)' /\ Distinct(ol_pkts)' /\ Distinct(cops)'
  BY <1>1, <1>2 DEF Placed, ListsDistinct, Distinct
<1> QED
  BY <1>1, <1>3, <1>4, <1>5, <1>6, AllowedMoves, ListMoves

LEMMA InlineMoves ==
  ASSUME IInv, NEW k, NEW d, Placed(k, d), EnqueueInline
  PROVE  Moves(k)
<1>1. /\ todo # <<>> /\ ol_pkts' = Append(ol_pkts, Head(todo)) /\ todo' = Tail(todo)
      /\ SaOf[Head(todo)] # NoSa /\ SaType[SaOf[Head(todo)]] \in InlineType
      /\ UNCHANGED <<pool, out, cops, buf, pmd>>
  BY DEF EnqueueInline, queues, loop
<1>2. PICK x \in Pkts : /\ x = Head(todo) /\ Distinct(Tail(todo))
                        /\ Range(todo) = {x} \cup Range(Tail(todo)) /\ x \notin Range(Tail(todo))
  BY <1>1, ListFacts, HeadPlaces DEF IInv
<1> DEFINE k2 == [p \in Pkts |-> IF p = x THEN "ol" ELSE k[p]]
<1>3. k2 \in [Pkts -> Kinds] /\ \A p \in Pkts : k2[p] = IF p = x THEN "ol" ELSE k[p]
  BY DEF Placed, Kinds
<1> HIDE DEF k2
<1>4. k[x] = "todo" /\ x \notin Range(ol_pkts)
  BY <1>2 DEF Placed, ListsPlaced
<1>5. Range(ol_pkts') = Range(ol_pkts) \cup {x} /\ Distinct(ol_pkts')
  BY <1>1, <1>2, <1>4, ListFacts, AppendPlaces DEF IInv
<1>6. SetsPlaced(k2)' /\ ListsPlaced(k2)'
  BY <1>1, <1>2, <1>3, <1>4, <1>5 DEF Placed, SetsPlaced, ListsPlaced
<1>7. Distinct(todo)' /\ Distinct(ol_pkts)' /\ Distinct(cops)'
  BY <1>1, <1>2, <1>5 DEF Placed, ListsDistinct, Distinct
<1> QED
  BY <1>1, <1>2, <1>3, <1>4, <1>6, <1>7, AllowedMoves, ListMoves

LEMMA LastPlaces ==
  ASSUME NEW s \in Seq(Pkts), s # <<>>, Distinct(s)
  PROVE  LET a == SubSeq(s, 1, Len(s) - 1)
             x == s[Len(s)]
         IN  /\ x \in Pkts /\ Distinct(a)
             /\ Range(s) = Range(a) \cup {x} /\ x \notin Range(a)
<1>1. Len(s) \in Nat /\ 1 <= Len(s) /\ s[Len(s)] \in Pkts
  BY SMTT(30)
<1>2. PICK n \in Nat : n = Len(s) - 1 /\ n <= Len(s) /\ n + 1 = Len(s)
  <2>1. Len(s) - 1 \in Nat /\ Len(s) - 1 <= Len(s) /\ (Len(s) - 1) + 1 = Len(s)
    BY <1>1
  <2> QED
    BY Zenon, <2>1
<1>3. /\ Range(s) = Range(SubSeq(s, 1, n)) \cup Range(SubSeq(s, n + 1, Len(s)))
      /\ Range(SubSeq(s, 1, n)) \cap Range(SubSeq(s, n + 1, Len(s))) = {}
      /\ Distinct(SubSeq(s, 1, n))
  BY <1>2, SplitPlaces
<1>4. Range(SubSeq(s, n + 1, Len(s))) = {s[Len(s)]}
  <2>1. DOMAIN SubSeq(s, n + 1, Len(s)) = {1} /\ SubSeq(s, n + 1, Len(s))[1] = s[Len(s)]
    BY <1>1, <1>2
  <2> QED
    BY <2>1 DEF Range
<1>5. /\ Range(s) = Range(SubSeq(s, 1, n)) \cup {s[Len(s)]}
      /\ s[Len(s)] \notin Range(SubSeq(s, 1, n))
  BY <1>3, <1>4
<1> QED
  BY <1>1, <1>2, <1>3, <1>5

(* The last packet of ol_pkts leaves. *)
LEMMA InlineDequeueMoves ==
  ASSUME IInv, NEW k, NEW d, Placed(k, d), InlineDequeue
  PROVE  Moves(k)
<1>1. PICK x : x = ol_pkts[Len(ol_pkts)]
  OBVIOUS
<1>2. /\ ol_pkts # <<>> /\ ol_pkts' = SubSeq(ol_pkts, 1, Len(ol_pkts) - 1)
      /\ \/ out' = out \cup {x} /\ pool' = pool
         \/ pool' = pool \cup {x} /\ out' = out
      /\ UNCHANGED <<todo, cops, buf, pmd>>
  BY <1>1 DEF InlineDequeue, InlineMore, queues, loop
<1>3. PICK b \in {"pool", "out"} :
        /\ out' = IF b = "out" THEN out \cup {x} ELSE out
        /\ pool' = IF b = "pool" THEN pool \cup {x} ELSE pool
  BY <1>2
<1>4. /\ x \in Pkts /\ Distinct(ol_pkts')
      /\ Range(ol_pkts) = Range(ol_pkts') \cup {x} /\ x \notin Range(ol_pkts')
  BY <1>1, <1>2, ListFacts, LastPlaces DEF IInv
<1> DEFINE k2 == [p \in Pkts |-> IF p = x THEN b ELSE k[p]]
<1>5. k2 \in [Pkts -> Kinds] /\ \A p \in Pkts : k2[p] = IF p = x THEN b ELSE k[p]
  BY DEF Placed, Kinds
<1> HIDE DEF k2
<1>6. k[x] = "ol" /\ SaOf[x] # NoSa /\ SaType[SaOf[x]] \in InlineType
  BY <1>4 DEF Placed, ListsPlaced, SasFit
<1>7. SetsPlaced(k2)'
  BY <1>3, <1>4, <1>5, <1>6 DEF Placed, SetsPlaced
<1>8. ListsPlaced(k2)'
  BY <1>2, <1>3, <1>4, <1>5, <1>6 DEF Placed, ListsPlaced
<1>9. Distinct(todo)' /\ Distinct(ol_pkts)' /\ Distinct(cops)'
  BY <1>2, <1>4 DEF Placed, ListsDistinct, Distinct
<1>10. SaType[SaOf[x]] \notin LookasideType
  BY <1>6 DEF InlineType, LookasideType
<1>11. Allowed(x, "ol", b)
  BY <1>4, <1>6, <1>10, AllowedMoves
<1> QED
  BY <1>2, <1>5, <1>6, <1>7, <1>8, <1>9, <1>11, ListMoves

(* A group of the burst and what is left of it. *)
LEMMA GroupPlaces ==
  ASSUME IInv, NEW k, NEW d, Placed(k, d), NEW cnt \in 1 .. Len(todo)
  PROVE  /\ Group(cnt) \in Seq(Pkts) /\ Len(Group(cnt)) = cnt /\ Distinct(Group(cnt))
         /\ Range(Group(cnt)) \subseteq Pkts /\ Distinct(NextGroup(cnt))
         /\ Range(todo) = Range(Group(cnt)) \cup Range(NextGroup(cnt))
         /\ Range(Group(cnt)) \cap Range(NextGroup(cnt)) = {}
         /\ \A p \in Range(Group(cnt)) : k[p] = "todo"
         /\ IsGroup(cnt) => \A p \in Range(Group(cnt)) : SaOf[p] = SaOf[todo[1]]
<1>1. todo \in Seq(Pkts) /\ Distinct(todo) /\ Len(todo) \in Nat /\ Range(todo) \subseteq Pkts
  BY ListFacts DEF IInv
<1>2. cnt \in Nat /\ cnt <= Len(todo)
  BY <1>1
<1>3. /\ Group(cnt) \in Seq(Pkts) /\ Len(Group(cnt)) = cnt /\ Distinct(Group(cnt))
      /\ Distinct(NextGroup(cnt))
      /\ Range(todo) = Range(Group(cnt)) \cup Range(NextGroup(cnt))
      /\ Range(Group(cnt)) \cap Range(NextGroup(cnt)) = {}
  BY <1>1, <1>2, SplitPlaces DEF Group, NextGroup
<1>4. \A p \in Range(Group(cnt)) : p \in Pkts /\ k[p] = "todo"
  BY <1>1, <1>3 DEF Placed, ListsPlaced
<1>5. ASSUME IsGroup(cnt) PROVE \A p \in Range(Group(cnt)) : SaOf[p] = SaOf[todo[1]]
  <2>1. DOMAIN Group(cnt) = 1 .. cnt /\ \A i \in 1 .. cnt : Group(cnt)[i] = todo[i]
    BY <1>1, <1>2, <1>3 DEF Group
  <2> QED
    BY <1>5, <2>1 DEF IsGroup, Range
<1> QED
  BY <1>3, <1>4, <1>5

(* GroupDiscard, GroupSync: a group goes to the pool and to routing. *)
LEMMA GroupMoves ==
  ASSUME IInv, NEW k, NEW d, Placed(k, d), NEW cnt \in 1 .. Len(todo), IsGroup(cnt),
         NEW bad \in SUBSET Range(Group(cnt)),
         \/ bad = Range(Group(cnt))
         \/ SaOf[todo[1]] # NoSa /\ SaType[SaOf[todo[1]]] \notin LookasideType,
         out' = out \cup (Range(Group(cnt)) \ bad), pool' = pool \cup bad,
         todo' = NextGroup(cnt), UNCHANGED <<ol_pkts, cops, buf, pmd>>
  PROVE  Moves(k)
<1> PICK G : G = Range(Group(cnt))
  OBVIOUS
<1> DEFINE k2 == [p \in Pkts |-> IF p \in bad THEN "pool" ELSE IF p \in G THEN "out" ELSE k[p]]
<1>1. /\ k2 \in [Pkts -> Kinds]
      /\ \A p \in Pkts : k2[p] = IF p \in bad THEN "pool" ELSE IF p \in G THEN "out" ELSE k[p]
  BY DEF Placed, Kinds
<1> HIDE DEF k2
<1>2. /\ G \subseteq Pkts /\ Range(todo) = G \cup Range(todo') /\ G \cap Range(todo') = {}
      /\ Distinct(todo') /\ bad \subseteq G
      /\ \A p \in G : k[p] = "todo" /\ SaOf[p] = SaOf[todo[1]]
  BY GroupPlaces
<1>3. out' = out \cup (G \ bad) /\ pool' = pool \cup bad
  OBVIOUS
<1>4. SetsPlaced(k2)'
  BY <1>1, <1>2, <1>3 DEF Placed, SetsPlaced
<1>5. ListsPlaced(k2)'
  BY <1>1, <1>2 DEF Placed, ListsPlaced
<1>6. Distinct(todo)' /\ Distinct(ol_pkts)' /\ Distinct(cops)'
  BY <1>2 DEF Placed, ListsDistinct, Distinct
<1>7. ASSUME NEW p \in Pkts, k2[p] # k[p]
      PROVE  k[p] = "todo" /\ k2[p] \in {"pool", "out"} /\ Allowed(p, k[p], k2[p])
  <2>1. p \in G
    BY <1>1, <1>2, <1>7
  <2>2. CASE p \in bad
    BY <1>1, <1>2, <2>1, <2>2, AllowedMoves
  <2>3. CASE p \notin bad
    <3>1. SaOf[p] # NoSa /\ SaType[SaOf[p]] \notin LookasideType
      BY <1>2, <2>1, <2>3
    <3> QED
      BY <1>1, <1>2, <2>1, <2>3, <3>1, AllowedMoves
  <2> QED
    BY <2>2, <2>3
<1> QED
  BY <1>1, <1>4, <1>5, <1>6, <1>7, ListMoves

LEMMA GroupStepMoves ==
  ASSUME IInv, NEW k, NEW d, Placed(k, d), GroupDiscard \/ GroupSync
  PROVE  Moves(k)
<1>1. CASE GroupDiscard
  <2>1. PICK cnt \in 1 .. Len(todo) :
          IsGroup(cnt) /\ pool' = pool \cup Range(Group(cnt)) /\ todo' = NextGroup(cnt)
    BY <1>1 DEF GroupDiscard
  <2>2. out' = out /\ UNCHANGED <<ol_pkts, cops, buf, pmd>>
    BY <1>1 DEF GroupDiscard, queues, loop
  <2>3. PICK bad \in SUBSET Range(Group(cnt)) : bad = Range(Group(cnt))
    OBVIOUS
  <2>4. out' = out \cup (Range(Group(cnt)) \ bad) /\ pool' = pool \cup bad
    BY <2>1, <2>2, <2>3
  <2> QED
    BY <2>1, <2>2, <2>3, <2>4, GroupMoves
<1>2. CASE GroupSync
  <2>1. PICK cnt \in 1 .. Len(todo) : \E bad \in SUBSET Range(Group(cnt)) :
          /\ IsGroup(cnt)
          /\ out' = out \cup (Range(Group(cnt)) \ bad)
          /\ pool' = pool \cup bad
          /\ todo' = NextGroup(cnt)
    BY <1>2 DEF GroupSync
  <2>2. PICK bad \in SUBSET Range(Group(cnt)) :
          /\ IsGroup(cnt)
          /\ out' = out \cup (Range(Group(cnt)) \ bad)
          /\ pool' = pool \cup bad
          /\ todo' = NextGroup(cnt)
    BY <2>1
  <2>3. SaOf[todo[1]] # NoSa /\ SaType[SaOf[todo[1]]] \notin LookasideType
    BY <1>2 DEF GroupSync, InlineType, LookasideType
  <2>4. UNCHANGED <<ol_pkts, cops, buf, pmd>>
    BY <1>2 DEF GroupSync, queues, loop
  <2> QED
    BY <2>2, <2>3, <2>4, GroupMoves
<1> QED
  BY <1>1, <1>2

(* The operations that ctx_dequeue collected are finished. *)
LEMMA CqpProcessMoves ==
  ASSUME IInv, NEW k, NEW d, Placed(k, d), CqpProcess
  PROVE  Moves(k)
<1>1. PICK bad \in SUBSET Range(cops) :
        out' = out \cup (Range(cops) \ bad) /\ pool' = pool \cup bad
  BY DEF CqpProcess
<1>2. cops' = <<>> /\ UNCHANGED <<todo, ol_pkts, buf, pmd>>
  BY DEF CqpProcess, queues
<1> PICK C : C = Range(cops)
  OBVIOUS
<1> DEFINE k2 == [p \in Pkts |-> IF p \in bad THEN "pool" ELSE IF p \in C THEN "out" ELSE k[p]]
<1>3. /\ k2 \in [Pkts -> Kinds]
      /\ \A p \in Pkts : k2[p] = IF p \in bad THEN "pool" ELSE IF p \in C THEN "out" ELSE k[p]
  BY DEF Placed, Kinds
<1> HIDE DEF k2
<1>4. /\ C \subseteq Pkts /\ bad \subseteq C
      /\ \A p \in Pkts : p \in C <=> k[p] = "cops"
      /\ \A p \in C : p \in LookasidePkts
  BY ListFacts DEF IInv, Placed, ListsPlaced, SasFit
<1>5. Range(cops') = {} /\ Distinct(cops')
  BY <1>2, EmptyList
<1>6. out' = out \cup (C \ bad) /\ pool' = pool \cup bad
  BY <1>1
<1>7. SetsPlaced(k2)'
  BY <1>3, <1>4, <1>6 DEF Placed, SetsPlaced
<1>8. ListsPlaced(k2)'
  BY <1>2, <1>3, <1>4, <1>5 DEF Placed, ListsPlaced
<1>9. Distinct(todo)' /\ Distinct(ol_pkts)' /\ Distinct(cops)'
  BY <1>2, <1>5 DEF Placed, ListsDistinct, Distinct
<1>10. ASSUME NEW p \in Pkts, k2[p] # k[p]
      PROVE  k[p] = "cops" /\ k2[p] \in {"pool", "out"} /\ Allowed(p, k[p], k2[p])
  <2>1. p \in C
    BY <1>3, <1>4, <1>10
  <2> QED
    BY <1>3, <1>4, <2>1, AllowedMoves
<1> QED
  BY <1>2, <1>3, <1>7, <1>8, <1>9, <1>10, ListMoves
-----------------------------------------------------------------------------
(* Packets G of the burst join the buffered ones of a queue pair: A goes   *)
(* to the device, B stays in the buffer, F is freed.                       *)
LEMMA OfferMoves ==
  ASSUME IInv, NEW k, NEW d, Placed(k, d), NEW q \in Qps,
         NEW A \in Seq(Pkts), NEW B \in Seq(Pkts), NEW F, NEW G,
         Distinct(A), Distinct(B), Range(A) \cap Range(B) = {},
         F \cap (Range(A) \cup Range(B)) = {},
         Range(A) \cup Range(B) \cup F = Range(buf[q]) \cup G,
         Range(todo) = G \cup Range(todo'), G \cap Range(todo') = {}, Distinct(todo'),
         \A p \in G : p \in Range(A) \cup Range(B) => p \in LookasidePkts,
         pool' = pool \cup F,
         buf' = [buf EXCEPT ![q] = B],
         pmd' = [pmd EXCEPT ![q] = @ \o A],
         UNCHANGED <<out, ol_pkts, cops>>
  PROVE  Moves(k)
<1> PICK RA, RB : RA = Range(A) /\ RB = Range(B)
  OBVIOUS
<1> DEFINE k2 == [p \in Pkts |-> IF p \in F THEN "pool" ELSE IF p \in RA THEN "pmd"
                                 ELSE IF p \in RB THEN "buf" ELSE k[p]]
           d2 == [p \in Pkts |-> IF p \in RA \cup RB THEN q ELSE d[p]]
<1>1. /\ k2 \in [Pkts -> Kinds] /\ d2 \in [Pkts -> Qps]
      /\ \A p \in Pkts : k2[p] = IF p \in F THEN "pool" ELSE IF p \in RA THEN "pmd"
                                 ELSE IF p \in RB THEN "buf" ELSE k[p]
      /\ \A p \in Pkts : d2[p] = IF p \in RA \cup RB THEN q ELSE d[p]
  BY DEF Placed, Kinds
<1> HIDE DEF k2, d2
<1>2. /\ RA \cap RB = {} /\ F \cap (RA \cup RB) = {}
      /\ RA \cup RB \cup F = Range(buf[q]) \cup G
      /\ G \subseteq Range(todo) /\ Range(buf[q]) \subseteq Pkts /\ Range(todo) \subseteq Pkts
  BY ListFacts DEF IInv
<1>3. \A p \in Pkts : /\ p \in Range(buf[q]) <=> k[p] = "buf" /\ d[p] = q
                      /\ p \in Range(todo) <=> k[p] = "todo"
  BY DEF Placed, ListsPlaced, QueuesPlaced
<1>4. ASSUME NEW p \in RA \cup RB \cup F
      PROVE  p \in Pkts /\ (k[p] = "todo" \/ (k[p] = "buf" /\ d[p] = q))
  <2>1. p \in Range(buf[q]) \/ p \in Range(todo)
    BY <1>2
  <2>2. p \in Pkts
    BY <1>2, <2>1
  <2> QED
    BY <1>3, <2>1, <2>2
<1>5. /\ pmd[q] \in Seq(Pkts) /\ Distinct(pmd[q])
      /\ \A p \in Pkts : p \in Range(pmd[q]) <=> k[p] = "pmd" /\ d[p] = q
  BY ListFacts DEF IInv, Placed, QueuesPlaced
<1>6. Range(pmd[q]) \cap Range(A) = {}
  BY <1>4, <1>5, ListFacts DEF IInv
<1>7. Range(pmd[q] \o A) = Range(pmd[q]) \cup RA /\ Distinct(pmd[q] \o A)
  BY <1>5, <1>6, ConcatPlaces
<1>8. /\ buf'[q] = B /\ \A r \in Qps : r # q => buf'[r] = buf[r]
      /\ pmd'[q] = pmd[q] \o A /\ \A r \in Qps : r # q => pmd'[r] = pmd[r]
  BY DEF IInv, TypeOK
<1>9. SetsPlaced(k2)'
  BY <1>1, <1>4 DEF Placed, SetsPlaced
<1>10. ListsPlaced(k2)'
  <2>1. ASSUME NEW p \in Pkts
        PROVE  p \in Range(todo') <=> k2[p] = "todo"
    <3>1. p \in Range(todo') <=> p \in Range(todo) /\ p \notin G
      OBVIOUS
    <3>2. p \in Range(todo) <=> k[p] = "todo"
      BY <1>3
    <3>3. p \in G => k2[p] \in {"pool", "pmd", "buf"}
      BY <1>1, <1>2
    <3>4. p \notin G /\ k[p] = "todo" => p \notin RA \cup RB \cup F
      BY <1>2, <1>3
    <3> QED
      BY <1>1, <1>4, <3>1, <3>2, <3>3, <3>4
  <2> QED
    BY <1>1, <1>4, <2>1 DEF Placed, ListsPlaced
<1>11. QueuesPlaced(k2, d2)'
  <2>1. ASSUME NEW p \in Pkts, NEW r \in Qps
        PROVE  /\ p \in Range(buf'[r]) <=> k2[p] = "buf" /\ d2[p] = r
               /\ p \in Range(pmd'[r]) <=> k2[p] = "pmd" /\ d2[p] = r
    <3>1. /\ p \in Range(buf[r]) <=> k[p] = "buf" /\ d[p] = r
          /\ p \in Range(pmd[r]) <=> k[p] = "pmd" /\ d[p] = r
      BY DEF Placed, QueuesPlaced
    <3>2. CASE r # q
      BY <1>1, <1>4, <1>8, <3>1, <3>2
    <3>3. CASE r = q
      <4>1. p \in Range(buf'[r]) <=> p \in RB
        BY <1>8, <3>3
      <4>2. p \in Range(pmd'[r]) <=> p \in Range(pmd[q]) \/ p \in RA
        BY <1>7, <1>8, <3>3
      <4>3. k[p] = "buf" /\ d[p] = q => p \in RA \cup RB \cup F
        BY <1>2, <3>1, <3>3
      <4>4. p \in RB <=> k2[p] = "buf" /\ d2[p] = r
        BY <1>1, <1>2, <1>4, <3>3, <4>3
      <4>5. p \in Range(pmd[q]) \/ p \in RA <=> k2[p] = "pmd" /\ d2[p] = r
        BY <1>1, <1>2, <1>4, <3>1, <3>3
      <4> QED
        BY <4>1, <4>2, <4>4, <4>5
    <3> QED
      BY <3>2, <3>3
  <2> QED
    BY <2>1 DEF QueuesPlaced
<1>12. ASSUME NEW p \in Pkts, p \in RA \cup RB PROVE p \in LookasidePkts
  BY <1>2, <1>3, <1>12 DEF Placed, SasFit
<1>13. SasFit(k2)'
  BY <1>1, <1>12 DEF Placed, SasFit
<1>14. ListsDistinct'
  <2>1. ASSUME NEW r \in Qps PROVE Distinct(buf'[r]) /\ Distinct(pmd'[r])
    BY <1>7, <1>8 DEF Placed, ListsDistinct
  <2> QED
    BY <2>1 DEF Placed, ListsDistinct
<1>15. ASSUME NEW p \in Pkts PROVE Allowed(p, k[p], k2[p])
  <2>1. CASE p \in F
    <3>1. k[p] = "buf" => p \in LookasidePkts
      BY DEF Placed, SasFit
    <3> QED
      BY <1>1, <1>4, <2>1, <3>1, AllowedMoves
  <2>2. CASE p \in RA \cup RB
    BY <1>1, <1>2, <1>4, <1>12, <2>2, AllowedMoves
  <2>3. CASE p \notin F /\ p \notin RA \cup RB
    BY <1>1, <2>3, AllowedMoves
  <2> QED
    BY <2>1, <2>2, <2>3
<1>16. Placed(k2, d2)'
  BY <1>1, <1>9, <1>10, <1>11, <1>13, <1>14 DEF Placed
<1> QED
  BY <1>1, <1>15, <1>16 DEF Moves

(* A burst of which the device takes the first acc. *)
LEMMA PrefixPlaces ==
  ASSUME NEW q \in Qps, NEW ops \in Seq(Pkts), Distinct(ops), NEW acc \in 0 .. Room(q, ops),
         pmd[q] \in Seq(Pkts)
  PROVE  LET A == SubSeq(ops, 1, acc)
         IN  /\ A \in Seq(Pkts) /\ Distinct(A)
             /\ Range(ops) = Range(A) \cup Rejected(ops, acc)
             /\ Range(A) \cap Rejected(ops, acc) = {}
<1>1. Len(ops) \in Nat /\ Len(pmd[q]) \in Nat
  OBVIOUS
<1>2. acc \in Nat /\ acc <= Len(ops)
  BY <1>1, ConstFacts, SMTT(30) DEF Room, Lesser
<1> QED
  BY <1>2, SplitPlaces DEF Rejected

LEMMA LookasideMoves ==
  ASSUME IInv, NEW k, NEW d, Placed(k, d), EnqueueLookaside
  PROVE  Moves(k)
<1>1. /\ todo # <<>> /\ todo' = Tail(todo) /\ UNCHANGED <<out, ol_pkts, cops>>
      /\ SaOf[Head(todo)] # NoSa /\ SaType[SaOf[Head(todo)]] \in LookasideType
      /\ EnqueueCop(SaQp[SaOf[Head(todo)]], Head(todo))
  BY DEF EnqueueLookaside, loop
<1>2. PICK x \in Pkts : /\ x = Head(todo) /\ Distinct(Tail(todo))
                        /\ Range(todo) = {x} \cup Range(Tail(todo)) /\ x \notin Range(Tail(todo))
  BY <1>1, ListFacts, HeadPlaces DEF IInv
<1>3. PICK q \in Qps : q = SaQp[SaOf[x]]
  <2>1. SaOf[x] \in SaPtrs
    BY <1>1, <1>2, CtxAssumption
  <2> QED
    BY <2>1, CtxAssumption
<1>4. x \in LookasidePkts
  BY <1>1, <1>2 DEF LookasidePkts
<1>5. /\ buf[q] \in Seq(Pkts) /\ Distinct(buf[q]) /\ pmd[q] \in Seq(Pkts)
      /\ buf \in [Qps -> Seq(Pkts)] /\ pmd \in [Qps -> Seq(Pkts)]
  BY ListFacts DEF IInv, TypeOK
<1>6. x \notin Range(buf[q])
  <2>1. k[x] = "todo"
    BY <1>2 DEF Placed, ListsPlaced
  <2> QED
    BY <2>1 DEF Placed, QueuesPlaced
<1>7. PICK ops \in Seq(Pkts) : /\ ops = Append(buf[q], x)
                               /\ Range(ops) = Range(buf[q]) \cup {x} /\ Distinct(ops)
  BY <1>5, <1>6, AppendPlaces
<1>8. CASE /\ \E acc \in 0 .. Room(q, ops) : EnqueueBurst(q, ops, acc, {})
           /\ buf' = [buf EXCEPT ![q] = <<>>]
  <2>1. PICK acc \in 0 .. Room(q, ops) : EnqueueBurst(q, ops, acc, {})
    BY <1>8
  <2>2. PICK A \in Seq(Pkts) :
          /\ A = SubSeq(ops, 1, acc) /\ Distinct(A)
          /\ Range(ops) = Range(A) \cup Rejected(ops, acc)
          /\ Range(A) \cap Rejected(ops, acc) = {}
    BY <1>5, <1>7, PrefixPlaces
  <2>3. PICK B \in Seq(Pkts) : B = <<>> /\ Range(B) = {} /\ Distinct(B)
    BY EmptyPlaces
  <2>4. pmd' = [pmd EXCEPT ![q] = @ \o A] /\ pool' = pool \cup Rejected(ops, acc)
    BY <2>1, <2>2 DEF EnqueueBurst
  <2>5. PICK F : F = Rejected(ops, acc)
    OBVIOUS
  <2>6. PICK G : G = {x}
    OBVIOUS
  <2>7. /\ Range(A) \cap Range(B) = {} /\ F \cap (Range(A) \cup Range(B)) = {}
        /\ Range(A) \cup Range(B) \cup F = Range(buf[q]) \cup G
    BY <1>7, <2>2, <2>3, <2>5, <2>6
  <2>8. /\ Range(todo) = G \cup Range(todo') /\ G \cap Range(todo') = {} /\ Distinct(todo')
        /\ \A p \in G : p \in Range(A) \cup Range(B) => p \in LookasidePkts
    BY <1>1, <1>2, <1>4, <2>6
  <2>9. pool' = pool \cup F /\ buf' = [buf EXCEPT ![q] = B]
    BY <1>8, <2>3, <2>4, <2>5
  <2> QED
    BY <1>1, <2>2, <2>3, <2>4, <2>7, <2>8, <2>9, OfferMoves
<1>9. CASE buf' = [buf EXCEPT ![q] = ops] /\ UNCHANGED <<pmd, in_flight, pool>>
  <2>1. PICK A \in Seq(Pkts) : A = <<>> /\ Range(A) = {} /\ Distinct(A)
    BY EmptyPlaces
  <2>2. pmd' = [pmd EXCEPT ![q] = @ \o A] /\ pool' = pool \cup {}
    <3>1. pmd[q] \o A = pmd[q]
      BY <1>5, <2>1
    <3> QED
      BY <1>5, <1>9, <3>1
  <2>5. PICK F : F = {}
    OBVIOUS
  <2>6. PICK G : G = {x}
    OBVIOUS
  <2>7. /\ Range(A) \cap Range(ops) = {} /\ F \cap (Range(A) \cup Range(ops)) = {}
        /\ Range(A) \cup Range(ops) \cup F = Range(buf[q]) \cup G
    BY <1>7, <2>1, <2>5, <2>6
  <2>8. /\ Range(todo) = G \cup Range(todo') /\ G \cap Range(todo') = {} /\ Distinct(todo')
        /\ \A p \in G : p \in Range(A) \cup Range(ops) => p \in LookasidePkts
    BY <1>1, <1>2, <1>4, <2>6
  <2>9. pool' = pool \cup F /\ buf' = [buf EXCEPT ![q] = ops]
    BY <1>9, <2>2, <2>5
  <2> QED
    BY <1>1, <1>7, <2>1, <2>2, <2>7, <2>8, <2>9, OfferMoves
<1> QED
  BY <1>1, <1>2, <1>3, <1>7, <1>8, <1>9, Zenon DEF EnqueueCop

(* The packets that the library could prepare, in order. *)
LEMMA ChosenPlaces ==
  ASSUME NEW s \in Seq(Pkts), Distinct(s), NEW cnt \in 1 .. Len(s), NEW n \in 1 .. cnt,
         NEW idx \in [1 .. n -> 1 .. cnt], \A i, j \in 1 .. n : i < j => idx[i] < idx[j]
  PROVE  LET ops == [i \in 1 .. n |-> s[idx[i]]]
         IN  /\ ops \in Seq(Pkts) /\ Distinct(ops)
             /\ Range(ops) \subseteq Range(SubSeq(s, 1, cnt))
<1> DEFINE ops == [i \in 1 .. n |-> s[idx[i]]]
<1>1. Len(s) \in Nat /\ cnt \in Nat /\ n \in Nat /\ cnt <= Len(s)
  OBVIOUS
<1>2. DOMAIN ops = 1 .. n /\ \A i \in 1 .. n : /\ ops[i] = s[idx[i]] /\ ops[i] \in Pkts
                                               /\ idx[i] \in 1 .. cnt /\ idx[i] \in DOMAIN s
  BY <1>1
<1>3. ops \in Seq(Pkts)
  BY <1>1, <1>2
<1>4. Distinct(ops)
  <2>1. ASSUME NEW i \in 1 .. n, NEW j \in 1 .. n, i # j PROVE ops[i] # ops[j]
    <3>1. i < j \/ j < i
      BY <1>1, <2>1
    <3>2. idx[i] # idx[j]
      BY <1>1, <1>2, <3>1
    <3> QED
      BY <1>2, <3>2 DEF Distinct
  <2> QED
    BY <1>2, <2>1 DEF Distinct
<1>5. DOMAIN SubSeq(s, 1, cnt) = 1 .. cnt /\ \A i \in 1 .. cnt : SubSeq(s, 1, cnt)[i] = s[i]
  BY <1>1, PrefixFacts
<1>6. Range(ops) \subseteq Range(SubSeq(s, 1, cnt))
  BY <1>2, <1>5 DEF Range
<1> QED
  BY <1>3, <1>4, <1>6

(* enqueue_cop_bulk of a group. *)
LEMMA CryptoMoves ==
  ASSUME IInv, NEW k, NEW d, Placed(k, d), GroupCrypto
  PROVE  Moves(k)
<1>1. /\ SaOf[todo[1]] # NoSa /\ SaType[SaOf[todo[1]]] \in LookasideType
      /\ UNCHANGED <<out, ol_pkts, cops>> /\ todo # <<>>
  BY DEF GroupCrypto, loop
<1>2. PICK cnt \in 1 .. Len(todo) : \E n \in 1 .. cnt : \E idx \in [1 .. n -> 1 .. cnt] :
        LET ops == [i \in 1 .. n |-> todo[idx[i]]] IN
        /\ IsGroup(cnt)
        /\ \A i, j \in 1 .. n : i < j => idx[i] < idx[j]
        /\ EnqueueCopBulk(SaQp[SaOf[todo[1]]], ops, Range(Group(cnt)) \ Range(ops))
        /\ todo' = NextGroup(cnt)
  BY DEF GroupCrypto
<1>3. PICK n \in 1 .. cnt : \E idx \in [1 .. n -> 1 .. cnt] :
        LET ops == [i \in 1 .. n |-> todo[idx[i]]] IN
        /\ IsGroup(cnt)
        /\ \A i, j \in 1 .. n : i < j => idx[i] < idx[j]
        /\ EnqueueCopBulk(SaQp[SaOf[todo[1]]], ops, Range(Group(cnt)) \ Range(ops))
        /\ todo' = NextGroup(cnt)
  BY <1>2
<1>4. PICK idx \in [1 .. n -> 1 .. cnt] :
        LET ops == [i \in 1 .. n |-> todo[idx[i]]] IN
        /\ IsGroup(cnt)
        /\ \A i, j \in 1 .. n : i < j => idx[i] < idx[j]
        /\ EnqueueCopBulk(SaQp[SaOf[todo[1]]], ops, Range(Group(cnt)) \ Range(ops))
        /\ todo' = NextGroup(cnt)
  BY <1>3
<1>5. todo \in Seq(Pkts) /\ Distinct(todo)
  BY ListFacts DEF IInv
<1>6. PICK ops \in Seq(Pkts) :
        /\ ops = [i \in 1 .. n |-> todo[idx[i]]] /\ Distinct(ops)
        /\ Range(ops) \subseteq Range(Group(cnt))
  BY <1>4, <1>5, ChosenPlaces DEF Group
<1>7. PICK G : G = Range(Group(cnt))
  OBVIOUS
<1>8. PICK q \in Qps : q = SaQp[SaOf[todo[1]]]
  <2>1. todo[1] \in Pkts
    BY <1>1, <1>5
  <2>2. SaOf[todo[1]] \in SaPtrs
    BY <1>1, <2>1, CtxAssumption
  <2> QED
    BY <2>2, CtxAssumption
<1>9. IsGroup(cnt) /\ EnqueueCopBulk(q, ops, G \ Range(ops)) /\ todo' = NextGroup(cnt)
  BY <1>4, <1>6, <1>7, <1>8
<1>10. /\ G \subseteq Pkts /\ Range(todo) = G \cup Range(todo') /\ G \cap Range(todo') = {}
       /\ Distinct(todo') /\ Range(ops) \subseteq G
       /\ \A p \in G : k[p] = "todo" /\ p \in LookasidePkts
  BY <1>1, <1>6, <1>7, <1>9, GroupPlaces DEF LookasidePkts
<1>11. /\ buf[q] \in Seq(Pkts) /\ Distinct(buf[q]) /\ pmd[q] \in Seq(Pkts)
       /\ buf \in [Qps -> Seq(Pkts)] /\ pmd \in [Qps -> Seq(Pkts)]
  <2>1. buf \in [Qps -> Seq(Pkts)] /\ pmd \in [Qps -> Seq(Pkts)]
    BY DEF IInv, TypeOK
  <2> QED
    BY <2>1, ListFacts DEF IInv
<1>12. Range(buf[q]) \cap G = {}
  <2>1. \A p \in Range(buf[q]) : p \in Pkts /\ k[p] = "buf"
    BY ListFacts DEF IInv, Placed, QueuesPlaced
  <2> QED
    BY <1>10, <2>1
<1>13. PICK all \in Seq(Pkts) : /\ all = buf[q] \o ops /\ Distinct(all)
                                /\ Range(all) = Range(buf[q]) \cup Range(ops)
  <2>1. Range(buf[q]) \cap Range(ops) = {}
    BY <1>10, <1>12
  <2>2. /\ buf[q] \o ops \in Seq(Pkts) /\ Distinct(buf[q] \o ops)
        /\ Range(buf[q] \o ops) = Range(buf[q]) \cup Range(ops)
    BY <1>6, <1>11, <2>1, ConcatPlaces
  <2> QED
    BY <2>2
<1>14. PICK none \in Seq(Pkts) : none = <<>> /\ Range(none) = {} /\ Distinct(none)
  BY EmptyPlaces
<1>15. CASE /\ \E acc \in 0 .. Room(q, ops) : EnqueueBurst(q, ops, acc, G \ Range(ops))
            /\ UNCHANGED buf
  <2>1. PICK acc \in 0 .. Room(q, ops) : EnqueueBurst(q, ops, acc, G \ Range(ops))
    BY <1>15
  <2>2. PICK A \in Seq(Pkts) :
          /\ A = SubSeq(ops, 1, acc) /\ Distinct(A)
          /\ Range(ops) = Range(A) \cup Rejected(ops, acc)
          /\ Range(A) \cap Rejected(ops, acc) = {}
    BY <1>6, <1>11, PrefixPlaces
  <2>3. PICK B \in Seq(Pkts) : B = buf[q]
    BY <1>11
  <2>4. PICK F : F = Rejected(ops, acc) \cup (G \ Range(ops))
    OBVIOUS
  <2>5. /\ Range(A) \cap Range(B) = {} /\ F \cap (Range(A) \cup Range(B)) = {}
        /\ Range(A) \cup Range(B) \cup F = Range(buf[q]) \cup G
    BY <1>10, <1>12, <2>2, <2>3, <2>4
  <2>6. /\ pool' = pool \cup F /\ buf' = [buf EXCEPT ![q] = B]
        /\ pmd' = [pmd EXCEPT ![q] = @ \o A]
    BY <1>11, <1>15, <2>1, <2>2, <2>3, <2>4 DEF EnqueueBurst
  <2> QED
    BY <1>1, <1>10, <1>11, <2>2, <2>3, <2>5, <2>6, OfferMoves
<1>16. CASE Len(all) >= MAX_PKT_BURST /\
            \E full \in {SubSeq(all, 1, MAX_PKT_BURST)} :
              /\ \E acc \in 0 .. Room(q, full) : EnqueueBurst(q, full, acc, G \ Range(ops))
              /\ buf' = [buf EXCEPT ![q] = SubSeq(all, MAX_PKT_BURST + 1, Len(all))]
  <2>1. PICK full, B : full = SubSeq(all, 1, MAX_PKT_BURST) /\ B = SubSeq(all, MAX_PKT_BURST + 1, Len(all))
    OBVIOUS
  <2>2. /\ full \in Seq(Pkts) /\ B \in Seq(Pkts) /\ Distinct(full) /\ Distinct(B)
        /\ Range(all) = Range(full) \cup Range(B) /\ Range(full) \cap Range(B) = {}
    BY <1>13, <1>16, <2>1, ConstFacts, SplitPlaces
  <2>3. PICK acc \in 0 .. Room(q, full) : EnqueueBurst(q, full, acc, G \ Range(ops))
    BY <1>16, <2>1
  <2>4. PICK A \in Seq(Pkts) :
          /\ A = SubSeq(full, 1, acc) /\ Distinct(A)
          /\ Range(full) = Range(A) \cup Rejected(full, acc)
          /\ Range(A) \cap Rejected(full, acc) = {}
    BY <1>11, <2>2, PrefixPlaces
  <2>5. PICK F : F = Rejected(full, acc) \cup (G \ Range(ops))
    OBVIOUS
  <2>6. /\ Range(A) \cap Range(B) = {} /\ F \cap (Range(A) \cup Range(B)) = {}
        /\ Range(A) \cup Range(B) \cup F = Range(buf[q]) \cup G
    BY <1>10, <1>12, <1>13, <2>2, <2>4, <2>5
  <2>7. /\ pool' = pool \cup F /\ buf' = [buf EXCEPT ![q] = B]
        /\ pmd' = [pmd EXCEPT ![q] = @ \o A]
    BY <1>16, <2>1, <2>3, <2>4, <2>5 DEF EnqueueBurst
  <2>8. \A p \in G : p \in Range(A) \cup Range(B) => p \in LookasidePkts
    BY <1>10
  <2> QED
    BY ZenonT(30), <1>1, <1>10, <2>2, <2>4, <2>6, <2>7, <2>8, OfferMoves
<1>17. CASE /\ buf' = [buf EXCEPT ![q] = all] /\ pool' = pool \cup (G \ Range(ops))
            /\ UNCHANGED <<pmd, in_flight>>
  <2>1. PICK F : F = G \ Range(ops)
    OBVIOUS
  <2>2. /\ Range(none) \cap Range(all) = {} /\ F \cap (Range(none) \cup Range(all)) = {}
        /\ Range(none) \cup Range(all) \cup F = Range(buf[q]) \cup G
    BY <1>10, <1>12, <1>13, <1>14, <2>1
  <2>3. pmd' = [pmd EXCEPT ![q] = @ \o none]
    <3>1. pmd[q] \o none = pmd[q]
      BY <1>11, <1>14
    <3> QED
      BY <1>11, <1>17, <3>1
  <2>4. pool' = pool \cup F /\ buf' = [buf EXCEPT ![q] = all]
    BY <1>17, <2>1
  <2>5. \A p \in G : p \in Range(none) \cup Range(all) => p \in LookasidePkts
    BY <1>10
  <2> QED
    BY <1>1, <1>10, <1>13, <1>14, <2>2, <2>3, <2>4, <2>5, OfferMoves
<1> QED
  BY <1>9, <1>13, <1>15, <1>16, <1>17 DEF EnqueueCopBulk
-----------------------------------------------------------------------------
(* Every crypto buffer is offered to its device: of all buffered packets   *)
(* the set F is freed, the others are in the devices.                      *)
LEMMA DrainMoves ==
  ASSUME IInv, NEW k, NEW d, Placed(k, d), DrainCryptoBuffers
  PROVE  Moves(k)
<1>1. PICK acc \in [Qps -> 0 .. MAX_PKT_BURST] :
        /\ \A q \in Qps : acc[q] <= Room(q, buf[q])
        /\ pmd' = [q \in Qps |-> pmd[q] \o SubSeq(buf[q], 1, acc[q])]
        /\ pool' = pool \cup UNION {Rejected(buf[q], acc[q]) : q \in Qps}
  BY DEF DrainCryptoBuffers
<1>2. buf' = [q \in Qps |-> <<>>] /\ UNCHANGED <<out, todo, ol_pkts, cops>>
  BY DEF DrainCryptoBuffers, loop
<1>3. PICK F : F = UNION {Rejected(buf[q], acc[q]) : q \in Qps}
  OBVIOUS
<1> DEFINE k2 == [p \in Pkts |-> IF p \in F THEN "pool" ELSE IF k[p] = "buf" THEN "pmd" ELSE k[p]]
<1>4. /\ k2 \in [Pkts -> Kinds] /\ d \in [Pkts -> Qps]
      /\ \A p \in Pkts : k2[p] = IF p \in F THEN "pool"
                                 ELSE IF k[p] = "buf" THEN "pmd" ELSE k[p]
  BY DEF Placed, Kinds
<1> HIDE DEF k2
<1>5. ASSUME NEW q \in Qps
      PROVE  /\ Range(buf[q]) = Range(SubSeq(buf[q], 1, acc[q])) \cup Rejected(buf[q], acc[q])
             /\ Range(SubSeq(buf[q], 1, acc[q])) \cap Rejected(buf[q], acc[q]) = {}
             /\ Range(pmd'[q]) = Range(pmd[q]) \cup Range(SubSeq(buf[q], 1, acc[q]))
             /\ Distinct(pmd'[q])
             /\ Range(buf[q]) \subseteq Pkts
  <2>1. /\ buf[q] \in Seq(Pkts) /\ Distinct(buf[q]) /\ Range(buf[q]) \subseteq Pkts
        /\ pmd[q] \in Seq(Pkts) /\ Distinct(pmd[q]) /\ Range(pmd[q]) \subseteq Pkts
    BY ListFacts DEF IInv
  <2>2. acc[q] \in 0 .. Room(q, buf[q])
    <3>1. acc[q] \in Nat /\ Room(q, buf[q]) \in Int
      BY <2>1, ConstFacts DEF Room, Lesser
    <3> QED
      BY <1>1, <3>1
  <2>3. PICK A \in Seq(Pkts) :
          /\ A = SubSeq(buf[q], 1, acc[q]) /\ Distinct(A)
          /\ Range(buf[q]) = Range(A) \cup Rejected(buf[q], acc[q])
          /\ Range(A) \cap Rejected(buf[q], acc[q]) = {}
    BY <2>1, <2>2, PrefixPlaces
  <2>4. Range(pmd[q]) \cap Range(A) = {}
    <3>1. \A p \in Pkts : ~(p \in Range(buf[q]) /\ p \in Range(pmd[q]))
      BY DEF Placed, QueuesPlaced
    <3> QED
      BY <2>1, <2>3, <3>1
  <2>5. Range(pmd[q] \o A) = Range(pmd[q]) \cup Range(A) /\ Distinct(pmd[q] \o A)
    BY <2>1, <2>3, <2>4, ConcatPlaces
  <2>6. pmd'[q] = pmd[q] \o A
    BY <1>1, <2>3
  <2> QED
    BY <2>1, <2>3, <2>5, <2>6
<1>6. \A p \in F : \E q \in Qps : p \in Rejected(buf[q], acc[q])
  BY <1>3
<1>7. \A q \in Qps : Rejected(buf[q], acc[q]) \subseteq F
  BY <1>3
<1>8. \A p \in Pkts, q \in Qps : /\ p \in Range(buf[q]) <=> k[p] = "buf" /\ d[p] = q
                                 /\ p \in Range(pmd[q]) <=> k[p] = "pmd" /\ d[p] = q
  BY DEF Placed, QueuesPlaced
<1>9. \A p \in F : p \in Pkts /\ k[p] = "buf"
  BY <1>5, <1>6, <1>8
<1>10. SetsPlaced(k2)'
  BY <1>1, <1>2, <1>3, <1>4, <1>9 DEF Placed, SetsPlaced
<1>11. ListsPlaced(k2)'
  BY <1>2, <1>4, <1>9 DEF Placed, ListsPlaced
<1>12. QueuesPlaced(k2, d)'
  <2>1. ASSUME NEW p \in Pkts, NEW q \in Qps
        PROVE  /\ p \in Range(buf'[q]) <=> k2[p] = "buf" /\ d[p] = q
               /\ p \in Range(pmd'[q]) <=> k2[p] = "pmd" /\ d[p] = q
    <3>1. Range(buf'[q]) = {} /\ k2[p] # "buf"
      BY <1>2, <1>4, EmptyList
    <3>2. p \in Range(SubSeq(buf[q], 1, acc[q])) <=> p \in Range(buf[q]) /\ p \notin F
      <4>1. p \in Range(SubSeq(buf[q], 1, acc[q])) => p \notin F
        <5>1. SUFFICES ASSUME p \in F, p \in Range(SubSeq(buf[q], 1, acc[q])) PROVE FALSE
          OBVIOUS
        <5>2. PICK r \in Qps : p \in Rejected(buf[r], acc[r])
          BY <1>6, <5>1
        <5>3. d[p] = r /\ d[p] = q
          BY <1>5, <1>8, <5>1, <5>2
        <5> QED
          BY <1>5, <5>1, <5>2, <5>3
      <4> QED
        BY <1>5, <1>7, <4>1
    <3>3. p \in Range(pmd'[q]) <=> k2[p] = "pmd" /\ d[p] = q
      BY <1>4, <1>5, <1>8, <1>9, <3>2
    <3> QED
      BY <3>1, <3>3
  <2> QED
    BY <2>1 DEF QueuesPlaced
<1>13. SasFit(k2)'
  BY <1>4 DEF Placed, SasFit
<1>14. ListsDistinct'
  <2>1. ASSUME NEW q \in Qps PROVE Distinct(buf'[q]) /\ Distinct(pmd'[q])
    BY <1>2, <1>5, EmptyList
  <2> QED
    BY <1>2, <2>1 DEF Placed, ListsDistinct
<1>15. ASSUME NEW p \in Pkts PROVE Allowed(p, k[p], k2[p])
  <2>1. k[p] = "buf" => p \in LookasidePkts
    BY DEF Placed, SasFit
  <2> QED
    BY <1>4, <1>9, <2>1, AllowedMoves
<1>16. Placed(k2, d)'
  BY <1>4, <1>10, <1>11, <1>12, <1>13, <1>14 DEF Placed
<1> QED
  BY <1>4, <1>15, <1>16 DEF Moves

(* The oldest operations X of a device are taken: those of O go to         *)
(* routing, those of F are freed, the others are collected.                *)
LEMMA TakeMoves ==
  ASSUME IInv, NEW k, NEW d, Placed(k, d), NEW q \in Qps, NEW n \in Nat, n <= Len(pmd[q]),
         NEW X \in Seq(Pkts), X = SubSeq(pmd[q], 1, n),
         NEW O, NEW F, O \cap F = {}, O \cup F \subseteq Range(X),
         out' = out \cup O, pool' = pool \cup F,
         Distinct(cops'), Range(cops') = Range(cops) \cup (Range(X) \ (O \cup F)),
         pmd' = [pmd EXCEPT ![q] = SubSeq(@, n + 1, Len(@))],
         UNCHANGED <<buf, todo, ol_pkts>>
  PROVE  Moves(k)
<1> PICK RX : RX = Range(X)
  OBVIOUS
<1> DEFINE k2 == [p \in Pkts |-> IF p \in O THEN "out" ELSE IF p \in F THEN "pool"
                                 ELSE IF p \in RX THEN "cops" ELSE k[p]]
<1>1. /\ k2 \in [Pkts -> Kinds] /\ d \in [Pkts -> Qps]
      /\ \A p \in Pkts : k2[p] = IF p \in O THEN "out" ELSE IF p \in F THEN "pool"
                                 ELSE IF p \in RX THEN "cops" ELSE k[p]
  BY DEF Placed, Kinds
<1> HIDE DEF k2
<1>2. pmd \in [Qps -> Seq(Pkts)] /\ pmd[q] \in Seq(Pkts) /\ Distinct(pmd[q])
  <2>1. pmd \in [Qps -> Seq(Pkts)]
    BY DEF IInv, TypeOK
  <2> QED
    BY <2>1, ListFacts DEF IInv
<1>3. PICK rest \in Seq(Pkts) :
        /\ rest = SubSeq(pmd[q], n + 1, Len(pmd[q])) /\ Distinct(rest)
        /\ Range(pmd[q]) = RX \cup Range(rest) /\ RX \cap Range(rest) = {}
  <2>1. PICK s : s = pmd[q]
    OBVIOUS
  <2>2. s \in Seq(Pkts) /\ Distinct(s) /\ n <= Len(s) /\ X = SubSeq(s, 1, n)
    BY <1>2, <2>1
  <2>3. /\ SubSeq(s, n + 1, Len(s)) \in Seq(Pkts) /\ Distinct(SubSeq(s, n + 1, Len(s)))
        /\ Range(s) = Range(SubSeq(s, 1, n)) \cup Range(SubSeq(s, n + 1, Len(s)))
        /\ Range(SubSeq(s, 1, n)) \cap Range(SubSeq(s, n + 1, Len(s))) = {}
    BY <2>2, SplitPlaces
  <2> QED
    BY <2>1, <2>2, <2>3
<1>4. pmd'[q] = rest /\ \A r \in Qps : r # q => pmd'[r] = pmd[r]
  BY <1>2, <1>3
<1>5. \A p \in Pkts, r \in Qps : /\ p \in Range(buf[r]) <=> k[p] = "buf" /\ d[p] = r
                                 /\ p \in Range(pmd[r]) <=> k[p] = "pmd" /\ d[p] = r
  BY DEF Placed, QueuesPlaced
<1>6. ASSUME NEW p \in RX PROVE p \in Pkts /\ k[p] = "pmd" /\ d[p] = q /\ p \in LookasidePkts
  <2>1. p \in Range(pmd[q]) /\ p \in Pkts
    BY <1>3, ListFacts DEF IInv
  <2>2. k[p] = "pmd" /\ d[p] = q
    BY <1>5, <2>1
  <2> QED
    BY <2>1, <2>2 DEF Placed, SasFit
<1>7. O \subseteq RX /\ F \subseteq RX /\ O \cap F = {}
  OBVIOUS
<1>8. SetsPlaced(k2)'
  BY <1>1, <1>6, <1>7 DEF Placed, SetsPlaced
<1>9. ListsPlaced(k2)'
  <2>1. Range(cops') = Range(cops) \cup (RX \ (O \cup F))
    OBVIOUS
  <2> QED
    BY <1>1, <1>6, <1>7, <2>1 DEF Placed, ListsPlaced
<1>10. QueuesPlaced(k2, d)'
  <2>1. ASSUME NEW p \in Pkts, NEW r \in Qps
        PROVE  /\ p \in Range(buf'[r]) <=> k2[p] = "buf" /\ d[p] = r
               /\ p \in Range(pmd'[r]) <=> k2[p] = "pmd" /\ d[p] = r
    <3>1. p \in Range(buf'[r]) <=> k2[p] = "buf" /\ d[p] = r
      BY <1>1, <1>5, <1>6, <1>7
    <3>2. CASE r # q
      BY <1>1, <1>4, <1>5, <1>6, <1>7, <3>1, <3>2
    <3>3. CASE r = q
      <4>1. p \in Range(pmd'[r]) <=> p \in Range(pmd[q]) /\ p \notin RX
        BY <1>3, <1>4, <3>3
      <4>2. p \notin RX => k2[p] = k[p]
        BY <1>1, <1>7
      <4>3. p \in RX => k2[p] # "pmd"
        BY <1>1
      <4> QED
        BY <1>5, <3>1, <3>3, <4>1, <4>2, <4>3
    <3> QED
      BY <3>2, <3>3
  <2> QED
    BY <2>1 DEF QueuesPlaced
<1>11. SasFit(k2)'
  BY <1>1, <1>6, <1>7 DEF Placed, SasFit
<1>12. ListsDistinct'
  <2>1. ASSUME NEW r \in Qps PROVE Distinct(pmd'[r])
    BY <1>3, <1>4 DEF Placed, ListsDistinct
  <2> QED
    BY <2>1 DEF Placed, ListsDistinct
<1>13. ASSUME NEW p \in Pkts PROVE Allowed(p, k[p], k2[p])
  <2>1. CASE p \in RX
    BY <1>1, <1>6, <1>7, <2>1, AllowedMoves
  <2>2. CASE p \notin RX
    BY <1>1, <1>7, <2>2, AllowedMoves
  <2> QED
    BY <2>1, <2>2
<1>14. Placed(k2, d)'
  BY <1>1, <1>8, <1>9, <1>10, <1>11, <1>12 DEF Placed
<1> QED
  BY <1>1, <1>13, <1>14 DEF Moves

(* What a dequeue takes is a prefix of the device's queue. *)
LEMMA DequeuedFacts ==
  ASSUME IInv, NEW q \in Qps, NEW max \in Nat
  PROVE  Dequeued(q, max) \in Nat /\ Dequeued(q, max) <= Len(pmd[q])
  BY QueueFacts DEF IInv, Dequeued, Lesser

LEMMA DequeueQpMoves ==
  ASSUME IInv, NEW k, NEW d, Placed(k, d), DequeueQp
  PROVE  Moves(k)
<1>1. PICK q \in Qps : q = last_qp
  BY DEF IInv, TypeOK
<1>2. PICK n : n = Dequeued(q, DequeueMax - nb)
  OBVIOUS
<1>3. n \in Nat /\ n <= Len(pmd[q])
  <2>1. DequeueMax - nb \in Nat
    BY ConstFacts DEF IInv, TypeOK, DequeueMax
  <2> QED
    BY <1>2, <2>1, DequeuedFacts
<1>4. PICK X \in Seq(Pkts) : /\ X = SubSeq(pmd[q], 1, n) /\ Distinct(X)
                             /\ DOMAIN X = 1 .. n
  <2>1. pmd[q] \in Seq(Pkts) /\ Distinct(pmd[q])
    BY ListFacts DEF IInv
  <2>2. /\ SubSeq(pmd[q], 1, n) \in Seq(Pkts) /\ Distinct(SubSeq(pmd[q], 1, n))
        /\ Len(SubSeq(pmd[q], 1, n)) = n
    BY <1>3, <2>1, SplitPlaces
  <2>3. DOMAIN SubSeq(pmd[q], 1, n) = 1 .. n
    BY <1>3, <2>2
  <2> QED
    BY <2>2, <2>3
<1>5. /\ TakeFrom(q, n) /\ UNCHANGED <<buf, todo, ol_pkts, cops>>
      /\ \E bad \in SUBSET (1 .. n) : /\ out' = out \cup {X[j] : j \in (1 .. n) \ bad}
                                      /\ pool' = pool \cup {X[j] : j \in bad}
  BY <1>1, <1>2, <1>4 DEF DequeueQp
<1>6. PICK bad \in SUBSET (1 .. n) : /\ out' = out \cup {X[j] : j \in (1 .. n) \ bad}
                                     /\ pool' = pool \cup {X[j] : j \in bad}
  BY <1>5
<1>7. PICK O : O = {X[j] : j \in (1 .. n) \ bad}
  OBVIOUS
<1>8. PICK F : F = {X[j] : j \in bad}
  OBVIOUS
<1>9. O \cap F = {}
  BY <1>4, <1>7, <1>8 DEF Distinct
<1>10. O \cup F = Range(X)
  BY <1>4, <1>7, <1>8 DEF Range
<1>11. Distinct(cops') /\ Range(cops') = Range(cops) \cup (Range(X) \ (O \cup F))
  BY <1>5, <1>10, ListFacts DEF IInv
<1>12. out' = out \cup O /\ pool' = pool \cup F
  BY <1>6, <1>7, <1>8
<1>13. pmd' = [pmd EXCEPT ![q] = SubSeq(@, n + 1, Len(@))]
  BY <1>5 DEF TakeFrom
<1> QED
  BY <1>3, <1>4, <1>5, <1>9, <1>10, <1>11, <1>12, <1>13, TakeMoves

LEMMA CqpDequeueMoves ==
  ASSUME IInv, NEW k, NEW d, Placed(k, d), iq \in Qps, CqpDequeue,
         UNCHANGED <<buf, todo, ol_pkts, pool, out>>
  PROVE  Moves(k)
<1>1. PICK q \in Qps : q = iq
  OBVIOUS
<1>2. PICK n : n = Dequeued(q, DequeueMax - Len(cops))
  OBVIOUS
<1>3. n \in Nat /\ n <= Len(pmd[q])
  <2>1. DequeueMax - Len(cops) \in Nat
    BY ConstFacts DEF IInv, TypeOK, DequeueMax
  <2> QED
    BY <1>2, <2>1, DequeuedFacts
<1>4. pmd[q] \in Seq(Pkts) /\ Distinct(pmd[q]) /\ Range(pmd[q]) \subseteq Pkts
      /\ cops \in Seq(Pkts) /\ Distinct(cops)
  BY ListFacts DEF IInv
<1>5. PICK X \in Seq(Pkts) : /\ X = SubSeq(pmd[q], 1, n) /\ Distinct(X)
                             /\ Range(X) \subseteq Range(pmd[q])
  <2>1. /\ SubSeq(pmd[q], 1, n) \in Seq(Pkts) /\ Distinct(SubSeq(pmd[q], 1, n))
        /\ Range(SubSeq(pmd[q], 1, n)) \subseteq Range(pmd[q])
    BY <1>3, <1>4, SplitPlaces
  <2> QED
    BY <2>1
<1>6. TakeFrom(q, n) /\ cops' = cops \o X
  BY <1>1, <1>2, <1>5 DEF CqpDequeue
<1>7. Range(cops) \cap Range(X) = {}
  <2>1. \A p \in Pkts : ~(p \in Range(cops) /\ p \in Range(pmd[q]))
    BY DEF Placed, ListsPlaced, QueuesPlaced
  <2> QED
    BY <1>4, <1>5, <2>1
<1>8. Distinct(cops') /\ Range(cops') = Range(cops) \cup Range(X)
  BY <1>4, <1>5, <1>6, <1>7, ConcatPlaces
<1>9. PICK O : O = {}
  OBVIOUS
<1>10. /\ O \cap O = {} /\ O \cup O \subseteq Range(X)
       /\ out' = out \cup O /\ pool' = pool \cup O
       /\ Range(cops') = Range(cops) \cup (Range(X) \ (O \cup O))
  BY <1>8, <1>9
<1>11. pmd' = [pmd EXCEPT ![q] = SubSeq(@, n + 1, Len(@))]
  BY <1>6 DEF TakeFrom
<1> QED
  BY <1>3, <1>5, <1>8, <1>10, <1>11, TakeMoves

LEMMA CtxDequeueMoves ==
  ASSUME IInv, NEW k, NEW d, Placed(k, d), CtxDequeueFirst \/ CtxDequeueSecond
  PROVE  Moves(k)
<1>1. UNCHANGED <<pool, out, todo, ol_pkts, buf>>
  BY DEF CtxDequeueFirst, CtxDequeueSecond
<1>2. CASE UNCHANGED <<pmd, cops>>
  BY <1>1, <1>2, StillMoves
<1>3. CASE iq \in Qps /\ CqpDequeue
  BY <1>1, <1>3, CqpDequeueMoves
<1>4. /\ NbQps \in Nat /\ iq \in 0 .. NbQps /\ last_qp \in 0 .. NbQps - 1
      /\ pc = "dequeue2" => iq <= last_qp
  BY ConstFacts DEF IInv, TypeOK, LoopBound, Qps
<1>5. CASE CtxDequeueFirst
  <2>1. iq # NbQps => iq \in Qps
    BY <1>4 DEF Qps
  <2> QED
    BY <1>2, <1>3, <1>5, <2>1 DEF CtxDequeueFirst
<1>6. CASE CtxDequeueSecond
  <2>1. pc = "dequeue2" /\ iq # last_qp => iq \in Qps
    BY <1>4 DEF Qps
  <2> QED
    BY <1>2, <1>3, <1>6, <2>1 DEF CtxDequeueSecond
<1> QED
  BY <1>5, <1>6
-----------------------------------------------------------------------------
(* A burst is handled to its last packet before the lcore goes on. *)
BurstDone == pc # "enqueue" => todo = <<>>

LifeInv == IInv /\ BurstDone /\ \E k \in [Pkts -> Kinds], d \in [Pkts -> Qps] : Placed(k, d)

LEMMA NextBurstDone == BurstDone /\ [Next]_vars => BurstDone'
<1>1. ASSUME BurstDone, Lcore PROVE BurstDone'
  <2>1. CASE DrainSkip \/ DrainCryptoBuffers \/ RxBurst
    BY <1>1, <2>1 DEF DrainSkip, DrainCryptoBuffers, RxBurst, BurstDone
  <2>2. CASE LegacyStep
    BY <1>1, <2>2 DEF LegacyStep, EnqueueDiscard, EnqueueInline, EnqueueLookaside, EnqueueEnd,
       InlineDequeue, InlineEnd, DequeueQp, DequeueEnd, BurstDone
  <2>3. CASE LibraryStep
    BY <1>1, <2>3 DEF LibraryStep, GroupDiscard, GroupCrypto, GroupSync, GroupEnd,
       CtxDequeueFirst, CtxDequeueSecond, CqpProcess, BurstDone
  <2> QED
    BY <1>1, <2>1, <2>2, <2>3 DEF Lcore
<1>2. ASSUME BurstDone, TxDone \/ (\E q \in Qps : PmdComplete(q)) \/ UNCHANGED vars
      PROVE  BurstDone'
  BY <1>2 DEF TxDone, PmdComplete, BurstDone, vars
<1> QED
  BY <1>1, <1>2 DEF Next

(* Every step moves mbufs as it may. *)
LEMMA StepMoves ==
  ASSUME IInv, BurstDone, NEW k, NEW d, Placed(k, d), [Next]_vars
  PROVE  Moves(k)
<1>1. CASE UNCHANGED <<pool, out, todo, ol_pkts, cops, buf, pmd>>
  BY <1>1, StillMoves
<1>2. CASE DrainSkip \/ EnqueueEnd \/ InlineEnd \/ DequeueEnd \/ GroupEnd
  BY <1>1, <1>2 DEF DrainSkip, EnqueueEnd, InlineEnd, DequeueEnd, GroupEnd, queues, loop
<1>3. CASE (\E q \in Qps : PmdComplete(q)) \/ UNCHANGED vars
  BY <1>1, <1>3 DEF PmdComplete, vars, queues, loop
<1>4. CASE RxBurst
  <2>1. todo = <<>>
    BY <1>4 DEF RxBurst, BurstDone
  <2> QED
    BY <1>4, <2>1, RxBurstMoves
<1>5. CASE DrainCryptoBuffers \/ TxDone
  BY <1>5, DrainMoves, TxDoneMoves
<1>6. CASE LegacyStep
  BY <1>2, <1>6, DiscardMoves, InlineMoves, LookasideMoves, InlineDequeueMoves, DequeueQpMoves
     DEF LegacyStep
<1>7. CASE LibraryStep
  BY <1>2, <1>7, GroupStepMoves, CryptoMoves, CtxDequeueMoves, CqpProcessMoves
     DEF LibraryStep
<1> QED
  BY <1>2, <1>3, <1>4, <1>5, <1>6, <1>7 DEF Next, Lcore

(* Every mbuf has one place and no list holds one twice, at every step. *)
THEOREM SpecLifeInv == Spec => []LifeInv
<1>1. Init => LifeInv
  BY InitIInv, InitPlaced DEF LifeInv, BurstDone, Init
<1>2. LifeInv /\ [Next]_vars => LifeInv'
  BY NextIInv, NextBurstDone, StepMoves DEF LifeInv, Moves
<1> QED
  BY <1>1, <1>2, PTL DEF Spec
-----------------------------------------------------------------------------
(* The slots of an mbuf in a list. *)
LEMMA SlotFacts ==
  ASSUME NEW name, NEW q, NEW s, NEW p
  PROVE  /\ p \notin Range(s) => Slots(name, q, s, p) = {}
         /\ p \in Range(s) /\ Distinct(s) => \E w : Slots(name, q, s, p) = {w}
<1>1. ASSUME p \notin Range(s) PROVE Slots(name, q, s, p) = {}
  BY <1>1 DEF Slots, Range
<1>2. ASSUME p \in Range(s), Distinct(s) PROVE \E w : Slots(name, q, s, p) = {w}
  <2>1. PICK i \in DOMAIN s : s[i] = p
    BY <1>2 DEF Range
  <2>2. {j \in DOMAIN s : s[j] = p} = {i}
    BY <1>2, <2>1 DEF Distinct
  <2>3. Slots(name, q, s, p) = {<<name, q, i>>}
    BY <2>2 DEF Slots
  <2> QED
    BY <2>3
<1> QED
  BY <1>1, <1>2

LEMMA PlacedAccounted ==
  ASSUME NEW k, NEW d, Placed(k, d)
  PROVE  MbufAccounted
<1> SUFFICES ASSUME NEW p \in Pkts PROVE \E w \in Where(p) : Where(p) = {w}
  BY DEF MbufAccounted
<1> DEFINE P == {<<"pool", 0, 0>> : x \in pool \cap {p}}
           O == {<<"out", 0, 0>> : x \in out \cap {p}}
           T == Slots("todo", 0, todo, p)
           L == Slots("ol", 0, ol_pkts, p)
           C == Slots("cops", 0, cops, p)
           B(q) == Slots("buf", q, buf[q], p)
           M(q) == Slots("pmd", q, pmd[q], p)
           Q == UNION {B(q) \cup M(q) : q \in Qps}
<1>1. Where(p) = P \cup O \cup T \cup L \cup C \cup Q
  BY DEF Where
<1>2. /\ k[p] # "pool" => P = {}
      /\ k[p] = "pool" => P = {<<"pool", 0, 0>>}
      /\ k[p] # "out" => O = {}
      /\ k[p] = "out" => O = {<<"out", 0, 0>>}
  BY DEF Placed, SetsPlaced
<1>3. /\ k[p] # "todo" => T = {}
      /\ k[p] = "todo" => \E w : T = {w}
  <2>1. (p \in Range(todo) <=> k[p] = "todo") /\ Distinct(todo)
    BY DEF Placed, ListsPlaced, ListsDistinct
  <2> QED
    BY <2>1, SlotFacts
<1>4. /\ k[p] # "ol" => L = {}
      /\ k[p] = "ol" => \E w : L = {w}
  <2>1. (p \in Range(ol_pkts) <=> k[p] = "ol") /\ Distinct(ol_pkts)
    BY DEF Placed, ListsPlaced, ListsDistinct
  <2> QED
    BY <2>1, SlotFacts
<1>5. /\ k[p] # "cops" => C = {}
      /\ k[p] = "cops" => \E w : C = {w}
  <2>1. (p \in Range(cops) <=> k[p] = "cops") /\ Distinct(cops)
    BY DEF Placed, ListsPlaced, ListsDistinct
  <2> QED
    BY <2>1, SlotFacts
<1>6. ASSUME NEW q \in Qps
      PROVE  /\ ~(k[p] = "buf" /\ d[p] = q) => B(q) = {}
             /\ k[p] = "buf" /\ d[p] = q => \E w : B(q) = {w}
             /\ ~(k[p] = "pmd" /\ d[p] = q) => M(q) = {}
             /\ k[p] = "pmd" /\ d[p] = q => \E w : M(q) = {w}
  <2>1. /\ p \in Range(buf[q]) <=> k[p] = "buf" /\ d[p] = q
        /\ p \in Range(pmd[q]) <=> k[p] = "pmd" /\ d[p] = q
        /\ Distinct(buf[q]) /\ Distinct(pmd[q])
    BY DEF Placed, QueuesPlaced, ListsDistinct
  <2> QED
    BY <2>1, SlotFacts
<1> HIDE DEF P, O, T, L, C, B, M
<1>7. /\ k[p] \notin {"buf", "pmd"} => Q = {}
      /\ k[p] \in {"buf", "pmd"} => \E w : Q = {w}
  <2>1. CASE k[p] \notin {"buf", "pmd"}
    <3>1. \A q \in Qps : B(q) = {} /\ M(q) = {}
      BY <1>6, <2>1
    <3> QED
      BY <2>1, <3>1
  <2>2. CASE k[p] \in {"buf", "pmd"}
    <3>1. PICK r \in Qps : r = d[p]
      BY DEF Placed
    <3>2. \A q \in Qps : q # r => B(q) \cup M(q) = {}
      BY <1>6, <3>1
    <3>3. PICK w : B(r) \cup M(r) = {w}
      BY <1>6, <2>2, <3>1
    <3>4. Q = {w}
      BY <3>2, <3>3
    <3> QED
      BY <2>2, <3>4
  <2> QED
    BY <2>1, <2>2
<1> HIDE DEF Q
<1>8. k[p] \in Kinds
  BY DEF Placed
<1>9. \E w : Where(p) = {w}
  BY <1>1, <1>2, <1>3, <1>4, <1>5, <1>7, <1>8 DEF Kinds
<1> QED
  BY <1>9

(* No mbuf is leaked or owned twice, whatever the devices accept, refuse   *)
(* and complete: exactly one slot of one queue, burst or the pool holds it. *)
THEOREM EveryMbufAccounted == Spec => []MbufAccounted
<1>1. LifeInv => MbufAccounted
  BY PlacedAccounted DEF LifeInv
<1> QED
  BY <1>1, SpecLifeInv, PTL

LEMMA PlaceIsStage ==
  ASSUME NEW k, NEW d, Placed(k, d), NEW p \in Pkts
  PROVE  AbstractPlace(p) = Stage(k[p]) /\ Stage(k[p]) \in Life!Place
<1>1. /\ k[p] \in Kinds
      /\ p \in pool <=> k[p] = "pool"
      /\ p \in out <=> k[p] = "out"
      /\ p \in Range(todo) <=> k[p] = "todo"
      /\ p \in Range(ol_pkts) <=> k[p] = "ol"
  BY DEF Placed, SetsPlaced, ListsPlaced
<1>2. AbstractPlace(p) = Stage(k[p])
  BY <1>1 DEF AbstractPlace, Stage, Kinds
<1>3. Stage(k[p]) \in Life!Place
  BY <1>1 DEF Stage, Kinds, Life!Place
<1> QED
  BY <1>2, <1>3

LEMMA NextStage ==
  ASSUME NEW k, NEW d, Placed(k, d)', NEW p \in Pkts
  PROVE  AbstractPlace(p)' = Stage(k[p]) /\ Stage(k[p]) \in Life!Place
<1>1. /\ k[p] \in Kinds
      /\ p \in pool' <=> k[p] = "pool"
      /\ p \in out' <=> k[p] = "out"
      /\ p \in Range(todo') <=> k[p] = "todo"
      /\ p \in Range(ol_pkts') <=> k[p] = "ol"
  BY DEF Placed, SetsPlaced, ListsPlaced
<1>2. AbstractPlace(p)' = Stage(k[p])
  BY <1>1 DEF AbstractPlace, Stage, Kinds
<1>3. Stage(k[p]) \in Life!Place
  BY <1>1 DEF Stage, Kinds, Life!Place
<1> QED
  BY <1>2, <1>3

(* The IPsec context implements PktLife: whatever the loops, the buffers   *)
(* and the devices do, every step moves every mbuf as PktLife allows.      *)
THEOREM ContextImplementsLife == Spec => ImplementsLife
<1>1. Init => Life!Init
  <2>1. ASSUME Init, NEW p \in Pkts PROVE AbstractPlace(p) = "pool"
    BY <2>1 DEF Init, AbstractPlace
  <2> QED
    BY <2>1 DEF Life!Init
<1>2. LifeInv /\ [Next]_vars => [Life!Next]_([p \in Pkts |-> AbstractPlace(p)])
  <2> SUFFICES ASSUME LifeInv, [Next]_vars PROVE Life!Next
    OBVIOUS
  <2>1. PICK k \in [Pkts -> Kinds], d \in [Pkts -> Qps] : Placed(k, d)
    BY DEF LifeInv
  <2>2. PICK k2 \in [Pkts -> Kinds], d2 \in [Pkts -> Qps] :
          Placed(k2, d2)' /\ \A p \in Pkts : Allowed(p, k[p], k2[p])
    BY <2>1, StepMoves DEF LifeInv, Moves
  <2>3. ASSUME NEW p \in Pkts
        PROVE  AbstractPlace(p) = Stage(k[p]) /\ Stage(k[p]) \in Life!Place
    BY <2>1, PlaceIsStage
  <2>4. ASSUME NEW p \in Pkts
        PROVE  AbstractPlace(p)' = Stage(k2[p]) /\ Stage(k2[p]) \in Life!Place
    BY <2>2, NextStage
  <2> QED
    BY <2>2, <2>3, <2>4 DEF Allowed, Life!Next
<1> QED
  BY <1>1, <1>2, SpecLifeInv, PTL DEF Spec, ImplementsLife, Life!Spec
=============================================================================
