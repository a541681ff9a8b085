------------------------------ MODULE IpsecCtx ------------------------------
(***************************************************************************)
(* One struct ipsec_ctx of one polling lcore (the inbound or the outbound  *)
(* one: they are alike) and the crypto device queue pairs it owns, from    *)
(* the moment a burst of packets is handed to ipsec_inbound() /            *)
(* ipsec_outbound() / ipsec_process() to the moment the packets are handed *)
(* to routing or freed.                                                    *)
(*                                                                         *)
(* The lcore is one thread; each iteration of each of its loops is one     *)
(* action, so that the crypto PMD (an external device that completes       *)
(* operations on its own) interleaves with it everywhere.  A packet is     *)
(* named by its mbuf: an mbuf that is freed or transmitted goes back to    *)
(* the pool and carries another packet later.                              *)
(***************************************************************************)
EXTENDS Integers, Sequences, FiniteSets, Functions

CONSTANTS
  Pkts,          \* the mbufs of the pool
  NbQps,         \* ipsec_ctx.nb_qps
  MAX_PKT_BURST, \* size of cdev_qp.buf, ol_pkts and of an RX burst
  PmdDepth,      \* descriptors of a crypto queue pair (CDEV_QUEUE_DESC)
  SaPtrs,        \* SA pointers, the fallback flag bit included
  NoSa,          \* the NULL SA pointer
  SaOf,          \* the SA pointer the lookup returns for the packet of an mbuf
  SaType,        \* the action type of the session the SA pointer selects
  SaQp           \* sa->cdev_id_qp

LookasideType == {"NONE", "LOOKASIDE_PROTOCOL"}
InlineType    == {"INLINE_CRYPTO", "INLINE_PROTOCOL"}
ActionType    == LookasideType \cup InlineType \cup {"CPU_CRYPTO"}
Qps           == 0 .. NbQps - 1

ASSUME CtxAssumption ==
  /\ NbQps \in Nat \ {0}
  /\ MAX_PKT_BURST \in Nat \ {0}
  /\ PmdDepth \in Nat \ {0}
  /\ NoSa \notin SaPtrs
  /\ SaOf \in [Pkts -> SaPtrs \cup {NoSa}]
  /\ SaType \in [SaPtrs -> ActionType]
  /\ SaQp \in [SaPtrs -> Qps]

VARIABLES
  enable,    \* app_sa_prm.enable, from the command line: library mode, else legacy
  pc,        \* where the lcore is in its polling loop
  pool,      \* mbufs that are free
  todo,      \* packets of the current burst not handled yet
  buf,       \* cdev_qp.buf[0 .. len-1] of each queue pair
  in_flight, \* cdev_qp.in_flight
  pmd,       \* operations inside the device, oldest first
  ready,     \* how many of them are completed
  ol_pkts,   \* ipsec_ctx.ol_pkts[0 .. ol_pkts_cnt-1]
  last_qp,   \* ipsec_ctx.last_qp
  iq,        \* loop index over the queue pairs
  nb,        \* packets returned so far by the running dequeue
  cops,      \* operations collected by ctx_dequeue
  out        \* packets handed to routing and not yet transmitted

queues == <<buf, in_flight, pmd, ready>>
loop   == <<last_qp, iq, nb, cops>>
vars   == <<enable, pc, pool, todo, queues, ol_pkts, loop, out>>

PC == {"drain", "rx", "enqueue", "inline", "dequeue", "dequeue2", "process"}

(* Mutant: the dequeue array holds one burst only. *)
DequeueMaxOneBurst == MAX_PKT_BURST

(* RTE_DIM(trf.ipsec.pkts): what one dequeue returns at most. *)
DequeueMax == 2 * MAX_PKT_BURST

Lesser(a, b) == IF a <= b THEN a ELSE b

Init ==
  /\ enable \in BOOLEAN
  /\ pc = "drain"
  /\ pool = Pkts
  /\ todo = <<>>
  /\ buf = [q \in Qps |-> <<>>]
  /\ in_flight = [q \in Qps |-> 0]
  /\ pmd = [q \in Qps |-> <<>>]
  /\ ready = [q \in Qps |-> 0]
  /\ ol_pkts = <<>>
  /\ last_qp = 0 /\ iq = 0 /\ nb = 0
  /\ cops = <<>>
  /\ out = {}
-----------------------------------------------------------------------------
(* The crypto PMD, an external device: rte_cryptodev_enqueue_burst accepts *)
(* any prefix of a burst that fits, operations complete in order.          *)

Room(q, ops) == Lesser(Len(ops), PmdDepth - Len(pmd[q]))

(* Mutant: the operations the device refused are forgotten. *)
RejectedLeaked(ops, acc) == {}

Rejected(ops, acc) == Range(SubSeq(ops, acc + 1, Len(ops)))

PmdComplete(q) ==
  /\ ready[q] < Len(pmd[q])
  /\ ready' = [ready EXCEPT ![q] = @ + 1]
  /\ UNCHANGED <<enable, pc, pool, todo, buf, in_flight, pmd, ol_pkts, loop, out>>

(* Mutant: the refused operations are counted as in flight too. *)
EnqueueBurstCountsOffered(q, ops, acc, bad) ==
  /\ pmd' = [pmd EXCEPT ![q] = @ \o SubSeq(ops, 1, acc)]
  /\ in_flight' = [in_flight EXCEPT ![q] = @ + Len(ops)]
  /\ pool' = pool \cup bad \cup Rejected(ops, acc)

(* enqueue_cop_burst, and the two enqueues of enqueue_cop_bulk: ops are    *)
(* offered to the PMD, in_flight grows by what it took, the rest is freed  *)
(* along with the packets the caller could not prepare (bad).              *)
EnqueueBurst(q, ops, acc, bad) ==
  /\ pmd' = [pmd EXCEPT ![q] = @ \o SubSeq(ops, 1, acc)]
  /\ in_flight' = [in_flight EXCEPT ![q] = @ + acc]
  /\ pool' = pool \cup bad \cup Rejected(ops, acc)
-----------------------------------------------------------------------------
(* Top of the polling loop: when more than BURST_TX_DRAIN_US passed since  *)
(* the last drain every non-empty crypto buffer is flushed.                *)

DrainSkip ==
  /\ pc = "drain"
  /\ pc' = "rx"
  /\ UNCHANGED <<enable, pool, todo, queues, ol_pkts, loop, out>>

DrainCryptoBuffers ==
  /\ pc = "drain"
  /\ \E acc \in [Qps -> 0 .. MAX_PKT_BURST] :
       /\ \A q \in Qps : acc[q] <= Room(q, buf[q])
       /\ pmd' = [q \in Qps |-> pmd[q] \o SubSeq(buf[q], 1, acc[q])]
       /\ in_flight' = [q \in Qps |-> in_flight[q] + acc[q]]
       /\ pool' = pool \cup UNION {Rejected(buf[q], acc[q]) : q \in Qps}
  /\ buf' = [q \in Qps |-> <<>>]
  /\ pc' = "rx"
  /\ UNCHANGED <<enable, todo, ready, ol_pkts, loop, out>>

(* rte_eth_rx_burst: the NIC fills free mbufs, at most one burst of them. *)
RxBurst ==
  /\ pc = "rx"
  /\ \E k \in 0 .. MAX_PKT_BURST : \E burst \in [1 .. k -> pool] :
       /\ \A i, j \in 1 .. k : burst[i] = burst[j] => i = j
       /\ todo' = burst
       /\ pool' = pool \ Range(burst)
  /\ pc' = "enqueue"
  /\ UNCHANGED <<enable, queues, ol_pkts, loop, out>>
-----------------------------------------------------------------------------
(* Legacy mode: ipsec_enqueue, one iteration per packet. *)

(* No SA, CPU crypto, no session, a bad UDP encapsulation, a failed        *)
(* transformation: the packet is freed.  Only inline protocol cannot fail. *)
MayDiscard(s) == s # NoSa => SaType[s] # "INLINE_PROTOCOL"

(* Mutant: the packet is handed to routing untransformed. *)
EnqueueDiscardForwards ==
  /\ pc = "enqueue" /\ ~enable /\ todo # <<>>
  /\ MayDiscard(SaOf[Head(todo)])
  /\ out' = out \cup {Head(todo)}
  /\ todo' = Tail(todo)
  /\ UNCHANGED <<enable, pc, pool, queues, ol_pkts, loop>>

EnqueueDiscard ==
  /\ pc = "enqueue" /\ ~enable /\ todo # <<>>
  /\ MayDiscard(SaOf[Head(todo)])
  /\ pool' = pool \cup {Head(todo)}
  /\ todo' = Tail(todo)
  /\ UNCHANGED <<enable, pc, queues, ol_pkts, loop, out>>

EnqueueInline ==
  /\ pc = "enqueue" /\ ~enable /\ todo # <<>>
  /\ SaOf[Head(todo)] # NoSa
  /\ SaType[SaOf[Head(todo)]] \in InlineType
  /\ ol_pkts' = Append(ol_pkts, Head(todo))
  /\ todo' = Tail(todo)
  /\ UNCHANGED <<enable, pc, pool, queues, loop, out>>

(* Mutant: the buffer is flushed one packet late. *)
EnqueueCopLate(q, p) ==
  LET ops == Append(buf[q], p) IN
  \/ /\ Len(ops) > MAX_PKT_BURST
     /\ \E acc \in 0 .. Room(q, ops) : EnqueueBurst(q, ops, acc, {})
     /\ buf' = [buf EXCEPT ![q] = <<>>]
  \/ /\ Len(ops) <= MAX_PKT_BURST
     /\ buf' = [buf EXCEPT ![q] = ops]
     /\ UNCHANGED <<pmd, in_flight, pool>>

(* enqueue_cop: the buffer is flushed as soon as it is full. *)
EnqueueCop(q, p) ==
  LET ops == Append(buf[q], p) IN
  \/ /\ Len(ops) = MAX_PKT_BURST
     /\ \E acc \in 0 .. Room(q, ops) : EnqueueBurst(q, ops, acc, {})
     /\ buf' = [buf EXCEPT ![q] = <<>>]
  \/ /\ Len(ops) # MAX_PKT_BURST
     /\ buf' = [buf EXCEPT ![q] = ops]
     /\ UNCHANGED <<pmd, in_flight, pool>>

EnqueueLookaside ==
  /\ pc = "enqueue" /\ ~enable /\ todo # <<>>
  /\ SaOf[Head(todo)] # NoSa
  /\ SaType[SaOf[Head(todo)]] \in LookasideType
  /\ EnqueueCop(SaQp[SaOf[Head(todo)]], Head(todo))
  /\ todo' = Tail(todo)
  /\ UNCHANGED <<enable, pc, ready, ol_pkts, loop, out>>

EnqueueEnd ==
  /\ pc = "enqueue" /\ ~enable /\ todo = <<>>
  /\ pc' = "inline"
  /\ nb' = 0
  /\ UNCHANGED <<enable, pool, todo, queues, ol_pkts, last_qp, iq, cops, out>>

(* ipsec_inline_dequeue, one iteration: the last packet is popped, its     *)
(* post-processing may fail.  Mutant: one packet too few is returned.      *)
InlineMoreButOne == ol_pkts # <<>> /\ nb < MAX_PKT_BURST - 1

InlineMore == ol_pkts # <<>> /\ nb < MAX_PKT_BURST

InlineDequeue ==
  /\ pc = "inline" /\ InlineMore
  /\ LET p == ol_pkts[Len(ol_pkts)] IN
     \/ /\ out' = out \cup {p}
        /\ nb' = nb + 1
        /\ UNCHANGED pool
     \/ /\ pool' = pool \cup {p}
        /\ UNCHANGED <<out, nb>>
  /\ ol_pkts' = SubSeq(ol_pkts, 1, Len(ol_pkts) - 1)
  /\ UNCHANGED <<enable, pc, todo, queues, last_qp, iq, cops>>

InlineEnd ==
  /\ pc = "inline" /\ ~InlineMore
  /\ pc' = "dequeue"
  /\ nb' = 0 /\ iq' = 0
  /\ UNCHANGED <<enable, pool, todo, queues, ol_pkts, last_qp, cops, out>>
-----------------------------------------------------------------------------
(* Library mode: ipsec_process, one iteration per group of sa_group, the   *)
(* longest run of packets with the same SA pointer.                        *)

IsGroup(cnt) ==
  /\ \A j \in 1 .. cnt : SaOf[todo[j]] = SaOf[todo[1]]
  /\ cnt < Len(todo) => SaOf[todo[cnt + 1]] # SaOf[todo[1]]

Group(cnt)     == SubSeq(todo, 1, cnt)
NextGroup(cnt) == SubSeq(todo, cnt + 1, Len(todo))

(* Mutant: the group is handed to routing untransformed. *)
GroupDiscardForwards ==
  /\ pc = "enqueue" /\ enable /\ todo # <<>>
  /\ SaOf[todo[1]] # NoSa => SaType[SaOf[todo[1]]] \notin InlineType
  /\ \E cnt \in 1 .. Len(todo) :
       /\ IsGroup(cnt)
       /\ out' = out \cup Range(Group(cnt))
       /\ todo' = NextGroup(cnt)
  /\ UNCHANGED <<enable, pc, pool, queues, ol_pkts, loop>>

(* Nothing of the group is processed: no SA, or no session for it. *)
GroupDiscard ==
  /\ pc = "enqueue" /\ enable /\ todo # <<>>
  /\ SaOf[todo[1]] # NoSa => SaType[SaOf[todo[1]]] \notin InlineType
  /\ \E cnt \in 1 .. Len(todo) :
       /\ IsGroup(cnt)
       /\ pool' = pool \cup Range(Group(cnt))
       /\ todo' = NextGroup(cnt)
  /\ UNCHANGED <<enable, pc, queues, ol_pkts, loop, out>>

(* enqueue_cop_bulk: straight to the PMD when the buffer is empty and      *)
(* three quarters of a burst are at hand, else through the buffer.  A      *)
(* group is at most one burst, so the buffer fills at most once.           *)
Straight(q, ops) == buf[q] = <<>> /\ Len(ops) >= (MAX_PKT_BURST * 3) \div 4

(* Mutant: the buffer is not flushed when the group fills it. *)
EnqueueCopBulkNoFlush(q, ops, bad) ==
  /\ buf' = [buf EXCEPT ![q] = @ \o ops]
  /\ pool' = pool \cup bad
  /\ UNCHANGED <<pmd, in_flight>>

EnqueueCopBulk(q, ops, bad) ==
  LET all  == buf[q] \o ops
      full == SubSeq(all, 1, MAX_PKT_BURST)
  IN
  \/ /\ Straight(q, ops)
     /\ \E acc \in 0 .. Room(q, ops) : EnqueueBurst(q, ops, acc, bad)
     /\ UNCHANGED buf
  \/ /\ ~Straight(q, ops) /\ Len(all) >= MAX_PKT_BURST
     /\ \E acc \in 0 .. Room(q, full) : EnqueueBurst(q, full, acc, bad)
     /\ buf' = [buf EXCEPT ![q] = SubSeq(all, MAX_PKT_BURST + 1, Len(all))]
  \/ /\ ~Straight(q, ops) /\ Len(all) < MAX_PKT_BURST
     /\ buf' = [buf EXCEPT ![q] = all]
     /\ pool' = pool \cup bad
     /\ UNCHANGED <<pmd, in_flight>>

(* ipsec_prepare_crypto_group: rte_ipsec_pkt_crypto_prepare keeps the k    *)
(* packets it could prepare, in order; the others are freed.               *)
GroupCrypto ==
  /\ pc = "enqueue" /\ enable /\ todo # <<>>
  /\ SaOf[todo[1]] # NoSa
  /\ SaType[SaOf[todo[1]]] \in LookasideType
  /\ \E cnt \in 1 .. Len(todo) : \E k \in 1 .. cnt :
     \E idx \in [1 .. k -> 1 .. cnt] :
       LET ops == [i \in 1 .. k |-> todo[idx[i]]] IN
       /\ IsGroup(cnt)
       /\ \A i, j \in 1 .. k : i < j => idx[i] < idx[j]
       /\ EnqueueCopBulk(SaQp[SaOf[todo[1]]], ops, Range(Group(cnt)) \ Range(ops))
       /\ todo' = NextGroup(cnt)
  /\ UNCHANGED <<enable, pc, ready, ol_pkts, loop, out>>

(* ipsec_process_inline_group and ipsec_process_cpu_group: the group is    *)
(* processed on the spot, what fails is freed.                             *)
GroupSync ==
  /\ pc = "enqueue" /\ enable /\ todo # <<>>
  /\ SaOf[todo[1]] # NoSa
  /\ SaType[SaOf[todo[1]]] \in InlineType \cup {"CPU_CRYPTO"}
  /\ \E cnt \in 1 .. Len(todo) : \E bad \in SUBSET Range(Group(cnt)) :
       /\ IsGroup(cnt)
       /\ out' = out \cup (Range(Group(cnt)) \ bad)
       /\ pool' = pool \cup bad
       /\ todo' = NextGroup(cnt)
  /\ UNCHANGED <<enable, pc, queues, ol_pkts, loop>>

GroupEnd ==
  /\ pc = "enqueue" /\ enable /\ todo = <<>>
  /\ pc' = "dequeue"
  /\ iq' = last_qp
  /\ UNCHANGED <<enable, pool, todo, queues, ol_pkts, last_qp, nb, cops, out>>
-----------------------------------------------------------------------------
(* What one dequeue from a queue pair returns: nothing when in_flight says *)
(* that nothing is there, else the completed operations up to max.         *)
Dequeued(q, max) ==
  IF in_flight[q] = 0 THEN 0 ELSE Lesser(ready[q], max)

(* Mutant: what was dequeued is counted off twice. *)
TakeFromTwice(q, n) ==
  /\ pmd' = [pmd EXCEPT ![q] = SubSeq(@, n + 1, Len(@))]
  /\ ready' = [ready EXCEPT ![q] = @ - n]
  /\ in_flight' = [in_flight EXCEPT ![q] = @ - 2 * n]

TakeFrom(q, n) ==
  /\ pmd' = [pmd EXCEPT ![q] = SubSeq(@, n + 1, Len(@))]
  /\ ready' = [ready EXCEPT ![q] = @ - n]
  /\ in_flight' = [in_flight EXCEPT ![q] = @ - n]

(* Legacy mode: ipsec_dequeue, one iteration per queue pair, round robin.  *)
(* A packet whose operation or post-processing failed is freed.            *)
DequeueMore == iq < NbQps /\ nb < DequeueMax

DequeueQp ==
  /\ pc = "dequeue" /\ ~enable /\ DequeueMore
  /\ LET n   == Dequeued(last_qp, DequeueMax - nb)
         ops == SubSeq(pmd[last_qp], 1, n)
     IN  /\ TakeFrom(last_qp, n)
         /\ \E bad \in SUBSET (1 .. n) :
              /\ out' = out \cup {ops[j] : j \in (1 .. n) \ bad}
              /\ pool' = pool \cup {ops[j] : j \in bad}
              /\ nb' = nb + Cardinality((1 .. n) \ bad)
  /\ last_qp' = (last_qp + 1) % NbQps
  /\ iq' = iq + 1
  /\ UNCHANGED <<enable, pc, todo, buf, ol_pkts, cops>>

DequeueEnd ==
  /\ pc = "dequeue" /\ ~enable /\ ~DequeueMore
  /\ pc' = "drain"
  /\ UNCHANGED <<enable, pool, todo, queues, ol_pkts, loop, out>>

(* Library mode: ctx_dequeue visits last_qp .. nb_qps-1, then 0 ..         *)
(* last_qp-1, and stops as soon as the array is full.                      *)
CqpDequeue ==
  LET n == Dequeued(iq, DequeueMax - Len(cops)) IN
  /\ TakeFrom(iq, n)
  /\ cops' = cops \o SubSeq(pmd[iq], 1, n)

CtxDequeueFirst ==
  /\ pc = "dequeue" /\ enable
  /\ \/ /\ Len(cops) # DequeueMax /\ iq # NbQps
        /\ CqpDequeue
        /\ iq' = iq + 1
        /\ UNCHANGED pc
     \/ /\ Len(cops) = DequeueMax \/ iq = NbQps
        /\ pc' = "dequeue2"
        /\ iq' = 0
        /\ UNCHANGED <<pmd, ready, in_flight, cops>>
  /\ UNCHANGED <<enable, pool, todo, buf, ol_pkts, last_qp, nb, out>>

CtxDequeueSecond ==
  /\ pc = "dequeue2"
  /\ \/ /\ Len(cops) # DequeueMax /\ iq # last_qp
        /\ CqpDequeue
        /\ iq' = iq + 1
        /\ UNCHANGED <<pc, last_qp>>
     \/ /\ Len(cops) = DequeueMax \/ iq = last_qp
        /\ pc' = "process"
        /\ last_qp' = iq
        /\ UNCHANGED <<pmd, ready, in_flight, cops, iq>>
  /\ UNCHANGED <<enable, pool, todo, buf, ol_pkts, nb, out>>

(* The rest of ipsec_cqp_process: the operations are grouped by session    *)
(* and finished; the packets of a group that fail are freed.               *)
CqpProcess ==
  /\ pc = "process"
  /\ \E bad \in SUBSET Range(cops) :
       /\ out' = out \cup (Range(cops) \ bad)
       /\ pool' = pool \cup bad
  /\ cops' = <<>>
  /\ pc' = "drain"
  /\ UNCHANGED <<enable, todo, queues, ol_pkts, last_qp, iq, nb>>

(* Routing, the TX buffers and the NIC: a packet that was handed over is   *)
(* transmitted or dropped there, and its mbuf is free again.               *)
TxDone ==
  /\ \E p \in out :
       /\ out' = out \ {p}
       /\ pool' = pool \cup {p}
  /\ UNCHANGED <<enable, pc, todo, queues, ol_pkts, loop>>
-----------------------------------------------------------------------------
LegacyStep ==
  \/ EnqueueDiscard \/ EnqueueInline \/ EnqueueLookaside \/ EnqueueEnd
  \/ InlineDequeue \/ InlineEnd
  \/ DequeueQp \/ DequeueEnd

LibraryStep ==
  \/ GroupDiscard \/ GroupCrypto \/ GroupSync \/ GroupEnd
  \/ CtxDequeueFirst \/ CtxDequeueSecond \/ CqpProcess

Lcore == DrainSkip \/ DrainCryptoBuffers \/ RxBurst \/ LegacyStep \/ LibraryStep

Next == Lcore \/ TxDone \/ \E q \in Qps : PmdComplete(q)

Spec == Init /\ [][Next]_vars

(* The lcore never stops polling, the clock makes the drain condition true *)
(* again and again, the device completes what it accepted.                 *)
Fairness ==
  /\ WF_vars(Lcore)
  /\ SF_vars(DrainCryptoBuffers)
  /\ \A q \in Qps : WF_vars(PmdComplete(q))

FairSpec == Spec /\ Fairness
-----------------------------------------------------------------------------
(* Type invariant: the burst, the operations one dequeue collects and what *)
(* it returns fit their arrays, the indices stay within the queue pairs.   *)
TypeOK ==
  /\ enable \in BOOLEAN
  /\ pc \in PC
  /\ pool \in SUBSET Pkts
  /\ todo \in Seq(Pkts) /\ Len(todo) <= MAX_PKT_BURST
  /\ buf \in [Qps -> Seq(Pkts)]
  /\ in_flight \in [Qps -> Nat]
  /\ pmd \in [Qps -> Seq(Pkts)]
  /\ ready \in [Qps -> Nat]
  /\ ol_pkts \in Seq(Pkts)
  /\ last_qp \in Qps
  /\ iq \in 0 .. NbQps
  /\ nb \in 0 .. DequeueMax
  /\ cops \in Seq(Pkts) /\ Len(cops) <= DequeueMax
  /\ out \in SUBSET Pkts

(* in_flight counts exactly the operations inside the device: an op that   *)
(* the PMD refused is not counted, an op that was dequeued is counted off. *)
(* Both dequeue loops skip a queue pair whose in_flight is 0, and          *)
(* cqp_dequeue asserts in_flight >= n, so a drift strands packets.         *)
InFlightExact ==
  \A q \in Qps :
    /\ in_flight[q] = Len(pmd[q])
    /\ ready[q] <= Len(pmd[q])
    /\ Len(pmd[q]) <= PmdDepth

(* enqueue_cop and enqueue_cop_bulk write buf[len] without a bound check:  *)
(* between two steps a crypto buffer has room for one more operation.      *)
BufHasRoom == \A q \in Qps : Len(buf[q]) < MAX_PKT_BURST

(* ipsec_enqueue writes ol_pkts[ol_pkts_cnt++] without a bound check: the  *)
(* array holds one burst, so each call must find it empty, which it is     *)
(* only if ipsec_inline_dequeue always empties it.                         *)
OlPktsFit ==
  /\ Len(ol_pkts) <= MAX_PKT_BURST
  /\ pc \notin {"enqueue", "inline"} => ol_pkts = <<>>

(* The slots that hold a reference to mbuf p. *)
Slots(name, q, s, p) == {<<name, q, i>> : i \in {j \in DOMAIN s : s[j] = p}}

Where(p) ==
  {<<"pool", 0, 0>> : x \in pool \cap {p}}
  \cup {<<"out", 0, 0>> : x \in out \cap {p}}
  \cup Slots("todo", 0, todo, p)
  \cup Slots("ol", 0, ol_pkts, p)
  \cup Slots("cops", 0, cops, p)
  \cup UNION {Slots("buf", q, buf[q], p) \cup Slots("pmd", q, pmd[q], p) : q \in Qps}

(* No mbuf is leaked and none is owned twice: at every step exactly one    *)
(* slot of one queue, buffer, burst or the pool refers to it.              *)
MbufAccounted == \A p \in Pkts : \E w \in Where(p) : Where(p) = {w}

InCrypto(p) == \E q \in Qps : p \in Range(buf[q]) \cup Range(pmd[q])

(* Every operation handed to the crypto stage leaves it: no queue pair is  *)
(* passed over for ever, although one dequeue stops after DequeueMax       *)
(* operations, in library mode always starts with the first queue pair     *)
(* (ctx_dequeue writes last_qp back from the index of its second loop) and *)
(* new packets for that queue pair keep coming.                            *)
CryptoCompletes == \A p \in Pkts : InCrypto(p) ~> ~InCrypto(p)

(* The context implements PktLife.  Packets held in the burst or in        *)
(* ol_pkts are still "rx"; those in a crypto buffer, in the device or      *)
(* collected by ctx_dequeue are in "crypto".                               *)
LookasidePkts ==
  {p \in Pkts : SaOf[p] # NoSa /\ SaType[SaOf[p]] \in LookasideType}

AbstractPlace(p) ==
  IF p \in pool THEN "pool"
  ELSE IF p \in out THEN "out"
  ELSE IF p \in Range(todo) \cup Range(ol_pkts) THEN "rx"
  ELSE "crypto"

Life == INSTANCE PktLife
          WITH Lookaside <- LookasidePkts,
               NoSaPkts  <- {p \in Pkts : SaOf[p] = NoSa},
               where     <- [p \in Pkts |-> AbstractPlace(p)]

(* Refinement: every step of the context is a step of PktLife. *)
ImplementsLife == Life!Spec
=============================================================================
