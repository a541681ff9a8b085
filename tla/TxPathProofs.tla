---------------------------- MODULE TxPathProofs ----------------------------
(***************************************************************************)
(* TX buffers are never overrun, fragments always find room, a packet      *)
(* leaves by the port of its own lookup and behind what was queued before, *)
(* and reference counts are exact, for every number of packets, ports,     *)
(* burst size, fragment limit and routing table.                           *)
(*                                                                         *)
(* TxInv ties the two counters of route4_pkts together: the results used   *)
(* so far are those of the packets routed so far.  RefInv, on top of it,   *)
(* counts the references of each packet at the one port it can be at.      *)
(***************************************************************************)
EXTENDS TxPath, FiniteSetTheorems, TLAPS

Entry == Pkts \X Nat

Shape ==
  /\ frag \in BOOLEAN
  /\ pc \in {"loop", "rx", "route", "send", "full"}
  /\ port \in Ports
  /\ burst \in Seq(Pkts) /\ i \in 0 .. Len(burst)
  /\ pc \in {"send", "full"} => i < Len(burst)
  /\ tbl \in [Ports -> Seq(Entry)]
  /\ nic \in [Ports -> Seq(Entry)]

BufferRoom ==
  \A q \in Ports :
    /\ Len(tbl[q]) <= MAX_PKT_BURST
    /\ (pc = "full" /\ port = q) \/ Len(tbl[q]) < MAX_PKT_BURST

(* The packets whose hop has been taken. *)
Taken == IF pc \in {"send", "full"} THEN i + 1 ELSE i

(* n results, of the packets at the positions ix, the first lpm of them    *)
(* used.                                                                   *)
HopsOf(n, ix) ==
  /\ ix \in [1 .. n -> 1 .. Len(burst)] /\ Lists(ix, LpmPkts(burst))
  /\ hop = [x \in 1 .. n |-> LpmHop[burst[ix[x]]]]
  /\ lpm \in 0 .. n
  /\ \A x \in 1 .. n : ix[x] <= Taken <=> x <= lpm

HopsMatch ==
  pc \in {"route", "send", "full"} =>
    \E n \in Nat : \E ix \in [1 .. n -> 1 .. Len(burst)] : HopsOf(n, ix)

HopOf(p) == IF p \in Offload THEN SaPort[p] ELSE LpmHop[p]

PortRight == pc = "send" => port = HopOf(Cur)

BuffersRight ==
  \A q \in Ports :
    /\ \A k \in DOMAIN tbl[q] : q = HopOf(tbl[q][k][1])
    /\ \A k \in DOMAIN nic[q] : q = HopOf(nic[q][k][1])

TxInv == Shape /\ BufferRoom /\ HopsMatch /\ PortRight /\ BuffersRight
-----------------------------------------------------------------------------
LEMMA SizeFacts ==
  MAX_PKT_BURST \in Nat /\ MAX_FRAG \in Nat /\ MAX_FRAG >= 1 /\ MAX_FRAG < MAX_PKT_BURST
  BY TxAssumption

LEMMA CurFacts ==
  ASSUME Shape, i < Len(burst)
  PROVE  Cur \in Pkts /\ i + 1 \in 1 .. Len(burst) /\ i \in Nat /\ Len(burst) \in Nat
  BY DEF Shape, Cur

LEMMA LeastBound ==
  ASSUME NEW a \in Int, NEW b \in Int, NEW c \in Int, c <= Least(a, b)
  PROVE  c <= a
  BY DEF Least

LEMMA ConcatFacts ==
  ASSUME NEW S, NEW a \in Seq(S), NEW b \in Seq(S)
  PROVE  /\ a \o b \in Seq(S) /\ Len(a \o b) = Len(a) + Len(b)
         /\ \A k \in 1 .. Len(a) + Len(b) :
              (a \o b)[k] = IF k <= Len(a) THEN a[k] ELSE b[k - Len(a)]
  OBVIOUS

LEMMA ConcatDomain ==
  ASSUME NEW S, NEW a \in Seq(S), NEW b \in Seq(S)
  PROVE  /\ DOMAIN a = 1 .. Len(a) /\ DOMAIN b = 1 .. Len(b)
         /\ DOMAIN (a \o b) = 1 .. Len(a) + Len(b)
         /\ Len(a) \in Nat /\ Len(b) \in Nat
  <1>1. a \o b \in Seq(S) /\ Len(a \o b) = Len(a) + Len(b)
    BY ConcatFacts
  <1> QED
    BY <1>1

LEMMA ConcatSplit ==
  ASSUME NEW S, NEW a \in Seq(S), NEW b \in Seq(S), NEW k \in DOMAIN (a \o b)
  PROVE  \/ \E x \in DOMAIN a : (a \o b)[k] = a[x]
         \/ \E x \in DOMAIN b : (a \o b)[k] = b[x]
  <1>1. /\ DOMAIN a = 1 .. Len(a) /\ DOMAIN b = 1 .. Len(b)
        /\ k \in 1 .. Len(a) + Len(b) /\ Len(a) \in Nat /\ Len(b) \in Nat
    BY ConcatDomain
  <1>2. (a \o b)[k] = IF k <= Len(a) THEN a[k] ELSE b[k - Len(a)]
    BY <1>1, ConcatFacts
  <1>3. IF k <= Len(a) THEN k \in 1 .. Len(a) ELSE k - Len(a) \in 1 .. Len(b)
    BY <1>1
  <1> QED
    BY <1>1, <1>2, <1>3

LEMMA AppendIsConcat ==
  ASSUME NEW S, NEW a \in Seq(S), NEW e \in S
  PROVE  Append(a, e) = a \o <<e>>
  OBVIOUS

LEMMA FragsOfFacts ==
  ASSUME NEW p \in Pkts
  PROVE  /\ FragsOf(p) \in Seq(Entry) /\ Len(FragsOf(p)) = NbFrags[p]
         /\ \A k \in DOMAIN FragsOf(p) : FragsOf(p)[k][1] = p
  <1>1. NbFrags[p] \in Nat
    BY TxAssumption
  <1> QED
    BY <1>1 DEF FragsOf, Entry

LEMMA InitTxInv == Init => TxInv
<1> SUFFICES ASSUME Init PROVE TxInv
  OBVIOUS
<1>1. Shape /\ HopsMatch /\ PortRight
  BY DEF Init, Shape, HopsMatch, PortRight
<1>2. BufferRoom /\ BuffersRight
  BY SizeFacts DEF Init, BufferRoom, BuffersRight
<1> QED
  BY <1>1, <1>2 DEF TxInv
-----------------------------------------------------------------------------
(* A buffer that is handed to the NIC is empty, and the NIC has got        *)
(* entries of this buffer only.                                            *)
LEMMA SendBurstFacts ==
  ASSUME TxInv, NEW q \in Ports, NEW acc \in 0 .. MAX_PKT_BURST, SendBurst(q, acc)
  PROVE  /\ tbl' \in [Ports -> Seq(Entry)] /\ nic' \in [Ports -> Seq(Entry)]
         /\ tbl' = [tbl EXCEPT ![q] = <<>>]
         /\ BuffersRight'
<1>1. /\ tbl[q] \in Seq(Entry) /\ nic[q] \in Seq(Entry)
      /\ acc \in Nat /\ Len(tbl[q]) \in Nat /\ Len(nic[q]) \in Nat /\ NicDepth \in Nat
  BY SizeFacts, TxAssumption DEF TxInv, Shape
<1>2. acc <= Len(tbl[q])
  <2>1. acc <= Least(Len(tbl[q]), NicDepth - Len(nic[q]))
    BY DEF SendBurst
  <2>2. acc \in Int /\ Len(tbl[q]) \in Int /\ NicDepth - Len(nic[q]) \in Int
    BY <1>1
  <2> QED
    BY <2>1, <2>2, LeastBound
<1> DEFINE s == SubSeq(tbl[q], 1, acc)
<1>3. /\ s \in Seq(Entry) /\ Len(s) = acc
      /\ \A k \in 1 .. acc : k \in DOMAIN tbl[q] /\ s[k] = tbl[q][k]
  BY <1>1, <1>2
<1>4. tbl' = [tbl EXCEPT ![q] = <<>>] /\ nic' = [nic EXCEPT ![q] = @ \o s]
  BY DEF SendBurst
<1> HIDE DEF s
<1>5. /\ nic[q] \o s \in Seq(Entry)
      /\ DOMAIN (nic[q] \o s) = 1 .. Len(nic[q]) + acc
      /\ \A k \in 1 .. Len(nic[q]) + acc :
           (nic[q] \o s)[k] = IF k <= Len(nic[q]) THEN nic[q][k] ELSE s[k - Len(nic[q])]
  <2>1. /\ nic[q] \o s \in Seq(Entry) /\ Len(nic[q] \o s) = Len(nic[q]) + acc
        /\ \A k \in 1 .. Len(nic[q]) + acc :
             (nic[q] \o s)[k] = IF k <= Len(nic[q]) THEN nic[q][k] ELSE s[k - Len(nic[q])]
    BY ZenonT(30), <1>1, <1>3, ConcatFacts
  <2>2. DOMAIN (nic[q] \o s) = 1 .. Len(nic[q] \o s)
    BY <2>1
  <2> QED
    BY <2>1, <2>2
<1>6. tbl' \in [Ports -> Seq(Entry)] /\ nic' \in [Ports -> Seq(Entry)]
  BY <1>4, <1>5 DEF TxInv, Shape
<1>7. ASSUME NEW r \in Ports
      PROVE  /\ \A k \in DOMAIN tbl'[r] : r = HopOf(tbl'[r][k][1])
             /\ \A k \in DOMAIN nic'[r] : r = HopOf(nic'[r][k][1])
  <2>1. CASE r # q
    BY <1>4, <2>1 DEF TxInv, Shape, BuffersRight
  <2>2. CASE r = q
    <3>1. tbl'[r] = <<>> /\ nic'[r] = nic[q] \o s
      BY <1>4, <2>2 DEF TxInv, Shape
    <3>2. ASSUME NEW k \in 1 .. Len(nic[q]) + acc
          PROVE  q = HopOf((nic[q] \o s)[k][1])
      <4>1. CASE k <= Len(nic[q])
        BY <1>1, <1>5, <4>1 DEF TxInv, BuffersRight
      <4>2. CASE ~(k <= Len(nic[q]))
        <5>1. k - Len(nic[q]) \in 1 .. acc
          BY <1>1, <4>2
        <5> QED
          BY <1>3, <1>5, <4>2, <5>1 DEF TxInv, BuffersRight
      <4> QED
        BY <4>1, <4>2
    <3> QED
      BY <1>5, <2>2, <3>1, <3>2
  <2> QED
    BY <2>1, <2>2
<1>8. BuffersRight'
  BY <1>7 DEF BuffersRight, HopOf
<1> QED
  BY <1>4, <1>6, <1>8

(* A step that leaves the routing alone keeps what is said about it. *)
LEMMA RouteKept ==
  ASSUME HopsMatch, PortRight, UNCHANGED <<pc, route>>
  PROVE  HopsMatch' /\ PortRight'
  BY ZenonT(30) DEF HopsMatch, HopsOf, Taken, PortRight, Cur, HopOf, route

(* Handing a buffer to the NIC, wherever it is done. *)
LEMMA FlushStep ==
  ASSUME TxInv, NEW q \in Ports, NEW acc \in 0 .. MAX_PKT_BURST, SendBurst(q, acc),
         UNCHANGED <<frag, pc, route>>
  PROVE  TxInv'
<1>1. /\ tbl' \in [Ports -> Seq(Entry)] /\ nic' \in [Ports -> Seq(Entry)]
      /\ tbl' = [tbl EXCEPT ![q] = <<>>]
      /\ BuffersRight'
  BY SendBurstFacts
<1>2. Shape'
  BY <1>1 DEF TxInv, Shape, route
<1>3. BufferRoom'
  <2> SUFFICES ASSUME NEW r \in Ports
               PROVE  /\ Len(tbl'[r]) <= MAX_PKT_BURST
                      /\ (pc = "full" /\ port = r) \/ Len(tbl'[r]) < MAX_PKT_BURST
    BY DEF BufferRoom, route
  <2>1. CASE r = q
    BY <1>1, <2>1, SizeFacts DEF TxInv, Shape
  <2>2. CASE r # q
    BY <1>1, <2>2 DEF TxInv, Shape, BufferRoom
  <2> QED
    BY <2>1, <2>2
<1>4. HopsMatch' /\ PortRight'
  BY RouteKept DEF TxInv
<1> QED
  BY <1>1, <1>2, <1>3, <1>4 DEF TxInv

(* Steps that only change the buffers. *)
LEMMA BufferSteps ==
  ASSUME TxInv,
         \/ \E q \in Ports : DrainTxBuffer(q) \/ NicSend(q)
         \/ FragmentFlush
  PROVE  TxInv'
<1>1. CASE \E q \in Ports : DrainTxBuffer(q)
  BY <1>1, FlushStep DEF DrainTxBuffer
<1>2. CASE FragmentFlush
  BY <1>2, FlushStep DEF FragmentFlush, TxInv, Shape
<1>3. CASE \E q \in Ports : NicSend(q)
  <2>1. PICK q \in Ports :
          /\ nic[q] # <<>> /\ nic' = [nic EXCEPT ![q] = Tail(@)]
          /\ UNCHANGED <<frag, pc, route, tbl>>
    BY <1>3 DEF NicSend
  <2>2. /\ nic[q] \in Seq(Entry) /\ Tail(nic[q]) \in Seq(Entry)
        /\ \A k \in DOMAIN Tail(nic[q]) :
             k + 1 \in DOMAIN nic[q] /\ Tail(nic[q])[k] = nic[q][k + 1]
    BY <2>1 DEF TxInv, Shape
  <2>3. Shape'
    BY <2>1, <2>2 DEF TxInv, Shape, route
  <2>4. BuffersRight'
    BY <2>1, <2>2 DEF TxInv, Shape, BuffersRight, HopOf
  <2>5. BufferRoom'
    BY <2>1 DEF TxInv, BufferRoom, route
  <2>6. HopsMatch' /\ PortRight'
    BY <2>1, RouteKept DEF TxInv
  <2> QED
    BY <2>3, <2>4, <2>5, <2>6 DEF TxInv
<1> QED
  BY <1>1, <1>2, <1>3
-----------------------------------------------------------------------------
(* A step that leaves the buffers and the packets of the burst alone. *)
LEMMA BuffersKept ==
  ASSUME BuffersRight, UNCHANGED <<tbl, nic>>
  PROVE  BuffersRight'
  BY DEF BuffersRight, HopOf

LEMMA DrainEndStep ==
  ASSUME TxInv, DrainEnd
  PROVE  TxInv'
  BY BuffersKept
     DEF TxInv, DrainEnd, Shape, BufferRoom, HopsMatch, PortRight, route

(* A new burst: nothing is taken, no result is used. *)
LEMMA RouteStep ==
  ASSUME TxInv, Route
  PROVE  TxInv'
<1>1a. PICK k \in 0 .. MaxRouted : \E b \in [1 .. k -> {p \in Pkts : ref[p] = 0}] :
         /\ burst' = b
         /\ \E n \in 0 .. k : \E ix \in [1 .. n -> 1 .. k] :
              /\ Lists(ix, LpmPkts(b))
              /\ hop' = [x \in 1 .. n |-> LpmHop[b[ix[x]]]]
  BY DEF Route
<1>1b. PICK b \in [1 .. k -> {p \in Pkts : ref[p] = 0}] :
         /\ burst' = b
         /\ \E n \in 0 .. k : \E ix \in [1 .. n -> 1 .. k] :
              /\ Lists(ix, LpmPkts(b))
              /\ hop' = [x \in 1 .. n |-> LpmHop[b[ix[x]]]]
  BY <1>1a
<1>1c. PICK n \in 0 .. k : \E ix \in [1 .. n -> 1 .. k] :
         /\ Lists(ix, LpmPkts(b))
         /\ hop' = [x \in 1 .. n |-> LpmHop[b[ix[x]]]]
  BY <1>1b
<1>1d. PICK ix \in [1 .. n -> 1 .. k] :
         /\ Lists(ix, LpmPkts(b))
         /\ hop' = [x \in 1 .. n |-> LpmHop[b[ix[x]]]]
  BY <1>1c
<1>1. burst' = b
  BY <1>1b
<1>2. /\ pc = "rx" /\ pc' = "route" /\ i' = 0 /\ lpm' = 0
      /\ UNCHANGED <<frag, port, tbl, nic>>
  BY DEF Route
<1>3. k \in Nat /\ n \in Nat /\ b \in Seq(Pkts) /\ Len(b) = k
  BY <1>1, TxAssumption
<1>4. Shape'
  BY <1>1, <1>2, <1>3 DEF TxInv, Shape
<1>5. BufferRoom'
  BY <1>2 DEF TxInv, BufferRoom
<1>6. HopsMatch'
  <2>1. \A x \in 1 .. n : ix[x] \in 1 .. k /\ ~(ix[x] <= 0) /\ ~(x <= 0)
    BY <1>1d, <1>3
  <2>2. HopsOf(n, ix)'
    BY <1>1, <1>1d, <1>2, <1>3, <2>1 DEF HopsOf, Taken, LpmPkts, Lists
  <2> QED
    BY <1>1, <1>1d, <1>3, <2>2 DEF HopsMatch
<1>7. PortRight'
  BY <1>2 DEF PortRight
<1> QED
  BY <1>2, <1>4, <1>5, <1>6, <1>7, BuffersKept DEF TxInv

LEMMA RouteEndStep ==
  ASSUME TxInv, RouteEnd
  PROVE  TxInv'
  BY BuffersKept
     DEF TxInv, RouteEnd, Shape, BufferRoom, HopsMatch, PortRight

(* The result that belongs to the packet at position i + 1: the next       *)
(* unused one, or none at all if the packet is offloaded.                  *)
LEMMA NextResult ==
  ASSUME Shape, pc = "route", i < Len(burst),
         NEW n \in Nat, NEW ix \in [1 .. n -> 1 .. Len(burst)], HopsOf(n, ix)
  PROVE  /\ PktHop = HopOf(Cur)
         /\ NextLpm \in 0 .. n
         /\ \A y \in 1 .. n : ix[y] <= i + 1 <=> y <= NextLpm
<1>1. /\ i \in Nat /\ Len(burst) \in Nat /\ i + 1 \in 1 .. Len(burst) /\ lpm \in 0 .. n
      /\ DOMAIN burst = 1 .. Len(burst) /\ DOMAIN ix = 1 .. n
      /\ \A y \in 1 .. n : ix[y] \in Nat
      /\ \A y \in 1 .. n : ix[y] <= i <=> y <= lpm
  BY CurFacts DEF Shape, HopsOf, Taken
<1>2. CASE Cur \in Offload
  <2>1. \A y \in 1 .. n : ix[y] # i + 1
    BY <1>1, <1>2 DEF HopsOf, Lists, LpmPkts, Cur
  <2>2. \A y \in 1 .. n : ix[y] <= i + 1 <=> ix[y] <= i
    BY <1>1, <2>1
  <2> QED
    BY <1>1, <1>2, <2>2 DEF PktHop, HopOf, NextLpm
<1>3. CASE Cur \notin Offload
  <2>1. PICK x \in 1 .. n : ix[x] = i + 1
    BY <1>1, <1>3 DEF HopsOf, Lists, LpmPkts, Cur
  <2>2. \A y, z \in 1 .. n : y < z => ix[y] < ix[z]
    BY <1>1 DEF HopsOf, Lists
  <2>3. x = lpm + 1
    <3>1. x > lpm
      BY <1>1, <2>1
    <3>2. ASSUME x > lpm + 1 PROVE FALSE
      <4>1. lpm + 1 \in 1 .. n
        BY <1>1, <3>2
      <4>2. ix[lpm + 1] < ix[x]
        BY <2>2, <3>2, <4>1
      <4>3. ix[lpm + 1] <= i
        BY <1>1, <2>1, <4>1, <4>2
      <4> QED
        BY <1>1, <4>1, <4>3
    <3> QED
      BY <1>1, <3>1, <3>2
  <2>4. hop[lpm + 1] = LpmHop[Cur]
    BY <2>1, <2>3 DEF HopsOf, Cur
  <2>5. ASSUME NEW y \in 1 .. n
        PROVE  ix[y] <= i + 1 <=> y <= lpm + 1
    <3>1. CASE y < x
      BY <1>1, <2>1, <2>2, <2>3, <3>1
    <3>2. CASE y = x
      BY <1>1, <2>1, <2>3, <3>2
    <3>3. CASE y > x
      BY <1>1, <2>1, <2>2, <2>3, <3>3
    <3> QED
      BY <3>1, <3>2, <3>3, <2>3, <1>1
  <2> QED
    BY <1>1, <1>3, <2>3, <2>4, <2>5 DEF PktHop, HopOf, NextLpm
<1> QED
  BY <1>2, <1>3

LEMMA RoutePktStep ==
  ASSUME TxInv, RoutePkt
  PROVE  TxInv'
<1>1. /\ pc = "route" /\ i < Len(burst) /\ lpm' = NextLpm
      /\ UNCHANGED <<frag, burst, hop, tbl, nic>>
      /\ \/ pc' = "route" /\ i' = i + 1 /\ port' = port
         \/ pc' = "send" /\ i' = i /\ port' = PktHop /\ PktHop # NoHop
  BY DEF RoutePkt
<1>2a. PICK n \in Nat : \E ix \in [1 .. n -> 1 .. Len(burst)] : HopsOf(n, ix)
  BY <1>1 DEF TxInv, HopsMatch
<1>2. PICK ix \in [1 .. n -> 1 .. Len(burst)] : HopsOf(n, ix)
  BY <1>2a
<1>3. /\ PktHop = HopOf(Cur)
      /\ NextLpm \in 0 .. n
      /\ \A y \in 1 .. n : ix[y] <= i + 1 <=> y <= NextLpm
  BY <1>1, <1>2, NextResult DEF TxInv
<1>4. Cur \in Pkts /\ i + 1 \in 1 .. Len(burst) /\ i \in Nat /\ Len(burst) \in Nat
  BY <1>1, CurFacts DEF TxInv
<1>5. Shape'
  <2>1. port' \in Ports
    BY <1>1, <1>3, <1>4, TxAssumption DEF TxInv, Shape, HopOf
  <2> QED
    BY <1>1, <1>4, <2>1 DEF TxInv, Shape
<1>6. BufferRoom'
  BY <1>1 DEF TxInv, BufferRoom
<1>7. HopsMatch'
  <2>1. Taken' = i + 1
    BY <1>1 DEF Taken
  <2>2. HopsOf(n, ix)'
    BY <1>1, <1>2, <1>3, <2>1 DEF HopsOf, LpmPkts
  <2> QED
    BY <1>1, <1>2, <2>2 DEF HopsMatch
<1>8. PortRight'
  BY <1>1, <1>3 DEF PortRight, HopOf, Cur
<1> QED
  BY <1>1, <1>5, <1>6, <1>7, <1>8, BuffersKept DEF TxInv
-----------------------------------------------------------------------------
(* send_single_packet takes no result. *)
LEMMA HopsKept ==
  ASSUME HopsMatch, pc \in {"route", "send", "full"}, Taken' = Taken,
         UNCHANGED <<burst, hop, lpm>>
  PROVE  HopsMatch'
<1>1a. PICK n \in Nat : \E ix \in [1 .. n -> 1 .. Len(burst)] : HopsOf(n, ix)
  BY DEF HopsMatch
<1>1. PICK ix \in [1 .. n -> 1 .. Len(burst)] : HopsOf(n, ix)
  BY <1>1a
<1>2. HopsOf(n, ix)'
  BY <1>1 DEF HopsOf, LpmPkts
<1> QED
  BY <1>1, <1>2 DEF HopsMatch

(* Adding entries of the current packet to the buffer of its port. *)
LEMMA PutStep ==
  ASSUME TxInv, pc = "send", pc' = "full", NEW f \in Seq(Entry),
         \A k \in DOMAIN f : f[k][1] = Cur,
         Len(tbl[port]) + Len(f) <= MAX_PKT_BURST,
         tbl' = [tbl EXCEPT ![port] = @ \o f],
         UNCHANGED <<frag, route, nic>>
  PROVE  TxInv'
<1>1. /\ port \in Ports /\ tbl[port] \in Seq(Entry)
      /\ Len(tbl[port]) \in Nat /\ Len(f) \in Nat /\ port = HopOf(Cur)
  BY DEF TxInv, Shape, PortRight
<1>2. /\ tbl[port] \o f \in Seq(Entry) /\ Len(tbl[port] \o f) = Len(tbl[port]) + Len(f)
      /\ \A k \in 1 .. Len(tbl[port]) + Len(f) :
           (tbl[port] \o f)[k] = IF k <= Len(tbl[port]) THEN tbl[port][k]
                                 ELSE f[k - Len(tbl[port])]
  BY <1>1, ConcatFacts
<1>3. Shape'
  BY <1>1, <1>2 DEF TxInv, Shape, route
<1>4. BufferRoom'
  <2> SUFFICES ASSUME NEW r \in Ports
               PROVE  /\ Len(tbl'[r]) <= MAX_PKT_BURST
                      /\ port = r \/ Len(tbl'[r]) < MAX_PKT_BURST
    BY DEF BufferRoom, route
  <2>1. CASE r = port
    BY <1>1, <1>2, <2>1 DEF TxInv, Shape
  <2>2. CASE r # port
    BY <2>2 DEF TxInv, Shape, BufferRoom
  <2> QED
    BY <2>1, <2>2
<1>5. HopsMatch'
  BY HopsKept DEF TxInv, Taken, route
<1>6. PortRight'
  BY DEF PortRight
<1>7. BuffersRight'
  <2> SUFFICES ASSUME NEW r \in Ports
               PROVE  /\ \A k \in DOMAIN tbl'[r] : r = HopOf(tbl'[r][k][1])
                      /\ \A k \in DOMAIN nic'[r] : r = HopOf(nic'[r][k][1])
    BY DEF BuffersRight, HopOf
  <2>1. \A k \in DOMAIN nic'[r] : r = HopOf(nic'[r][k][1])
    BY DEF TxInv, BuffersRight
  <2>2. CASE r # port
    BY <2>1, <2>2 DEF TxInv, Shape, BuffersRight
  <2>3. CASE r = port
    <3>1. tbl'[r] = tbl[port] \o f
      BY <2>3 DEF TxInv, Shape
    <3>2. DOMAIN tbl'[r] = 1 .. Len(tbl[port]) + Len(f)
      BY <1>2, <3>1
    <3>3. ASSUME NEW k \in 1 .. Len(tbl[port]) + Len(f)
          PROVE  r = HopOf(tbl'[r][k][1])
      <4>1. CASE k <= Len(tbl[port])
        <5>1. tbl'[r][k] = tbl[port][k] /\ k \in DOMAIN tbl[port]
          BY <1>1, <1>2, <3>1, <4>1
        <5> QED
          BY <1>1, <2>3, <5>1 DEF TxInv, BuffersRight
      <4>2. CASE ~(k <= Len(tbl[port]))
        <5>1. tbl'[r][k] = f[k - Len(tbl[port])]
          BY <1>2, <3>1, <4>2
        <5>2. k - Len(tbl[port]) \in DOMAIN f
          BY <1>1, <4>2
        <5> QED
          BY <1>1, <2>3, <5>1, <5>2
      <4> QED
        BY <4>1, <4>2
    <3> QED
      BY <2>1, <3>2, <3>3
  <2> QED
    BY <2>2, <2>3
<1> QED
  BY <1>3, <1>4, <1>5, <1>6, <1>7 DEF TxInv

(* The packet is freed instead. *)
LEMMA FreeStep ==
  ASSUME TxInv, pc = "send", pc' = "full", UNCHANGED <<frag, route, tbl, nic>>
  PROVE  TxInv'
<1>1. Shape' /\ BufferRoom' /\ PortRight'
  BY DEF TxInv, Shape, BufferRoom, PortRight, route
<1>2. HopsMatch'
  BY HopsKept DEF TxInv, Taken, route
<1> QED
  BY <1>1, <1>2, BuffersKept DEF TxInv

LEMMA SendWholeStep ==
  ASSUME TxInv, SendWhole
  PROVE  TxInv'
<1>1. Shape /\ BufferRoom /\ pc = "send" /\ i < Len(burst)
  BY DEF TxInv, Shape, SendWhole
<1>2. Cur \in Pkts /\ port \in Ports /\ tbl[port] \in Seq(Entry)
  BY <1>1, CurFacts DEF Shape
<1> DEFINE f == <<<<Cur, 0>>>>
<1>3. f \in Seq(Entry) /\ Len(f) = 1 /\ \A k \in DOMAIN f : f[k][1] = Cur
  BY <1>2 DEF Entry
<1>4. Len(tbl[port]) + 1 <= MAX_PKT_BURST
  BY <1>1, <1>2, SizeFacts DEF BufferRoom
<1>5. tbl' = [tbl EXCEPT ![port] = @ \o f]
  <2>1. tbl' = [tbl EXCEPT ![port] = Append(@, <<Cur, 0>>)]
    BY DEF SendWhole
  <2>2. Append(tbl[port], <<Cur, 0>>) = tbl[port] \o f
    <3>1. <<Cur, 0>> \in Entry
      BY <1>2 DEF Entry
    <3> QED
      BY <1>2, <3>1, AppendIsConcat
  <2> QED
    BY <1>1, <2>1, <2>2 DEF Shape
<1> HIDE DEF f
<1> QED
  BY <1>1, <1>3, <1>4, <1>5, PutStep DEF SendWhole

LEMMA FragmentPutStep ==
  ASSUME TxInv, FragmentPut
  PROVE  TxInv'
<1>1. Shape /\ pc = "send" /\ pc' = "full" /\ i < Len(burst) /\ UNCHANGED <<frag, route, nic>>
  BY DEF TxInv, Shape, FragmentPut
<1>2. CASE UNCHANGED tbl
  BY <1>1, <1>2, FreeStep
<1>3. CASE /\ NbFrags[Cur] <= MAX_PKT_BURST - Len(tbl[port])
           /\ tbl' = [tbl EXCEPT ![port] = AddFrags(@, FragsOf(Cur))]
  <2>1. Cur \in Pkts /\ port \in Ports /\ Len(tbl[port]) \in Nat
    BY <1>1, CurFacts DEF Shape
  <2>2. NbFrags[Cur] \in Nat
    BY <2>1, TxAssumption
  <2> DEFINE f == FragsOf(Cur)
  <2>3. f \in Seq(Entry) /\ Len(f) = NbFrags[Cur] /\ \A k \in DOMAIN f : f[k][1] = Cur
    BY <2>1, FragsOfFacts
  <2>4. tbl' = [tbl EXCEPT ![port] = @ \o f]
    BY <1>3 DEF AddFrags
  <2>5. Len(tbl[port]) + Len(f) <= MAX_PKT_BURST
    BY <1>3, <2>1, <2>2, <2>3, SizeFacts
  <2> HIDE DEF f
  <2> QED
    BY <1>1, <2>3, <2>4, <2>5, PutStep
<1> QED
  BY <1>2, <1>3 DEF FragmentPut

LEMMA SendIfFullStep ==
  ASSUME TxInv, SendIfFull
  PROVE  TxInv'
<1>1. /\ pc = "full" /\ pc' = "route" /\ i' = i + 1
      /\ UNCHANGED <<frag, burst, hop, lpm, port>>
  BY DEF SendIfFull
<1>2. i \in Nat /\ Len(burst) \in Nat /\ i < Len(burst) /\ port \in Ports
  BY <1>1 DEF TxInv, Shape
<1>3. HopsMatch'
  BY <1>1, HopsKept DEF TxInv, Taken
<1>4. PortRight'
  BY <1>1 DEF PortRight
<1>5. CASE \E acc \in 0 .. MAX_PKT_BURST : SendBurst(port, acc)
  <2>1. /\ tbl' \in [Ports -> Seq(Entry)] /\ nic' \in [Ports -> Seq(Entry)]
        /\ tbl' = [tbl EXCEPT ![port] = <<>>]
        /\ BuffersRight'
    BY <1>2, <1>5, SendBurstFacts
  <2>2. Shape'
    BY <1>1, <1>2, <2>1 DEF TxInv, Shape
  <2>3. BufferRoom'
    <3> SUFFICES ASSUME NEW r \in Ports
                 PROVE  Len(tbl'[r]) <= MAX_PKT_BURST /\ Len(tbl'[r]) < MAX_PKT_BURST
      BY <1>1 DEF BufferRoom
    <3>1. CASE r = port
      BY <2>1, <3>1, SizeFacts DEF TxInv, Shape
    <3>2. CASE r # port
      BY <1>1, <2>1, <3>2 DEF TxInv, Shape, BufferRoom
    <3> QED
      BY <3>1, <3>2
  <2> QED
    BY <1>3, <1>4, <2>1, <2>2, <2>3 DEF TxInv
<1>6. CASE ~Full /\ UNCHANGED <<ref, tbl, nic>>
  <2>1. Shape'
    BY <1>1, <1>2, <1>6 DEF TxInv, Shape
  <2>2. BufferRoom'
    <3> SUFFICES ASSUME NEW r \in Ports
                 PROVE  Len(tbl[r]) < MAX_PKT_BURST
      BY <1>1, <1>6, SizeFacts DEF TxInv, BufferRoom
    <3>1. Len(tbl[r]) \in Nat /\ Len(tbl[r]) <= MAX_PKT_BURST
      BY DEF TxInv, Shape, BufferRoom
    <3>2. CASE r = port
      BY <1>6, <3>1, <3>2, SizeFacts DEF Full
    <3>3. CASE r # port
      BY <1>1, <3>3 DEF TxInv, BufferRoom
    <3> QED
      BY <3>2, <3>3
  <2> QED
    BY <1>3, <1>4, <1>6, <2>1, <2>2, BuffersKept DEF TxInv
<1> QED
  BY <1>5, <1>6 DEF SendIfFull
-----------------------------------------------------------------------------
LEMMA NextTxInv == TxInv /\ [Next]_vars => TxInv'
<1> SUFFICES ASSUME TxInv, [Next]_vars PROVE TxInv'
  OBVIOUS
<1>1. CASE UNCHANGED vars
  <2>1. Shape' /\ BufferRoom' /\ HopsMatch' /\ PortRight'
    BY <1>1, RouteKept DEF TxInv, Shape, BufferRoom, vars, route
  <2> QED
    BY <1>1, <2>1, BuffersKept DEF TxInv, vars
<1>2. CASE DrainEnd
  BY <1>2, DrainEndStep
<1>3. CASE Route
  BY <1>3, RouteStep
<1>4. CASE RoutePkt
  BY <1>4, RoutePktStep
<1>5. CASE RouteEnd
  BY <1>5, RouteEndStep
<1>6. CASE SendWhole
  BY <1>6, SendWholeStep
<1>7. CASE SendTooBig
  BY <1>7, FreeStep DEF SendTooBig
<1>8. CASE FragmentFlush
  BY <1>8, BufferSteps
<1>9. CASE FragmentPut
  BY <1>9, FragmentPutStep
<1>10. CASE SendIfFull
  BY <1>10, SendIfFullStep
<1>11. CASE \E q \in Ports : DrainTxBuffer(q) \/ NicSend(q)
  BY <1>11, BufferSteps
<1> QED
  BY <1>1, <1>2, <1>3, <1>4, <1>5, <1>6, <1>7, <1>8, <1>9, <1>10, <1>11 DEF Next, Lcore

LEMMA AlwaysTxInv == Spec => []TxInv
  BY InitTxInv, NextTxInv, PTL DEF Spec

(* send_single_packet and send_fragment_packet never write past m_table.   *)
THEOREM BufferHasRoom == Spec => []TableHasRoom
<1>1. TxInv => TableHasRoom
  BY DEF TxInv, BufferRoom, TableHasRoom
<1> QED
  BY <1>1, AlwaysTxInv, PTL

(* route4_pkts and route6_pkts pair packets and lookup results rightly:    *)
(* what waits at a port or has been given to it was routed there.          *)
THEOREM LeavesByItsPort == Spec => []RightPort
<1>1. TxInv => RightPort
  <2> SUFFICES ASSUME TxInv, NEW q \in Ports, NEW k \in DOMAIN (nic[q] \o tbl[q])
               PROVE  q = HopOf((nic[q] \o tbl[q])[k][1])
    BY DEF RightPort, HopOf, Stream
  <2>1. nic[q] \in Seq(Entry) /\ tbl[q] \in Seq(Entry)
    BY DEF TxInv, Shape
  <2>2. \/ \E x \in DOMAIN nic[q] : (nic[q] \o tbl[q])[k] = nic[q][x]
        \/ \E x \in DOMAIN tbl[q] : (nic[q] \o tbl[q])[k] = tbl[q][x]
    <3>1. \A a, b \in Seq(Entry) : \A x \in DOMAIN (a \o b) :
            \/ \E y \in DOMAIN a : (a \o b)[x] = a[y]
            \/ \E y \in DOMAIN b : (a \o b)[x] = b[y]
      BY ConcatSplit
    <3> QED
      BY <2>1, <3>1
  <2> QED
    BY <2>2 DEF TxInv, BuffersRight
<1> QED
  BY <1>1, AlwaysTxInv, PTL

(* With a fragment table send_single_packet loses no packet that may be    *)
(* fragmented into at most one more than the room that it makes.           *)
THEOREM EveryPacketQueued == Spec => EveryPktQueued
<1>1. TxInv /\ [Next]_vars =>
        [pc = "send" /\ pc' = "full" /\ frag
           /\ Cur \notin MayNotFragment /\ NbFrags[Cur] <= MAX_FRAG + 1
         => Len(tbl'[port]) = Len(tbl[port]) + NbFrags[Cur]]_vars
  <2> SUFFICES ASSUME TxInv, Next, pc = "send", pc' = "full", frag,
                      Cur \notin MayNotFragment, NbFrags[Cur] <= MAX_FRAG + 1
               PROVE  Len(tbl'[port]) = Len(tbl[port]) + NbFrags[Cur]
    OBVIOUS
  <2>1. SendWhole \/ FragmentPut
    BY DEF Next, Lcore, DrainEnd, Route, RoutePkt, RouteEnd, SendTooBig, FragmentFlush,
           SendIfFull, DrainTxBuffer, NicSend
  <2>2. /\ port \in Ports /\ tbl \in [Ports -> Seq(Entry)] /\ Len(tbl[port]) \in Nat
        /\ Cur \in Pkts /\ NbFrags[Cur] \in Nat
    BY CurFacts, TxAssumption DEF TxInv, Shape
  <2>3. CASE SendWhole
    <3>1. tbl'[port] = Append(tbl[port], <<Cur, 0>>) /\ NbFrags[Cur] = 1
      BY <2>2, <2>3 DEF SendWhole
    <3>2. <<Cur, 0>> \in Entry
      BY <2>2 DEF Entry
    <3> QED
      BY <2>2, <3>1, <3>2
  <2>4. CASE FragmentPut
    <3>1. ~(NbFrags[Cur] > MAX_PKT_BURST - Len(tbl[port]))
      BY <2>2, <2>4, SizeFacts DEF FragmentPut, NeedsRoom
    <3>2. tbl' = [tbl EXCEPT ![port] = AddFrags(@, FragsOf(Cur))]
      BY <2>4, <3>1 DEF FragmentPut
    <3>3. tbl'[port] = tbl[port] \o FragsOf(Cur)
      BY <2>2, <3>2 DEF AddFrags
    <3>4. FragsOf(Cur) \in Seq(Entry) /\ Len(FragsOf(Cur)) = NbFrags[Cur]
      BY <2>2, FragsOfFacts
    <3>5. tbl[port] \in Seq(Entry)
      BY <2>2
    <3>6. Len(tbl[port] \o FragsOf(Cur)) = Len(tbl[port]) + Len(FragsOf(Cur))
      BY <3>4, <3>5, ConcatFacts
    <3> QED
      BY <3>3, <3>4, <3>6
  <2> QED
    BY <2>1, <2>3, <2>4
<1> QED
  BY <1>1, AlwaysTxInv, PTL DEF Spec, EveryPktQueued
-----------------------------------------------------------------------------
(* Reference counts.  Entries of a packet are at the port of its lookup    *)
(* only, so one count per packet is enough; UsesAt is that count and       *)
(* Awaited tells whether the burst still holds the packet.                 *)
Done == i + (IF pc = "full" THEN 1 ELSE 0)
Awaited(p) == \E x \in DOMAIN burst : x > Done /\ burst[x] = p
W(p) == IF Awaited(p) THEN 1 ELSE 0
UsesAt(p) == IF HopOf(p) \in Ports THEN Uses(Stream(HopOf(p)), p) ELSE 0

BurstOnce   == \A x, y \in DOMAIN burst : burst[x] = burst[y] => x = y
LoopIdle    == pc \in {"loop", "rx"} => burst = <<>> /\ hop = <<>> /\ i = 0 /\ lpm = 0
NicFits     == \A q \in Ports : Len(nic[q]) <= NicDepth
RefsCounted == \A p \in Pkts : ref[p] = W(p) + UsesAt(p)
FreshBurst  == \A p \in Pkts : Awaited(p) => UsesAt(p) = 0

RefInv ==
  /\ ref \in [Pkts -> Int]
  /\ BurstOnce /\ LoopIdle /\ NicFits /\ RefsCounted /\ FreshBurst
-----------------------------------------------------------------------------
UsePos(s, p) == {k \in DOMAIN s : s[k][1] = p}

LEMMA UsesType ==
  ASSUME NEW s \in Seq(Entry), NEW p
  PROVE  /\ IsFiniteSet(UsePos(s, p)) /\ Uses(s, p) = Cardinality(UsePos(s, p))
         /\ Uses(s, p) \in Nat
         /\ Uses(s, p) = 0 <=> \A k \in DOMAIN s : s[k][1] # p
<1>1. IsFiniteSet(1 .. Len(s)) /\ UsePos(s, p) \subseteq 1 .. Len(s)
  <2>1. Len(s) \in Int /\ DOMAIN s = 1 .. Len(s)
    OBVIOUS
  <2> QED
    BY <2>1, FS_Interval DEF UsePos
<1>2. IsFiniteSet(UsePos(s, p))
  BY <1>1, FS_Subset
<1>3. Uses(s, p) = Cardinality(UsePos(s, p))
  BY DEF Uses, UsePos
<1>4. Uses(s, p) \in Nat /\ (Uses(s, p) = 0 <=> UsePos(s, p) = {})
  BY <1>2, <1>3, FS_CardinalityType, FS_EmptySet
<1> QED
  BY <1>2, <1>3, <1>4 DEF UsePos

LEMMA UsesConcat ==
  ASSUME NEW a \in Seq(Entry), NEW b \in Seq(Entry), NEW p
  PROVE  Uses(a \o b, p) = Uses(a, p) + Uses(b, p)
<1> DEFINE S == UsePos(a, p)
           T == {k \in DOMAIN (a \o b) : k > Len(a) /\ (a \o b)[k][1] = p}
<1>1. /\ DOMAIN a = 1 .. Len(a) /\ DOMAIN b = 1 .. Len(b)
      /\ DOMAIN (a \o b) = 1 .. Len(a) + Len(b)
      /\ Len(a) \in Nat /\ Len(b) \in Nat
  BY ConcatDomain
<1>2. \A k \in 1 .. Len(a) + Len(b) :
        (a \o b)[k] = IF k <= Len(a) THEN a[k] ELSE b[k - Len(a)]
  BY ConcatFacts
<1>3. UsePos(a \o b, p) = S \cup T /\ S \cap T = {}
  <2>1. ASSUME NEW k PROVE k \in UsePos(a \o b, p) <=> k \in S \cup T
    <3>1. CASE k \in 1 .. Len(a)
      <4>1. (a \o b)[k] = a[k] /\ k \in 1 .. Len(a) + Len(b) /\ ~(k > Len(a))
        BY <1>1, <1>2, <3>1
      <4> QED
        BY <1>1, <3>1, <4>1 DEF UsePos
    <3>2. CASE k \notin 1 .. Len(a)
      BY <1>1, <3>2 DEF UsePos
    <3> QED
      BY <3>1, <3>2
  <2>2. S \cap T = {}
    BY <1>1 DEF UsePos
  <2> QED
    BY <2>1, <2>2
<1>4. IsFiniteSet(T) /\ Cardinality(T) = Uses(b, p)
  <2> DEFINE B == UsePos(b, p)
             f == [k \in B |-> k + Len(a)]
  <2>1. IsFiniteSet(B) /\ Cardinality(B) = Uses(b, p)
    BY UsesType
  <2>2. \A k \in B : k + Len(a) \in T
    <3> SUFFICES ASSUME NEW k \in B PROVE k + Len(a) \in T
      OBVIOUS
    <3>1. k \in 1 .. Len(b) /\ b[k][1] = p
      BY <1>1 DEF UsePos
    <3>2. k + Len(a) \in 1 .. Len(a) + Len(b) /\ k + Len(a) > Len(a) /\ (k + Len(a)) - Len(a) = k
      BY <1>1, <3>1
    <3>3. (a \o b)[k + Len(a)] = b[k]
      BY <1>1, <1>2, <3>2
    <3> QED
      BY <1>1, <3>1, <3>2, <3>3
  <2>3. \A t \in T : t - Len(a) \in B /\ f[t - Len(a)] = t
    <3> SUFFICES ASSUME NEW t \in T PROVE t - Len(a) \in B /\ f[t - Len(a)] = t
      OBVIOUS
    <3>1. t \in 1 .. Len(a) + Len(b) /\ t > Len(a) /\ (a \o b)[t][1] = p
      BY <1>1
    <3>2. t - Len(a) \in 1 .. Len(b) /\ (a \o b)[t] = b[t - Len(a)] /\ (t - Len(a)) + Len(a) = t
      BY <1>1, <1>2, <3>1
    <3>3. t - Len(a) \in B
      BY <1>1, <3>1, <3>2 DEF UsePos
    <3> QED
      BY <3>2, <3>3
  <2>4. \A k, m \in B : k + Len(a) = m + Len(a) => k = m
    BY <1>1 DEF UsePos
  <2>5. f \in Bijection(B, T)
    <3> HIDE DEF B, T
    <3>1. f \in [B -> T]
      BY <2>2
    <3>2. f \in Injection(B, T)
      BY <2>4, <3>1 DEF Injection, IsInjective
    <3>3. f \in Surjection(B, T)
      BY <2>3, <3>1 DEF Surjection
    <3> QED
      BY <3>2, <3>3 DEF Bijection
  <2>6. ExistsBijection(B, T)
    BY <2>5 DEF ExistsBijection
  <2> QED
    BY <2>1, <2>6, FS_Bijection
<1>5. IsFiniteSet(S) /\ Cardinality(S) = Uses(a, p)
  BY UsesType
<1> HIDE DEF S, T
<1>6. Cardinality(S \cup T) = Cardinality(S) + Cardinality(T) - Cardinality(S \cap T)
  BY <1>4, <1>5, FS_Union
<1>7. Cardinality(S \cup T) = Uses(a, p) + Uses(b, p)
  <2>1. Cardinality(S \cap T) = 0
    BY <1>3, FS_EmptySet
  <2>2. Uses(a, p) \in Nat /\ Uses(b, p) \in Nat
    BY UsesType
  <2>3. Cardinality(S) = Uses(a, p) /\ Cardinality(T) = Uses(b, p)
    BY <1>4, <1>5
  <2> QED
    BY <1>6, <2>1, <2>2, <2>3
<1>8. Uses(a \o b, p) = Cardinality(UsePos(a \o b, p))
  BY DEF Uses, UsePos
<1> QED
  BY <1>3, <1>7, <1>8

(* All entries of f are of packet c. *)
LEMMA UsesOf ==
  ASSUME NEW f \in Seq(Entry), NEW c, \A k \in DOMAIN f : f[k][1] = c
  PROVE  Uses(f, c) = Len(f) /\ \A p : p # c => Uses(f, p) = 0
<1>1. UsePos(f, c) = 1 .. Len(f) /\ Len(f) \in Nat
  BY DEF UsePos
<1>2. Cardinality(1 .. Len(f)) = Len(f)
  BY <1>1, FS_Interval
<1> QED
  BY <1>1, <1>2, UsesType
-----------------------------------------------------------------------------
LEMMA SplitAt ==
  ASSUME NEW S, NEW s \in Seq(S), NEW n \in Nat, n <= Len(s)
  PROVE  /\ SubSeq(s, 1, n) \in Seq(S) /\ SubSeq(s, n + 1, Len(s)) \in Seq(S)
         /\ Len(SubSeq(s, 1, n)) = n
         /\ s = SubSeq(s, 1, n) \o SubSeq(s, n + 1, Len(s))
<1> DEFINE a == SubSeq(s, 1, n)
           b == SubSeq(s, n + 1, Len(s))
<1>1. /\ Len(s) \in Nat
      /\ a \in Seq(S) /\ Len(a) = n /\ \A k \in 1 .. n : a[k] = s[k]
  OBVIOUS
<1>2. /\ b \in Seq(S) /\ Len(b) = Len(s) - n
      /\ \A k \in 1 .. Len(s) - n : b[k] = s[n + k]
  BY <1>1
<1> HIDE DEF a, b
<1>3. /\ a \o b \in Seq(S) /\ Len(a \o b) = Len(s)
      /\ \A k \in 1 .. Len(s) : (a \o b)[k] = IF k <= n THEN a[k] ELSE b[k - n]
  <2>1. /\ a \o b \in Seq(S) /\ Len(a \o b) = Len(a) + Len(b)
        /\ \A k \in 1 .. Len(a) + Len(b) :
             (a \o b)[k] = IF k <= Len(a) THEN a[k] ELSE b[k - Len(a)]
    BY <1>1, <1>2, ConcatFacts
  <2>2. Len(a) + Len(b) = Len(s)
    BY <1>1, <1>2
  <2> QED
    BY <1>1, <2>1, <2>2
<1>4. ASSUME NEW k \in 1 .. Len(s)
      PROVE  (a \o b)[k] = s[k]
  <2>1. CASE k <= n
    BY <1>1, <1>3, <2>1
  <2>2. CASE ~(k <= n)
    <3>1. k - n \in 1 .. Len(s) - n /\ n + (k - n) = k
      BY <1>1, <2>2
    <3> QED
      BY <1>2, <1>3, <2>2, <3>1
  <2> QED
    BY <2>1, <2>2
<1>5. a \o b = s
  <2>1. \A x, y \in Seq(S) : Len(x) = Len(y) /\ (\A k \in 1 .. Len(x) : x[k] = y[k]) => x = y
    OBVIOUS
  <2> QED
    BY <1>1, <1>3, <1>4, <2>1
<1> QED
  BY <1>1, <1>2, <1>5 DEF a, b

LEMMA ConcatAssoc ==
  ASSUME NEW S, NEW x \in Seq(S), NEW y \in Seq(S), NEW z \in Seq(S)
  PROVE  (x \o y) \o z = x \o (y \o z)
  OBVIOUS

LEMMA StreamType ==
  ASSUME Shape, NEW q \in Ports
  PROVE  /\ tbl[q] \in Seq(Entry) /\ nic[q] \in Seq(Entry) /\ Stream(q) \in Seq(Entry)
         /\ \A p : Uses(Stream(q), p) = Uses(nic[q], p) + Uses(tbl[q], p)
<1>1. tbl[q] \in Seq(Entry) /\ nic[q] \in Seq(Entry)
  BY DEF Shape
<1> QED
  BY <1>1, ConcatFacts, UsesConcat DEF Stream

(* Entries of other ports are of other packets. *)
LEMMA ElsewhereNone ==
  ASSUME Shape, BuffersRight, NEW q \in Ports, NEW p, HopOf(p) # q
  PROVE  Uses(tbl[q], p) = 0 /\ Uses(nic[q], p) = 0
<1>1. tbl[q] \in Seq(Entry) /\ nic[q] \in Seq(Entry)
  BY StreamType
<1>2. \A k \in DOMAIN tbl[q] : tbl[q][k][1] # p
  BY DEF BuffersRight
<1>3. \A k \in DOMAIN nic[q] : nic[q][k][1] # p
  BY DEF BuffersRight
<1> QED
  BY <1>1, <1>2, <1>3, UsesType

LEMMA UsesAtNat ==
  ASSUME Shape, NEW p
  PROVE  UsesAt(p) \in Nat /\ W(p) \in {0, 1}
<1>1. ASSUME HopOf(p) \in Ports PROVE Uses(Stream(HopOf(p)), p) \in Nat
  <2>1. Stream(HopOf(p)) \in Seq(Entry)
    BY <1>1, StreamType
  <2> QED
    BY <2>1, UsesType
<1> QED
  BY <1>1 DEF UsesAt, W

(* A step that keeps what waits, and takes from the mbuf of each packet as *)
(* many references as it takes entries from its port.                      *)
LEMMA TakeStep ==
  ASSUME TxInv, RefInv, Shape', NEW q \in Ports, NEW g,
         \A p \in Pkts : g[p] \in Nat,
         ref' = [p \in Pkts |-> ref[p] - g[p]],
         \A p \in Pkts : Uses(Stream(q)', p) = Uses(Stream(q), p) - g[p],
         \A r \in Ports : r # q => Stream(r)' = Stream(r),
         \A p \in Pkts : HopOf(p) # q => g[p] = 0,
         burst' = burst, Done' = Done
  PROVE  /\ ref' \in [Pkts -> Int]
         /\ BurstOnce' /\ RefsCounted' /\ FreshBurst'
<1>1. ref' \in [Pkts -> Int]
  BY DEF RefInv
<1>2. BurstOnce'
  BY DEF RefInv, BurstOnce
<1>3. \A p : Awaited(p)' = Awaited(p) /\ W(p)' = W(p)
  BY DEF Awaited, W
<1>4. ASSUME NEW p \in Pkts
      PROVE  UsesAt(p)' = UsesAt(p) - g[p]
  <2>1. CASE HopOf(p) = q
    BY <2>1 DEF UsesAt, HopOf
  <2>2. CASE HopOf(p) \in Ports /\ HopOf(p) # q
    <3>1. Stream(HopOf(p))' = Stream(HopOf(p)) /\ g[p] = 0
      BY <2>2
    <3>2. UsesAt(p)' = UsesAt(p)
      BY <2>2, <3>1 DEF UsesAt, HopOf
    <3> QED
      BY <3>1, <3>2, UsesAtNat DEF TxInv
  <2>3. CASE HopOf(p) \notin Ports
    <3>1. g[p] = 0 /\ UsesAt(p) = 0 /\ UsesAt(p)' = 0
      BY <2>3 DEF UsesAt, HopOf
    <3> QED
      BY <3>1
  <2> QED
    BY <2>1, <2>2, <2>3
<1>5. RefsCounted'
  <2> SUFFICES ASSUME NEW p \in Pkts PROVE ref'[p] = W(p)' + UsesAt(p)'
    BY DEF RefsCounted
  <2>1. ref[p] = W(p) + UsesAt(p) /\ ref'[p] = ref[p] - g[p] /\ g[p] \in Nat
    BY DEF RefInv, RefsCounted
  <2>2. UsesAt(p) \in Nat /\ W(p) \in {0, 1}
    BY UsesAtNat DEF TxInv
  <2> QED
    BY <1>3, <1>4, <2>1, <2>2
<1>6. FreshBurst'
  <2> SUFFICES ASSUME NEW p \in Pkts, Awaited(p)' PROVE UsesAt(p)' = 0
    BY DEF FreshBurst
  <2>1. UsesAt(p) = 0 /\ g[p] \in Nat
    BY <1>3 DEF RefInv, FreshBurst
  <2>2. UsesAt(p)' \in Nat
    <3>1. ASSUME HopOf(p) \in Ports PROVE Uses(Stream(HopOf(p))', p) \in Nat
      <4>1. nic'[HopOf(p)] \in Seq(Entry) /\ tbl'[HopOf(p)] \in Seq(Entry)
        BY <3>1 DEF Shape
      <4>2. Stream(HopOf(p))' \in Seq(Entry)
        BY <4>1, ConcatFacts DEF Stream, HopOf
      <4> QED
        BY <4>2, UsesType
    <3> QED
      BY <3>1 DEF UsesAt, HopOf
  <2> QED
    BY <1>4, <2>1, <2>2
<1> QED
  BY <1>1, <1>2, <1>5, <1>6

(* send_burst: every entry goes to the NIC or is freed. *)
LEMMA SendBurstRefs ==
  ASSUME TxInv, RefInv, Shape', NEW q \in Ports, NEW acc \in 0 .. MAX_PKT_BURST,
         SendBurst(q, acc), burst' = burst, Done' = Done
  PROVE  /\ ref' \in [Pkts -> Int]
         /\ BurstOnce' /\ NicFits' /\ RefsCounted' /\ FreshBurst'
         /\ \E s \in Seq(Entry) : Stream(q) = Stream(q)' \o s
<1>1. /\ tbl[q] \in Seq(Entry) /\ nic[q] \in Seq(Entry)
      /\ acc \in Nat /\ Len(tbl[q]) \in Nat /\ Len(nic[q]) \in Nat /\ NicDepth \in Nat
  BY SizeFacts, TxAssumption, SMTT(30) DEF TxInv, Shape
<1>2. acc <= Len(tbl[q]) /\ acc <= NicDepth - Len(nic[q])
  <2>1. acc <= Least(Len(tbl[q]), NicDepth - Len(nic[q]))
    BY DEF SendBurst
  <2>2. acc \in Int /\ Len(tbl[q]) \in Int /\ NicDepth - Len(nic[q]) \in Int
    BY <1>1
  <2>3. ASSUME NEW m \in Int, NEW n \in Int, acc <= Least(m, n)
        PROVE  acc <= m /\ acc <= n
    BY <2>2, <2>3 DEF Least
  <2> QED
    BY <2>1, <2>2, <2>3
<1> DEFINE a == SubSeq(tbl[q], 1, acc)
           b == SubSeq(tbl[q], acc + 1, Len(tbl[q]))
<1>3. /\ a \in Seq(Entry) /\ b \in Seq(Entry) /\ Len(a) = acc
      /\ tbl[q] = a \o b
  BY <1>1, <1>2, SplitAt
<1>4. /\ tbl' = [tbl EXCEPT ![q] = <<>>] /\ nic' = [nic EXCEPT ![q] = @ \o a]
      /\ ref' = [p \in Pkts |-> ref[p] - Uses(b, p)]
  BY DEF SendBurst, Refused
<1> HIDE DEF a, b
<1>5. Stream(q)' = nic[q] \o a /\ nic[q] \o a \in Seq(Entry)
  <2>1. nic'[q] = nic[q] \o a /\ tbl'[q] = <<>>
    BY <1>4 DEF TxInv, Shape
  <2>2. nic[q] \o a \in Seq(Entry)
    BY <1>1, <1>3, ConcatFacts
  <2>3. \A s \in Seq(Entry) : s \o <<>> = s
    OBVIOUS
  <2> QED
    BY <2>1, <2>2, <2>3 DEF Stream
<1>6. \A r \in Ports : r # q => Stream(r)' = Stream(r)
  BY <1>4 DEF Stream, TxInv, Shape
<1>7. Stream(q) = Stream(q)' \o b
  <2>1. nic[q] \o (a \o b) = (nic[q] \o a) \o b
    <3>1. \A x, y, z \in Seq(Entry) : (x \o y) \o z = x \o (y \o z)
      BY ConcatAssoc
    <3> QED
      BY <1>1, <1>3, <3>1, Zenon
  <2>2. Stream(q) = nic[q] \o (a \o b)
    BY <1>3 DEF Stream
  <2> QED
    BY <1>5, <2>1, <2>2
<1> DEFINE g == [p \in Pkts |-> Uses(b, p)]
<1>8. ASSUME NEW p \in Pkts
      PROVE  /\ g[p] \in Nat
             /\ Uses(Stream(q)', p) = Uses(Stream(q), p) - g[p]
             /\ HopOf(p) # q => g[p] = 0
  <2>1. /\ Uses(b, p) \in Nat /\ Uses(a, p) \in Nat
        /\ Uses(nic[q] \o a, p) \in Nat
    BY <1>3, <1>5, UsesType
  <2>2. Uses(Stream(q), p) = Uses(Stream(q)', p) + Uses(b, p)
    <3>1. Uses((nic[q] \o a) \o b, p) = Uses(nic[q] \o a, p) + Uses(b, p)
      BY <1>3, <1>5, UsesConcat
    <3> QED
      BY <1>5, <1>7, <3>1
  <2>3. ASSUME HopOf(p) # q PROVE Uses(b, p) = 0
    <3>1. Uses(tbl[q], p) = 0
      BY <2>3, ElsewhereNone DEF TxInv
    <3>2. Uses(tbl[q], p) = Uses(a, p) + Uses(b, p)
      BY <1>3, UsesConcat
    <3> QED
      BY <2>1, <3>1, <3>2
  <2> QED
    BY <1>5, <2>1, <2>2, <2>3
<1>9. ref' = [p \in Pkts |-> ref[p] - g[p]]
  BY <1>4
<1> HIDE DEF g
<1>10. ref' \in [Pkts -> Int] /\ BurstOnce' /\ RefsCounted' /\ FreshBurst'
  BY <1>6, <1>8, <1>9, TakeStep
<1>11. NicFits'
  <2> SUFFICES ASSUME NEW r \in Ports PROVE Len(nic'[r]) <= NicDepth
    BY DEF NicFits
  <2>1. CASE r = q
    <3>1. nic'[r] = nic[q] \o a
      BY <1>4, <2>1 DEF TxInv, Shape
    <3>2. Len(nic[q] \o a) = Len(nic[q]) + acc
      BY <1>1, <1>3, ConcatFacts
    <3> QED
      BY <1>1, <1>2, <3>1, <3>2
  <2>2. CASE r # q
    BY <1>4, <2>2 DEF TxInv, Shape, RefInv, NicFits
  <2> QED
    BY <2>1, <2>2
<1> QED
  BY <1>3, <1>7, <1>10, <1>11

(* The NIC sends its oldest entry. *)
LEMMA NicSendRefs ==
  ASSUME TxInv, RefInv, Shape', NEW q \in Ports, NicSend(q)
  PROVE  /\ ref' \in [Pkts -> Int]
         /\ BurstOnce' /\ NicFits' /\ RefsCounted' /\ FreshBurst'
         /\ \E e \in Entry : Stream(q) = <<e>> \o Stream(q)'
<1>1. /\ nic[q] # <<>> /\ nic' = [nic EXCEPT ![q] = Tail(@)]
      /\ ref' = [ref EXCEPT ![Head(nic[q])[1]] = @ - 1]
      /\ UNCHANGED <<frag, pc, route, tbl>>
  BY DEF NicSend
<1>2. nic[q] \in Seq(Entry) /\ tbl[q] \in Seq(Entry)
  BY DEF TxInv, Shape
<1> DEFINE e == Head(nic[q])
           t == Tail(nic[q])
<1>3. /\ e \in Entry /\ t \in Seq(Entry) /\ nic[q] = <<e>> \o t
      /\ Len(t) <= Len(nic[q]) /\ Len(t) \in Nat /\ e = nic[q][1] /\ 1 \in DOMAIN nic[q]
  BY <1>1, <1>2
<1>4. e[1] \in Pkts /\ HopOf(e[1]) = q
  BY <1>3 DEF Entry, TxInv, BuffersRight
<1>5. /\ nic' = [nic EXCEPT ![q] = t]
      /\ ref' = [ref EXCEPT ![e[1]] = @ - 1]
  BY <1>1
<1>6. Len(nic[q]) \in Nat
  BY <1>2
<1> HIDE DEF e, t
<1>7. Stream(q)' = t \o tbl[q] /\ t \o tbl[q] \in Seq(Entry) /\ Stream(q) = <<e>> \o Stream(q)'
  <2>1. nic'[q] = t /\ tbl'[q] = tbl[q]
    BY <1>1, <1>5 DEF TxInv, Shape
  <2>2. t \o tbl[q] \in Seq(Entry)
    BY <1>2, <1>3, ConcatFacts
  <2>3. <<e>> \in Seq(Entry)
    BY <1>3
  <2>4. (<<e>> \o t) \o tbl[q] = <<e>> \o (t \o tbl[q])
    <3>1. \A x, y, z \in Seq(Entry) : (x \o y) \o z = x \o (y \o z)
      BY ConcatAssoc
    <3> QED
      BY <1>2, <1>3, <2>3, <3>1, Zenon
  <2>5. Stream(q) = (<<e>> \o t) \o tbl[q] /\ Stream(q)' = t \o tbl[q]
    BY <1>3, <2>1 DEF Stream
  <2> QED
    BY <2>2, <2>4, <2>5
<1>8. \A r \in Ports : r # q => Stream(r)' = Stream(r)
  BY <1>1, <1>5 DEF Stream, TxInv, Shape
<1> DEFINE g == [p \in Pkts |-> IF p = e[1] THEN 1 ELSE 0]
<1>9. ASSUME NEW p \in Pkts
      PROVE  /\ g[p] \in Nat
             /\ Uses(Stream(q)', p) = Uses(Stream(q), p) - g[p]
             /\ HopOf(p) # q => g[p] = 0
  <2>1. <<e>> \in Seq(Entry) /\ \A k \in DOMAIN <<e>> : <<e>>[k][1] = e[1]
    BY <1>3
  <2>2. Uses(<<e>>, p) = g[p]
    <3>1. Len(<<e>>) = 1
      OBVIOUS
    <3> QED
      BY <2>1, <3>1, UsesOf
  <2>3. Uses(Stream(q), p) = Uses(<<e>>, p) + Uses(Stream(q)', p)
    <3>1. Uses(<<e>> \o (t \o tbl[q]), p) = Uses(<<e>>, p) + Uses(t \o tbl[q], p)
      BY <1>7, <2>1, UsesConcat
    <3> QED
      BY <1>7, <3>1
  <2>4. Uses(Stream(q)', p) \in Nat
    BY <1>7, UsesType
  <2> QED
    BY <1>4, <2>2, <2>3, <2>4
<1>10. ref' = [p \in Pkts |-> ref[p] - g[p]]
  <2>1. ref \in [Pkts -> Int] /\ e[1] \in Pkts
    BY <1>4 DEF RefInv
  <2>2. ref' = [p \in Pkts |-> IF p = e[1] THEN ref[p] - 1 ELSE ref[p]]
    BY <1>5, <2>1
  <2>3. \A p \in Pkts : ref[p] - g[p] = IF p = e[1] THEN ref[p] - 1 ELSE ref[p]
    BY <2>1
  <2> QED
    BY <2>2, <2>3
<1>11. burst' = burst /\ Done' = Done
  BY <1>1 DEF route, Done
<1> HIDE DEF g
<1>12. ref' \in [Pkts -> Int] /\ BurstOnce' /\ RefsCounted' /\ FreshBurst'
  BY <1>8, <1>9, <1>10, <1>11, TakeStep
<1>13. NicFits'
  <2> SUFFICES ASSUME NEW r \in Ports PROVE Len(nic'[r]) <= NicDepth
    BY DEF NicFits
  <2>1. CASE r = q
    <3>1. nic'[r] = t /\ Len(nic[q]) <= NicDepth /\ NicDepth \in Nat
      BY <1>5, <2>1, TxAssumption DEF TxInv, Shape, RefInv, NicFits
    <3> QED
      BY <1>3, <1>6, <3>1
  <2>2. CASE r # q
    BY <1>5, <2>2 DEF TxInv, Shape, RefInv, NicFits
  <2> QED
    BY <2>1, <2>2
<1> QED
  BY <1>3, <1>7, <1>12, <1>13
-----------------------------------------------------------------------------
(* The current packet is dealt with. *)
LEMMA CurDone ==
  ASSUME TxInv, RefInv, pc \in {"route", "send"}, i < Len(burst),
         burst' = burst, Done' = i + 1
  PROVE  /\ BurstOnce' /\ Cur \in Pkts /\ Awaited(Cur)
         /\ \A p : Awaited(p)' <=> Awaited(p) /\ p # Cur
<1>1. /\ Cur \in Pkts /\ i + 1 \in DOMAIN burst /\ i \in Nat /\ Cur = burst[i + 1]
      /\ DOMAIN burst \subseteq Nat
  BY CurFacts DEF TxInv, Shape, Cur
<1>2. Done = i
  BY <1>1 DEF Done
<1>3. BurstOnce'
  BY DEF RefInv, BurstOnce
<1>4. Awaited(Cur)
  BY <1>1, <1>2 DEF Awaited
<1>5. ASSUME NEW p
      PROVE  Awaited(p)' <=> Awaited(p) /\ p # Cur
  <2>1. ASSUME NEW x \in DOMAIN burst
        PROVE  x > i + 1 <=> x > i /\ x # i + 1
    BY <1>1
  <2>2. \A x \in DOMAIN burst : burst[x] = Cur <=> x = i + 1
    BY <1>1 DEF RefInv, BurstOnce
  <2> QED
    BY <1>1, <1>2, <2>1, <2>2 DEF Awaited
<1> QED
  BY <1>1, <1>3, <1>4, <1>5

(* It is freed: no lookup result, too big, or not to be fragmented. *)
LEMMA DropRefs ==
  ASSUME TxInv, RefInv, pc \in {"route", "send"}, i < Len(burst), burst' = burst, Done' = i + 1,
         ref' = [ref EXCEPT ![Cur] = @ - 1], UNCHANGED <<tbl, nic>>
  PROVE  ref' \in [Pkts -> Int] /\ BurstOnce' /\ NicFits' /\ RefsCounted' /\ FreshBurst'
<1>1. /\ BurstOnce' /\ Cur \in Pkts /\ Awaited(Cur)
      /\ \A p : Awaited(p)' <=> Awaited(p) /\ p # Cur
  BY CurDone
<1>2. \A p : UsesAt(p)' = UsesAt(p)
  BY DEF UsesAt, HopOf, Stream
<1>3. ref' = [p \in Pkts |-> IF p = Cur THEN ref[p] - 1 ELSE ref[p]] /\ ref \in [Pkts -> Int]
  BY <1>1 DEF RefInv
<1>4. RefsCounted'
  <2> SUFFICES ASSUME NEW p \in Pkts PROVE ref'[p] = W(p)' + UsesAt(p)'
    BY DEF RefsCounted
  <2>1. ref[p] = W(p) + UsesAt(p) /\ UsesAt(p) \in Nat
    BY UsesAtNat DEF RefInv, RefsCounted, TxInv
  <2>2. CASE p = Cur
    <3>1. W(p) = 1 /\ W(p)' = 0
      BY <1>1, <2>2 DEF W
    <3> QED
      BY <1>2, <1>3, <2>1, <2>2, <3>1
  <2>3. CASE p # Cur
    <3>1. W(p)' = W(p)
      BY <1>1, <2>3 DEF W
    <3> QED
      BY <1>2, <1>3, <2>1, <2>3, <3>1
  <2> QED
    BY <2>2, <2>3
<1>5. FreshBurst' /\ NicFits'
  BY <1>1, <1>2 DEF FreshBurst, RefInv, NicFits
<1>6. ref' \in [Pkts -> Int]
  <2>1. \A p \in Pkts : (IF p = Cur THEN ref[p] - 1 ELSE ref[p]) \in Int
    BY <1>3
  <2> QED
    BY <1>3, <2>1
<1> QED
  BY <1>1, <1>4, <1>5, <1>6

(* It joins the buffer of its port, whole or in fragments, each with a     *)
(* reference; its own is dropped.                                          *)
LEMMA PutRefs ==
  ASSUME TxInv, RefInv, pc = "send", burst' = burst, Done' = i + 1,
         NEW f \in Seq(Entry), \A k \in DOMAIN f : f[k][1] = Cur,
         tbl' = [tbl EXCEPT ![port] = @ \o f],
         ref' = [ref EXCEPT ![Cur] = @ + Len(f) - 1], UNCHANGED <<port, nic>>
  PROVE  /\ ref' \in [Pkts -> Int] /\ BurstOnce' /\ NicFits' /\ RefsCounted' /\ FreshBurst'
         /\ Stream(port)' = Stream(port) \o f
<1>0. i < Len(burst)
  BY DEF TxInv, Shape
<1>1. /\ BurstOnce' /\ Cur \in Pkts /\ Awaited(Cur)
      /\ \A p : Awaited(p)' <=> Awaited(p) /\ p # Cur
  BY <1>0, CurDone
<1>2. port \in Ports /\ port = HopOf(Cur) /\ tbl[port] \in Seq(Entry) /\ nic[port] \in Seq(Entry)
  BY DEF TxInv, Shape, PortRight
<1>3. Stream(port)' = Stream(port) \o f
  <2>1. tbl'[port] = tbl[port] \o f
    BY <1>2 DEF TxInv, Shape
  <2>2. \A x, y, z \in Seq(Entry) : (x \o y) \o z = x \o (y \o z)
    BY SMTT(30), ConcatAssoc
  <2>3. (nic[port] \o tbl[port]) \o f = nic[port] \o (tbl[port] \o f)
    BY <1>2, <2>2, ZenonT(30)
  <2>4. Stream(port)' = nic[port] \o (tbl[port] \o f)
    BY <2>1 DEF Stream
  <2> QED
    BY <2>3, <2>4 DEF Stream
<1>4. ASSUME NEW p \in Pkts, p # Cur
      PROVE  UsesAt(p)' = UsesAt(p)
  <2>1. CASE HopOf(p) = port
    <3>1. Uses(Stream(port) \o f, p) = Uses(Stream(port), p) + Uses(f, p)
      BY <1>2, StreamType, UsesConcat DEF TxInv
    <3>2. Uses(f, p) = 0 /\ Uses(Stream(port), p) \in Nat
      BY <1>2, <1>4, UsesOf, StreamType, UsesType DEF TxInv
    <3>3. UsesAt(p) = Uses(Stream(port), p) /\ UsesAt(p)' = Uses(Stream(port) \o f, p)
      BY <1>2, <1>3, <2>1 DEF UsesAt, HopOf
    <3> QED
      BY <3>1, <3>2, <3>3
  <2>2. CASE HopOf(p) # port
    BY <2>2 DEF UsesAt, HopOf, Stream, TxInv, Shape
  <2> QED
    BY <2>1, <2>2
<1>5. UsesAt(Cur) = 0
  BY <1>1 DEF RefInv, FreshBurst
<1>6. Len(f) \in Nat
  OBVIOUS
<1>7. ref' = [p \in Pkts |-> IF p = Cur THEN ref[p] + Len(f) - 1 ELSE ref[p]] /\ ref \in [Pkts -> Int]
  BY <1>1 DEF RefInv
<1>8. ASSUME NEW p \in Pkts
      PROVE  ref'[p] = W(p)' + UsesAt(p)' /\ (Awaited(p)' => UsesAt(p)' = 0)
  <2>1. ref[p] = W(p) + UsesAt(p) /\ UsesAt(p) \in Nat /\ (Awaited(p) => UsesAt(p) = 0)
    BY UsesAtNat DEF RefInv, RefsCounted, TxInv, FreshBurst
  <2>2. CASE p # Cur
    <3>1. W(p)' = W(p)
      BY <1>1, <2>2 DEF W
    <3> QED
      BY <1>1, <1>4, <1>7, <2>1, <2>2, <3>1
  <2>3. CASE p = Cur
    <3>1. W(p) = 1 /\ W(p)' = 0 /\ ~Awaited(p)'
      BY <1>1, <2>3 DEF W
    <3>2. Uses(Stream(port) \o f, p) = Uses(Stream(port), p) + Uses(f, p)
      BY <1>2, StreamType, UsesConcat DEF TxInv
    <3>3. Uses(f, p) = Len(f)
      BY <2>3, UsesOf
    <3>4. Uses(Stream(port), p) = 0 /\ UsesAt(p)' = Uses(Stream(port) \o f, p)
      BY <1>2, <1>3, <1>5, <2>3 DEF UsesAt, HopOf
    <3> QED
      BY <1>5, <1>6, <1>7, <2>1, <2>3, <3>1, <3>2, <3>3, <3>4
  <2> QED
    BY <2>2, <2>3
<1>9. NicFits' /\ ref' \in [Pkts -> Int]
  <2>1. \A p \in Pkts : (IF p = Cur THEN ref[p] + Len(f) - 1 ELSE ref[p]) \in Int
    BY <1>6, <1>7
  <2> QED
    BY <1>7, <2>1 DEF RefInv, NicFits
<1> QED
  BY <1>1, <1>3, <1>8, <1>9 DEF RefsCounted, FreshBurst

(* Nothing waits for the new burst, so its mbufs, free before, have one    *)
(* reference each.                                                         *)
LEMMA RouteRefs ==
  ASSUME TxInv, RefInv, Route
  PROVE  ref' \in [Pkts -> Int] /\ BurstOnce' /\ NicFits' /\ RefsCounted' /\ FreshBurst'
<1>1a. PICK k \in 0 .. MaxRouted : \E b \in [1 .. k -> {p \in Pkts : ref[p] = 0}] :
         /\ \A x, y \in 1 .. k : b[x] = b[y] => x = y
         /\ burst' = b
         /\ ref' = [p \in Pkts |-> IF \E x \in 1 .. k : b[x] = p THEN 1 ELSE ref[p]]
  BY DEF Route
<1>1. PICK b \in [1 .. k -> {p \in Pkts : ref[p] = 0}] :
         /\ \A x, y \in 1 .. k : b[x] = b[y] => x = y
         /\ burst' = b
         /\ ref' = [p \in Pkts |-> IF \E x \in 1 .. k : b[x] = p THEN 1 ELSE ref[p]]
  BY <1>1a
<1>2. pc = "rx" /\ pc' = "route" /\ i' = 0 /\ tbl' = tbl /\ nic' = nic
  BY DEF Route
<1>3. Done' = 0 /\ DOMAIN burst' = 1 .. k /\ k \in Nat
  BY <1>1, <1>2, TxAssumption DEF Done
<1>4. \A p : Awaited(p)' <=> \E x \in 1 .. k : b[x] = p
  BY <1>1, <1>3 DEF Awaited
<1>5. \A p : ~Awaited(p)
  BY <1>2 DEF RefInv, LoopIdle, Awaited
<1>6. \A p : UsesAt(p)' = UsesAt(p)
  BY <1>2 DEF UsesAt, HopOf, Stream
<1>7. ASSUME NEW p \in Pkts
      PROVE  ref'[p] = W(p)' + UsesAt(p)' /\ (Awaited(p)' => UsesAt(p)' = 0)
  <2>1. ref[p] = UsesAt(p) /\ UsesAt(p) \in Nat
    BY <1>5, UsesAtNat DEF RefInv, RefsCounted, TxInv, W
  <2>2. CASE Awaited(p)'
    <3>1. ref[p] = 0 /\ ref'[p] = 1 /\ W(p)' = 1
      BY <1>1, <1>4, <2>2 DEF W
    <3>2. UsesAt(p)' = UsesAt(p)
      BY <1>6
    <3>3. UsesAt(p)' = 0
      BY <2>1, <3>1, <3>2
    <3> QED
      BY <3>1, <3>3
  <2>3. CASE ~Awaited(p)'
    <3>1. ref'[p] = ref[p] /\ W(p)' = 0
      BY <1>1, <1>4, <2>3 DEF W
    <3> QED
      BY <1>6, <2>1, <2>3, <3>1
  <2> QED
    BY <2>2, <2>3
<1>8. BurstOnce'
  BY <1>1, <1>3 DEF BurstOnce
<1>9. NicFits' /\ ref' \in [Pkts -> Int]
  BY <1>1, <1>2 DEF RefInv, NicFits
<1> QED
  BY <1>7, <1>8, <1>9 DEF RefsCounted, FreshBurst

(* A step that moves no packet. *)
LEMMA KeptRefs ==
  ASSUME RefInv, \A p : Awaited(p)' <=> Awaited(p), BurstOnce', UNCHANGED <<ref, tbl, nic>>
  PROVE  ref' \in [Pkts -> Int] /\ BurstOnce' /\ NicFits' /\ RefsCounted' /\ FreshBurst'
<1>1. \A p : UsesAt(p)' = UsesAt(p) /\ W(p)' = W(p)
  BY DEF UsesAt, HopOf, Stream, W
<1> QED
  BY <1>1 DEF RefInv, RefsCounted, FreshBurst, NicFits
-----------------------------------------------------------------------------
LEMMA InitRefInv == Init => RefInv
<1> SUFFICES ASSUME Init PROVE RefInv
  OBVIOUS
<1>1. Shape
  BY InitTxInv DEF TxInv
<1>2. ref \in [Pkts -> Int] /\ BurstOnce /\ LoopIdle
  BY DEF Init, BurstOnce, LoopIdle
<1>3. NicFits
  BY TxAssumption DEF Init, NicFits
<1>4. \A p : W(p) = 0 /\ ~Awaited(p)
  BY DEF Init, W, Awaited
<1>5. ASSUME NEW p PROVE UsesAt(p) = 0
  <2>1. ASSUME NEW q \in Ports PROVE Uses(Stream(q), p) = 0
    <3>1. tbl[q] = <<>> /\ nic[q] = <<>>
      BY DEF Init
    <3>2. Uses(tbl[q], p) = 0 /\ Uses(nic[q], p) = 0
      BY <3>1, <1>1, StreamType, UsesType
    <3> QED
      BY <1>1, <3>2, StreamType
  <2> QED
    BY <2>1 DEF UsesAt
<1>6. RefsCounted /\ FreshBurst
  BY <1>4, <1>5 DEF Init, RefsCounted, FreshBurst
<1> QED
  BY <1>2, <1>3, <1>6 DEF RefInv

LEMMA NextRefInv == TxInv /\ TxInv' /\ RefInv /\ [Next]_vars => RefInv'
<1> SUFFICES ASSUME TxInv, TxInv', RefInv, [Next]_vars PROVE RefInv'
  OBVIOUS
<1>0. Shape /\ Shape' /\ LoopIdle
  BY DEF TxInv, RefInv
<1>1. CASE UNCHANGED vars
  <2>1. (\A p : Awaited(p)' <=> Awaited(p)) /\ BurstOnce'
    BY <1>1 DEF vars, route, Awaited, Done, RefInv, BurstOnce
  <2> QED
    BY <1>1, <2>1, KeptRefs DEF vars, route, RefInv, LoopIdle
<1>2. CASE DrainEnd
  <2>1. /\ pc = "loop" /\ pc' = "rx" /\ UNCHANGED <<route, ref, tbl, nic>>
    BY <1>2 DEF DrainEnd
  <2>2. (\A p : Awaited(p)' <=> Awaited(p)) /\ BurstOnce'
    BY <2>1 DEF route, Awaited, Done, RefInv, BurstOnce
  <2>3. LoopIdle'
    BY <1>0, <2>1 DEF LoopIdle, route
  <2> QED
    BY <2>1, <2>2, <2>3, KeptRefs DEF RefInv
<1>3. CASE Route
  <2>1. LoopIdle'
    BY <1>3 DEF Route, LoopIdle
  <2> QED
    BY <1>3, <2>1, RouteRefs DEF RefInv
<1>4. CASE RoutePkt
  <2>1. LoopIdle'
    BY <1>4 DEF RoutePkt, LoopIdle
  <2>2. /\ pc = "route" /\ i < Len(burst) /\ UNCHANGED <<burst, hop, tbl, nic>>
        /\ \/ pc' = "route" /\ i' = i + 1 /\ ref' = [ref EXCEPT ![Cur] = @ - 1]
           \/ pc' = "send" /\ i' = i /\ ref' = ref
    BY <1>4 DEF RoutePkt
  <2>3. i \in Nat
    BY <1>0 DEF Shape
  <2>4. CASE pc' = "route" /\ i' = i + 1 /\ ref' = [ref EXCEPT ![Cur] = @ - 1]
    <3>1. Done' = i + 1
      BY <2>3, <2>4 DEF Done
    <3> QED
      BY <2>1, <2>2, <2>4, <3>1, DropRefs DEF RefInv
  <2>5. CASE pc' = "send" /\ i' = i /\ ref' = ref
    <3>1. (\A p : Awaited(p)' <=> Awaited(p)) /\ BurstOnce'
      BY <2>2, <2>5 DEF Awaited, Done, RefInv, BurstOnce
    <3> QED
      BY <2>1, <2>2, <2>5, <3>1, KeptRefs DEF RefInv
  <2> QED
    BY <2>2, <2>4, <2>5
<1>5. CASE RouteEnd
  <2>1. /\ pc = "route" /\ i = Len(burst) /\ pc' = "loop"
        /\ burst' = <<>> /\ hop' = <<>> /\ i' = 0 /\ lpm' = 0
        /\ UNCHANGED <<ref, tbl, nic>>
    BY <1>5 DEF RouteEnd
  <2>2. LoopIdle' /\ BurstOnce'
    BY <2>1 DEF LoopIdle, BurstOnce
  <2>3. \A p : ~Awaited(p)
    <3>1. Done = i /\ DOMAIN burst = 1 .. i /\ i \in Nat
      BY <1>0, <2>1 DEF Done, Shape
    <3> QED
      BY <3>1 DEF Awaited
  <2>4. \A p : ~Awaited(p)'
    BY <2>1 DEF Awaited
  <2> QED
    BY <2>1, <2>2, <2>3, <2>4, KeptRefs DEF RefInv
<1>6. CASE SendWhole
  <2>1. /\ pc = "send" /\ pc' = "full" /\ tbl' = [tbl EXCEPT ![port] = Append(@, <<Cur, 0>>)]
        /\ UNCHANGED <<frag, route, ref, nic>>
    BY <1>6 DEF SendWhole
  <2>2. Cur \in Pkts /\ port \in Ports /\ tbl[port] \in Seq(Entry) /\ i \in Nat
    BY <1>0, <2>1, CurFacts DEF Shape
  <2> DEFINE f == <<<<Cur, 0>>>>
  <2>3. f \in Seq(Entry) /\ Len(f) = 1 /\ \A k \in DOMAIN f : f[k][1] = Cur
    BY <2>2 DEF Entry
  <2>4. tbl' = [tbl EXCEPT ![port] = @ \o f]
    <3>1. <<Cur, 0>> \in Entry
      BY <2>2 DEF Entry
    <3>2. Append(tbl[port], <<Cur, 0>>) = tbl[port] \o f
      BY <2>2, <3>1, AppendIsConcat
    <3> QED
      BY <1>0, <2>1, <3>2 DEF Shape
  <2> HIDE DEF f
  <2>5. ref' = [ref EXCEPT ![Cur] = @ + Len(f) - 1]
    BY <2>1, <2>2, <2>3 DEF RefInv
  <2>6. burst' = burst /\ Done' = i + 1
    BY <2>1, <2>2 DEF Done, route
  <2>7. LoopIdle'
    BY <2>1 DEF LoopIdle
  <2> QED
    BY <2>1, <2>3, <2>4, <2>5, <2>6, <2>7, PutRefs DEF RefInv, route
<1>7. CASE SendTooBig
  <2>1. /\ pc = "send" /\ pc' = "full" /\ ref' = [ref EXCEPT ![Cur] = @ - 1]
        /\ UNCHANGED <<route, tbl, nic>>
    BY <1>7 DEF SendTooBig
  <2>2. burst' = burst /\ Done' = i + 1 /\ i < Len(burst) /\ LoopIdle'
    BY <1>0, <2>1 DEF Done, route, Shape, LoopIdle
  <2> QED
    BY <2>1, <2>2, DropRefs DEF RefInv
<1>8. CASE FragmentFlush
  <2>1. UNCHANGED <<frag, pc, route>> /\ port \in Ports
    BY <1>0, <1>8 DEF FragmentFlush, Shape
  <2>2. burst' = burst /\ Done' = Done /\ LoopIdle'
    BY <1>0, <2>1 DEF Done, route, LoopIdle
  <2>3. PICK acc \in 0 .. MAX_PKT_BURST : SendBurst(port, acc)
    BY <1>8 DEF FragmentFlush
  <2> QED
    BY <1>0, <2>1, <2>2, <2>3, SendBurstRefs DEF RefInv
<1>9. CASE FragmentPut
  <2>1. /\ pc = "send" /\ pc' = "full" /\ UNCHANGED <<frag, route, nic>>
    BY <1>9 DEF FragmentPut
  <2>2. burst' = burst /\ Done' = i + 1 /\ i < Len(burst) /\ LoopIdle'
    BY <1>0, <2>1 DEF Done, route, Shape, LoopIdle
  <2>3. CASE ref' = [ref EXCEPT ![Cur] = @ - 1] /\ UNCHANGED tbl
    BY <2>1, <2>2, <2>3, DropRefs DEF RefInv
  <2>4. CASE /\ tbl' = [tbl EXCEPT ![port] = AddFrags(@, FragsOf(Cur))]
             /\ ref' = [ref EXCEPT ![Cur] = FragRefs(Cur)]
    <3>1. Cur \in Pkts
      BY <1>0, <2>2, CurFacts
    <3> DEFINE f == FragsOf(Cur)
    <3>2. f \in Seq(Entry) /\ Len(f) = NbFrags[Cur] /\ \A k \in DOMAIN f : f[k][1] = Cur
      BY <3>1, FragsOfFacts
    <3>3. tbl' = [tbl EXCEPT ![port] = @ \o f]
      BY <2>4 DEF AddFrags
    <3>4. ref' = [ref EXCEPT ![Cur] = @ + NbFrags[Cur] - 1]
      BY <2>4 DEF FragRefs
    <3> HIDE DEF f
    <3>5. ref' = [ref EXCEPT ![Cur] = @ + Len(f) - 1]
      BY <3>2, <3>4
    <3> QED
      BY <2>1, <2>2, <3>2, <3>3, <3>5, PutRefs DEF RefInv, route
  <2> QED
    BY <1>9, <2>3, <2>4 DEF FragmentPut
<1>10. CASE SendIfFull
  <2>1. /\ pc = "full" /\ pc' = "route" /\ i' = i + 1 /\ burst' = burst
    BY <1>10 DEF SendIfFull
  <2>2. burst' = burst /\ Done' = Done /\ LoopIdle' /\ port \in Ports
    BY <1>0, <2>1 DEF Done, LoopIdle, Shape
  <2>3. CASE UNCHANGED <<ref, tbl, nic>>
    <3>1. (\A p : Awaited(p)' <=> Awaited(p)) /\ BurstOnce'
      BY <2>2 DEF Awaited, RefInv, BurstOnce
    <3> QED
      BY <2>2, <2>3, <3>1, KeptRefs DEF RefInv
  <2>4. CASE \E acc \in 0 .. MAX_PKT_BURST : SendBurst(port, acc)
    BY <1>0, <2>2, <2>4, SendBurstRefs DEF RefInv
  <2> QED
    BY <1>10, <2>3, <2>4 DEF SendIfFull
<1>11. ASSUME NEW q \in Ports, DrainTxBuffer(q)
       PROVE  RefInv'
  <2>1. UNCHANGED <<frag, pc, route>>
    BY <1>11 DEF DrainTxBuffer
  <2>2. burst' = burst /\ Done' = Done /\ LoopIdle'
    BY <1>0, <2>1 DEF Done, route, LoopIdle
  <2>3. PICK acc \in 0 .. MAX_PKT_BURST : SendBurst(q, acc)
    BY <1>11 DEF DrainTxBuffer
  <2> QED
    BY <1>0, <2>2, <2>3, SendBurstRefs DEF RefInv
<1>12. ASSUME NEW q \in Ports, NicSend(q)
       PROVE  RefInv'
  <2>1. LoopIdle'
    BY <1>0, <1>12 DEF NicSend, route, LoopIdle
  <2> QED
    BY <1>0, <1>12, <2>1, NicSendRefs DEF RefInv
<1> QED
  BY <1>1, <1>2, <1>3, <1>4, <1>5, <1>6, <1>7, <1>8, <1>9, <1>10, <1>11, <1>12 DEF Next, Lcore

LEMMA AlwaysRefInv == Spec => [](TxInv /\ RefInv)
<1>1. Init => TxInv /\ RefInv
  BY InitTxInv, InitRefInv
<1>2. TxInv /\ RefInv /\ [Next]_vars => (TxInv /\ RefInv)'
  BY NextTxInv, NextRefInv
<1> QED
  BY <1>1, <1>2, PTL DEF Spec
-----------------------------------------------------------------------------
LEMMA WaitingCount ==
  ASSUME TxInv, RefInv, NEW p
  PROVE  Cardinality(Waiting(p)) = W(p)
<1>1. Waiting(p) = {x \in DOMAIN burst : x > Done /\ burst[x] = p}
  BY DEF Waiting, Done
<1>2. CASE Awaited(p)
  <2>1. PICK x \in DOMAIN burst : x > Done /\ burst[x] = p
    BY <1>2 DEF Awaited
  <2>2. Waiting(p) = {x}
    BY <1>1, <2>1 DEF RefInv, BurstOnce
  <2> QED
    BY <1>2, <2>2, FS_Singleton DEF W
<1>3. CASE ~Awaited(p)
  <2>1. Waiting(p) = {}
    BY <1>1, <1>3 DEF Awaited
  <2> QED
    BY <1>3, <2>1, FS_EmptySet DEF W
<1> QED
  BY <1>2, <1>3

(* All entries of a packet are at one port, so they are as many as the     *)
(* positions there.                                                        *)
LEMMA QueuedCount ==
  ASSUME TxInv, NEW p
  PROVE  Cardinality(Queued(p)) = UsesAt(p)
<1> DEFINE Pos(q) == {j \in DOMAIN Stream(q) : Stream(q)[j][1] = p}
           h == HopOf(p)
<1>1. Queued(p) = UNION {{<<q, k>> : k \in Pos(q)} : q \in Ports}
  BY DEF Queued
<1>2. ASSUME NEW q \in Ports, q # h PROVE Pos(q) = {}
  <2>1. Uses(tbl[q], p) = 0 /\ Uses(nic[q], p) = 0
    BY <1>2, ElsewhereNone DEF TxInv
  <2>2. Stream(q) \in Seq(Entry) /\ Uses(Stream(q), p) = 0
    BY <2>1, StreamType DEF TxInv
  <2> QED
    BY <2>2, UsesType
<1>3. CASE h \notin Ports
  <2>1. Queued(p) = {}
    BY <1>1, <1>2, <1>3
  <2> QED
    BY <1>3, <2>1, FS_EmptySet DEF UsesAt
<1>4. CASE h \in Ports
  <2> DEFINE S == UsePos(Stream(h), p)
             T == {<<h, k>> : k \in S}
             f == [k \in S |-> <<h, k>>]
  <2>1. IsFiniteSet(S) /\ Cardinality(S) = Uses(Stream(h), p)
    BY <1>4, StreamType, UsesType DEF TxInv
  <2>2. Queued(p) = T
    <3>1. S = Pos(h)
      BY DEF UsePos
    <3>2. ASSUME NEW x \in T PROVE x \in Queued(p)
      BY <1>1, <1>4, <3>1, <3>2
    <3>3. ASSUME NEW x \in Queued(p) PROVE x \in T
      <4>1. PICK q \in Ports : x \in {<<q, k>> : k \in Pos(q)}
        BY <1>1, <3>3
      <4>2. q = h
        BY <1>2, <4>1
      <4> QED
        BY <3>1, <4>1, <4>2
    <3> QED
      BY <3>2, <3>3
  <2>3. f \in Bijection(S, T)
    <3> HIDE DEF S
    <3>1. f \in [S -> T]
      OBVIOUS
    <3>2. f \in Injection(S, T)
      BY <3>1 DEF Injection, IsInjective
    <3>3. f \in Surjection(S, T)
      BY <3>1 DEF Surjection
    <3> QED
      BY <3>2, <3>3 DEF Bijection
  <2>4. ExistsBijection(S, T)
    BY <2>3 DEF ExistsBijection
  <2>5. Cardinality(T) = Cardinality(S)
    BY <2>1, <2>4, FS_Bijection
  <2> QED
    BY <1>4, <2>1, <2>2, <2>5 DEF UsesAt
<1> QED
  BY <1>3, <1>4

(* No mbuf leaks and none is freed while something refers to it. *)
THEOREM CountsAreExact == Spec => []RefExact
<1>1. TxInv /\ RefInv => RefExact
  BY WaitingCount, QueuedCount DEF RefExact, RefInv, RefsCounted
<1> QED
  BY <1>1, AlwaysRefInv, PTL

(* Types, the NIC's queues included; no reference count is negative. *)
THEOREM TxTypeCorrect == Spec => []TxTypeOK
<1>1. TxInv /\ RefInv => TxTypeOK
  <2> SUFFICES ASSUME TxInv, RefInv PROVE TxTypeOK
    OBVIOUS
  <2>1. /\ frag \in BOOLEAN /\ pc \in {"loop", "rx", "route", "send", "full"}
        /\ port \in Ports /\ i \in 0 .. Len(burst)
    BY DEF TxInv, Shape
  <2>2. lpm \in 0 .. Len(hop)
    <3>1. CASE pc \in {"loop", "rx"}
      BY <3>1 DEF RefInv, LoopIdle
    <3>2. CASE pc \in {"route", "send", "full"}
      <4>1. PICK n \in Nat : \E ix \in [1 .. n -> 1 .. Len(burst)] : HopsOf(n, ix)
        BY <3>2 DEF TxInv, HopsMatch
      <4>2. PICK ix \in [1 .. n -> 1 .. Len(burst)] : HopsOf(n, ix)
        BY <4>1
      <4>3. DOMAIN hop = 1 .. n /\ lpm \in 0 .. n
        BY <4>2 DEF HopsOf
      <4>4. hop \in Seq({hop[x] : x \in 1 .. n})
        <5>1. hop \in [1 .. n -> {hop[x] : x \in 1 .. n}]
          BY <4>2 DEF HopsOf
        <5> QED
          BY SMTT(30), <5>1
      <4>5. Len(hop) = n
        BY <4>3, <4>4
      <4> QED
        BY <4>3, <4>5
    <3> QED
      BY <2>1, <3>1, <3>2
  <2>3. ref \in [Pkts -> Nat]
    <3>1. \A p \in Pkts : ref[p] = W(p) + UsesAt(p) /\ W(p) \in {0, 1} /\ UsesAt(p) \in Nat
      BY UsesAtNat DEF TxInv, RefInv, RefsCounted
    <3>2. \A p \in Pkts : ref[p] \in Nat
      BY <3>1
    <3> QED
      BY <3>2 DEF RefInv
  <2>4. \A q \in Ports : Len(tbl[q]) <= MAX_PKT_BURST /\ Len(nic[q]) <= NicDepth
    BY DEF TxInv, BufferRoom, RefInv, NicFits
  <2> QED
    BY <2>1, <2>2, <2>3, <2>4 DEF TxTypeOK
<1> QED
  BY <1>1, AlwaysRefInv, PTL
-----------------------------------------------------------------------------
(* Taking entries away at either end keeps the order of the others. *)
LEMMA OrderOfPart ==
  ASSUME NEW s \in Seq(Entry), NEW t \in Seq(Entry), NEW r \in Seq(Entry),
         s = t \o r \/ s = r \o t, NEW x, NEW y, Before(t, x, y)
  PROVE  Before(s, x, y)
<1>1. PICK j, k \in DOMAIN t : j < k /\ t[j] = x /\ t[k] = y
  BY DEF Before
<1>2. DOMAIN t = 1 .. Len(t) /\ Len(t) \in Nat /\ Len(r) \in Nat
  OBVIOUS
<1>3. CASE s = t \o r
  <2>1. DOMAIN s = 1 .. Len(t) + Len(r) /\ s[j] = x /\ s[k] = y
    BY <1>1, <1>2, <1>3, ConcatFacts, ConcatDomain
  <2>2. j \in DOMAIN s /\ k \in DOMAIN s
    BY <1>1, <1>2, <2>1
  <2> QED
    BY <1>1, <2>1, <2>2 DEF Before
<1>4. CASE s = r \o t
  <2> DEFINE J == j + Len(r)
             K == k + Len(r)
  <2>1. /\ DOMAIN s = 1 .. Len(r) + Len(t)
        /\ \A z \in 1 .. Len(r) + Len(t) : s[z] = IF z <= Len(r) THEN r[z] ELSE t[z - Len(r)]
    BY <1>4, ConcatFacts, ConcatDomain
  <2>2. J \in DOMAIN s /\ K \in DOMAIN s /\ J < K /\ ~(J <= Len(r)) /\ ~(K <= Len(r))
        /\ J - Len(r) = j /\ K - Len(r) = k
    BY <1>1, <1>2, <2>1
  <2>3. s[J] = x /\ s[K] = y
    BY <1>1, <2>1, <2>2
  <2> QED
    BY <2>2, <2>3 DEF Before
<1> QED
  BY <1>3, <1>4

(* New entries at the end are behind every entry that was there. *)
LEMMA OrderWithMore ==
  ASSUME NEW s \in Seq(Entry), NEW f \in Seq(Entry), NEW x, NEW y,
         y \in Entries(s), \A k \in DOMAIN f : f[k] # y,
         Before(s \o f, x, y)
  PROVE  Before(s, x, y)
<1>1. /\ DOMAIN s = 1 .. Len(s) /\ DOMAIN f = 1 .. Len(f)
      /\ DOMAIN (s \o f) = 1 .. Len(s) + Len(f)
      /\ Len(s) \in Nat /\ Len(f) \in Nat
      /\ \A z \in 1 .. Len(s) + Len(f) : (s \o f)[z] = IF z <= Len(s) THEN s[z] ELSE f[z - Len(s)]
  BY ConcatFacts, ConcatDomain
<1>2. PICK j, k \in 1 .. Len(s) + Len(f) : j < k /\ (s \o f)[j] = x /\ (s \o f)[k] = y
  BY <1>1 DEF Before
<1>3. k <= Len(s)
  <2> SUFFICES ASSUME ~(k <= Len(s)) PROVE FALSE
    OBVIOUS
  <2>1. k - Len(s) \in 1 .. Len(f) /\ (s \o f)[k] = f[k - Len(s)]
    BY <1>1, <1>2
  <2> QED
    BY <1>1, <1>2, <2>1
<1>4. j \in DOMAIN s /\ k \in DOMAIN s /\ s[j] = x /\ s[k] = y
  BY <1>1, <1>2, <1>3
<1> QED
  BY <1>2, <1>4 DEF Before

(* Buffers and NIC together are queues. *)
THEOREM NothingOvertakes == Spec => NoOvertaking
<1> DEFINE Keeps(q) == \A x \in Entries(Stream(q)'), y \in Entries(Stream(q)) :
                         Before(Stream(q)', x, y) => Before(Stream(q), x, y)
<1>1. ASSUME TxInv, TxInv', RefInv, Next, NEW q \in Ports
      PROVE  Keeps(q)
  <2>0. Shape /\ Shape' /\ Stream(q) \in Seq(Entry) /\ Stream(q)' \in Seq(Entry)
    <3>1. nic'[q] \in Seq(Entry) /\ tbl'[q] \in Seq(Entry)
      BY <1>1 DEF TxInv, Shape
    <3>2. Stream(q)' \in Seq(Entry)
      BY <3>1, ConcatFacts DEF Stream
    <3> QED
      BY <1>1, <3>2, StreamType DEF TxInv
  <2>1. CASE Stream(q)' = Stream(q)
    BY <2>1
  <2>2. ASSUME NEW r \in Seq(Entry), Stream(q) = Stream(q)' \o r \/ Stream(q) = r \o Stream(q)'
        PROVE  Keeps(q)
    BY <2>0, <2>2, OrderOfPart
  <2>3. ASSUME NEW p \in Ports, NEW acc \in 0 .. MAX_PKT_BURST, SendBurst(p, acc),
               burst' = burst, Done' = Done
        PROVE  Keeps(q)
    <3>1. CASE p = q
      <4>1. \E s \in Seq(Entry) : Stream(q) = Stream(q)' \o s
        BY <1>1, <2>0, <2>3, <3>1, SendBurstRefs
      <4> QED
        BY <4>1, <2>2
    <3>2. CASE p # q
      BY <1>1, <2>0, <2>1, <2>3, <3>2 DEF SendBurst, Stream, Shape
    <3> QED
      BY <3>1, <3>2
  <2>4. ASSUME NEW p \in Ports, NicSend(p)
        PROVE  Keeps(q)
    <3>1. CASE p = q
      <4>1. PICK e \in Entry : Stream(q) = <<e>> \o Stream(q)'
        BY <1>1, <2>0, <2>4, <3>1, NicSendRefs
      <4>2. <<e>> \in Seq(Entry)
        OBVIOUS
      <4> QED
        BY <4>1, <4>2, <2>2
    <3>2. CASE p # q
      BY <1>1, <2>0, <2>1, <2>4, <3>2 DEF NicSend, Stream, Shape
    <3> QED
      BY <3>1, <3>2
  <2>5. ASSUME pc = "send", pc' = "full", UNCHANGED <<frag, route, nic>>, NEW f \in Seq(Entry),
               \A k \in DOMAIN f : f[k][1] = Cur, tbl' = [tbl EXCEPT ![port] = @ \o f]
        PROVE  Keeps(q)
    <3>1. CASE q # port
      BY <2>0, <2>1, <2>5, <3>1 DEF Stream, Shape
    <3>2. CASE q = port
      <4>1. i < Len(burst) /\ port = HopOf(Cur) /\ nic[q] \in Seq(Entry) /\ tbl[q] \in Seq(Entry)
        BY <1>1, <2>0, <2>5 DEF Shape, TxInv, PortRight
      <4>2. Cur \in Pkts /\ i + 1 \in DOMAIN burst /\ i + 1 > Done
        BY <2>0, <2>5, <4>1, CurFacts, SMTT(30) DEF Done, Shape
      <4>3. Uses(Stream(q), Cur) = 0
        BY <1>1, <3>2, <4>1, <4>2 DEF RefInv, FreshBurst, Awaited, Cur, UsesAt
      <4>4. Stream(q)' = Stream(q) \o f
        <5>1. nic'[q] = nic[q] /\ tbl'[q] = tbl[q] \o f
          BY <2>0, <2>5, <3>2 DEF Shape
        <5>2. \A x, y, z \in Seq(Entry) : (x \o y) \o z = x \o (y \o z)
          BY ConcatAssoc
        <5>3. (nic[q] \o tbl[q]) \o f = nic[q] \o (tbl[q] \o f)
          BY <2>5, <4>1, <5>2, Zenon
        <5> QED
          BY <5>1, <5>3 DEF Stream
      <4>5. \A k \in DOMAIN Stream(q) : Stream(q)[k][1] # Cur
        BY <2>0, <4>3, UsesType
      <4>6. \A y \in Entries(Stream(q)) : \A k \in DOMAIN f : f[k] # y
        BY <2>5, <4>5 DEF Entries
      <4> QED
        BY <2>0, <2>5, <4>4, <4>6, OrderWithMore
    <3> QED
      BY <3>1, <3>2
  <2>6. CASE DrainEnd \/ Route \/ RoutePkt \/ RouteEnd \/ SendTooBig
    BY <2>1, <2>6 DEF DrainEnd, Route, RoutePkt, RouteEnd, SendTooBig, Stream
  <2>7. CASE SendWhole
    <3>1. /\ pc = "send" /\ pc' = "full" /\ tbl' = [tbl EXCEPT ![port] = Append(@, <<Cur, 0>>)]
          /\ UNCHANGED <<frag, route, nic>>
      BY <2>7 DEF SendWhole
    <3>2. Cur \in Pkts /\ port \in Ports /\ tbl[port] \in Seq(Entry)
      BY <2>0, <3>1, CurFacts DEF Shape
    <3> DEFINE f == <<<<Cur, 0>>>>
    <3>3. f \in Seq(Entry) /\ \A k \in DOMAIN f : f[k][1] = Cur
      BY <3>2 DEF Entry
    <3>4. tbl' = [tbl EXCEPT ![port] = @ \o f]
      <4>1. <<Cur, 0>> \in Entry
        BY <3>2 DEF Entry
      <4>2. Append(tbl[port], <<Cur, 0>>) = tbl[port] \o f
        BY <3>2, <4>1, AppendIsConcat
      <4> QED
        BY <2>0, <3>1, <4>2 DEF Shape
    <3> HIDE DEF f
    <3> QED
      BY <2>5, <3>1, <3>3, <3>4
  <2>8. CASE FragmentPut
    <3>1. /\ pc = "send" /\ pc' = "full" /\ UNCHANGED <<frag, route, nic>>
          /\ \/ UNCHANGED tbl
             \/ tbl' = [tbl EXCEPT ![port] = @ \o FragsOf(Cur)]
      BY <2>8 DEF FragmentPut, AddFrags
    <3>2. CASE UNCHANGED tbl
      BY <2>1, <3>1, <3>2 DEF Stream
    <3>3. CASE tbl' = [tbl EXCEPT ![port] = @ \o FragsOf(Cur)]
      <4>1. Cur \in Pkts
        BY <2>0, <3>1, CurFacts DEF Shape
      <4>2. FragsOf(Cur) \in Seq(Entry) /\ \A k \in DOMAIN FragsOf(Cur) : FragsOf(Cur)[k][1] = Cur
        BY <4>1, FragsOfFacts
      <4> QED
        BY <2>5, <3>1, <3>3, <4>2
    <3> QED
      BY <3>1, <3>2, <3>3
  <2>9. CASE FragmentFlush
    <3>1. port \in Ports /\ burst' = burst /\ Done' = Done
      BY <2>0, <2>9 DEF Shape, FragmentFlush, route, Done
    <3> QED
      BY <2>3, <2>9, <3>1 DEF FragmentFlush
  <2>10. CASE SendIfFull
    <3>1. port \in Ports /\ burst' = burst /\ Done' = Done
      BY <2>0, <2>10 DEF Shape, SendIfFull, Done
    <3>2. UNCHANGED <<tbl, nic>> \/ \E acc \in 0 .. MAX_PKT_BURST : SendBurst(port, acc)
      BY <2>10 DEF SendIfFull
    <3> QED
      BY <2>1, <2>3, <3>1, <3>2 DEF Stream
  <2>11. CASE \E p \in Ports : DrainTxBuffer(p)
    <3>1. PICK p \in Ports : DrainTxBuffer(p)
      BY <2>11
    <3>2. burst' = burst /\ Done' = Done
      BY <3>1 DEF DrainTxBuffer, route, Done
    <3> QED
      BY <2>3, <3>1, <3>2 DEF DrainTxBuffer
  <2> QED
    BY <1>1, <2>4, <2>6, <2>7, <2>8, <2>9, <2>10, <2>11 DEF Next, Lcore
<1>2. TxInv /\ TxInv' /\ RefInv /\ [Next]_vars => [\A q \in Ports : Keeps(q)]_vars
  BY <1>1
<1> QED
  BY <1>2, AlwaysRefInv, PTL DEF Spec, NoOvertaking
=============================================================================
