------------------------------- MODULE TxPath -------------------------------
(***************************************************************************)
(* From routing to the NIC on one polling lcore: route4_pkts and           *)
(* route6_pkts (they are alike) look up the port of each packet of a       *)
(* burst, send_single_packet puts it in the lcore's TX buffer of that      *)
(* port, in fragments when it exceeds the MTU, and send_burst hands a      *)
(* buffer to the NIC when it is full or when the polling loop drains it.   *)
(*                                                                         *)
(* An entry of a TX buffer is <<p, k>>: packet p itself when k is 0, its   *)
(* fragment k otherwise.  A fragment refers to the data of the mbuf of p,  *)
(* so the mbuf is free when its reference count is 0.  The NIC transmits   *)
(* concurrently.                                                           *)
(***************************************************************************)
EXTENDS Integers, Sequences, FiniteSets

CONSTANTS
  Pkts,          \* mbufs, each with the packet it carries
  Ports,         \* Ethernet ports
  NoHop,         \* a failed lookup
  MAX_PKT_BURST, \* size of buffer.m_table
  MAX_FRAG,      \* RTE_LIBRTE_IP_FRAG_MAX_FRAG
  MaxRouted,     \* packets routed at a time: 2 * MAX_PKT_BURST, or a smaller bound
  NicDepth,      \* descriptors of a TX queue
  NbFrags,       \* fragments a packet needs; 1 if it fits in mtu_size
  Offload,       \* packets with RTE_MBUF_F_TX_SEC_OFFLOAD
  LpmHop,        \* the port the routing table gives a packet, or NoHop
  SaPort,        \* sa->portid of the SA saved with a packet, or NoHop
  MayNotFragment \* packets that may not be fragmented (DF set, no mbuf for the fragments)

ASSUME TxAssumption ==
  /\ NoHop \notin Ports
  /\ MAX_FRAG \in Nat \ {0} /\ MAX_PKT_BURST \in Nat /\ MAX_FRAG < MAX_PKT_BURST
  /\ MaxRouted \in 0 .. 2 * MAX_PKT_BURST
  /\ NicDepth \in Nat \ {0}
  /\ NbFrags \in [Pkts -> Nat \ {0}]
  /\ Offload \subseteq Pkts
  /\ LpmHop \in [Pkts -> Ports \cup {NoHop}]
  /\ SaPort \in [Pkts -> Ports \cup {NoHop}]
  /\ MayNotFragment \subseteq Pkts

VARIABLES
  frag,   \* frag_tbl_sz > 0, from the command line
  pc,     \* "loop", "rx", "route", "send" or "full"
  burst,  \* the packets to route
  hop,    \* results of rte_lpm_lookup_bulk
  i, lpm, \* packets routed, results used
  port,   \* the port of the packet being sent
  ref,    \* reference count of each mbuf
  tbl,    \* tx_mbufs[port].m_table[0 .. len-1]
  nic     \* entries in the TX queue of each port

route == <<burst, hop, i, lpm, port>>
vars  == <<frag, pc, route, ref, tbl, nic>>

Init ==
  /\ frag \in BOOLEAN
  /\ pc = "loop"
  /\ burst = <<>> /\ hop = <<>> /\ i = 0 /\ lpm = 0
  /\ port \in Ports
  /\ ref = [p \in Pkts |-> 0]
  /\ tbl = [q \in Ports |-> <<>>]
  /\ nic = [q \in Ports |-> <<>>]
-----------------------------------------------------------------------------
Least(a, b) == IF a <= b THEN a ELSE b

Uses(s, p) == Cardinality({k \in DOMAIN s : s[k][1] = p})

(* rte_eth_tx_burst takes a prefix of the buffer.  Mutant: what it refuses *)
(* is not freed.                                                           *)
RefusedKept(s, acc) == <<>>

Refused(s, acc) == SubSeq(s, acc + 1, Len(s))

SendBurst(q, acc) ==
  /\ acc <= Least(Len(tbl[q]), NicDepth - Len(nic[q]))
  /\ nic' = [nic EXCEPT ![q] = @ \o SubSeq(tbl[q], 1, acc)]
  /\ tbl' = [tbl EXCEPT ![q] = <<>>]
  /\ ref' = [p \in Pkts |-> ref[p] - Uses(Refused(tbl[q], acc), p)]

(* drain_tx_buffers, when the drain interval has passed: the buffer of one *)
(* port after the other.                                                   *)
DrainTxBuffer(q) ==
  /\ pc = "loop" /\ tbl[q] # <<>>
  /\ \E acc \in 0 .. MAX_PKT_BURST : SendBurst(q, acc)
  /\ UNCHANGED <<frag, pc, route>>

DrainEnd ==
  /\ pc = "loop"
  /\ pc' = "rx"
  /\ UNCHANGED <<frag, route, ref, tbl, nic>>

(* A burst from the NIC, or twice as many packets from the IPsec context;  *)
(* the packets without security offload are looked up.  Mutant: every      *)
(* packet is looked up.                                                    *)
LpmPktsAll(b) == DOMAIN b

LpmPkts(b) == {k \in DOMAIN b : b[k] \notin Offload}

(* ix lists the members of S in ascending order. *)
Lists(ix, S) ==
  /\ S = {ix[x] : x \in DOMAIN ix}
  /\ \A x, y \in DOMAIN ix : x < y => ix[x] < ix[y]

Route ==
  /\ pc = "rx"
  /\ \E k \in 0 .. MaxRouted : \E b \in [1 .. k -> {p \in Pkts : ref[p] = 0}] :
       /\ \A x, y \in 1 .. k : b[x] = b[y] => x = y
       /\ burst' = b
       /\ \E n \in 0 .. k : \E ix \in [1 .. n -> 1 .. k] :
            /\ Lists(ix, LpmPkts(b))
            /\ hop' = [x \in 1 .. n |-> LpmHop[b[ix[x]]]]
       /\ ref' = [p \in Pkts |-> IF \E x \in 1 .. k : b[x] = p THEN 1 ELSE ref[p]]
  /\ i' = 0 /\ lpm' = 0
  /\ pc' = "route"
  /\ UNCHANGED <<frag, port, tbl, nic>>

Cur == burst[i + 1]

(* The lookup result that belongs to the current packet.  Mutant: results  *)
(* are counted for offloaded packets too.                                  *)
NextLpmAlways == lpm + 1

NextLpm == IF Cur \in Offload THEN lpm ELSE lpm + 1

PktHop == IF Cur \in Offload THEN SaPort[Cur] ELSE hop[lpm + 1]

RoutePkt ==
  /\ pc = "route" /\ i < Len(burst)
  /\ lpm' = NextLpm
  /\ \/ /\ PktHop = NoHop
        /\ ref' = [ref EXCEPT ![Cur] = @ - 1]
        /\ i' = i + 1
        /\ UNCHANGED <<pc, port>>
     \/ /\ PktHop # NoHop
        /\ port' = PktHop
        /\ pc' = "send"
        /\ UNCHANGED <<ref, i>>
  /\ UNCHANGED <<frag, burst, hop, tbl, nic>>

RouteEnd ==
  /\ pc = "route" /\ i = Len(burst)
  /\ pc' = "loop"
  /\ burst' = <<>> /\ hop' = <<>> /\ i' = 0 /\ lpm' = 0
  /\ UNCHANGED <<frag, port, ref, tbl, nic>>
-----------------------------------------------------------------------------
(* send_single_packet. *)
SendWhole ==
  /\ pc = "send" /\ NbFrags[Cur] = 1
  /\ tbl' = [tbl EXCEPT ![port] = Append(@, <<Cur, 0>>)]
  /\ pc' = "full"
  /\ UNCHANGED <<frag, route, ref, nic>>

SendTooBig ==
  /\ pc = "send" /\ NbFrags[Cur] > 1 /\ ~frag
  /\ ref' = [ref EXCEPT ![Cur] = @ - 1]
  /\ pc' = "full"
  /\ UNCHANGED <<frag, route, tbl, nic>>

(* send_fragment_packet: the buffer is sent first unless MAX_FRAG more     *)
(* entries leave it short of full.  Mutant: unless they leave it full.     *)
NeedsRoomLate == Len(tbl[port]) + MAX_FRAG > MAX_PKT_BURST

NeedsRoom == Len(tbl[port]) + MAX_FRAG >= MAX_PKT_BURST

FragmentFlush ==
  /\ pc = "send" /\ NbFrags[Cur] > 1 /\ frag /\ NeedsRoom
  /\ \E acc \in 0 .. MAX_PKT_BURST : SendBurst(port, acc)
  /\ UNCHANGED <<frag, pc, route>>

(* The fragments follow what the buffer holds.  Mutant: they are written   *)
(* from the start of the buffer.                                           *)
AddFragsFront(s, f) == f \o s

AddFrags(s, f) == s \o f

FragsOf(p) == [k \in 1 .. NbFrags[p] |-> <<p, k>>]

(* Every fragment takes a reference; the packet's own is dropped.  Mutant: *)
(* it is kept.                                                             *)
FragRefsKept(p) == ref[p] + NbFrags[p]

FragRefs(p) == ref[p] + NbFrags[p] - 1

FragmentPut ==
  /\ pc = "send" /\ NbFrags[Cur] > 1 /\ frag /\ ~NeedsRoom
  /\ \/ /\ NbFrags[Cur] <= MAX_PKT_BURST - Len(tbl[port])
        /\ tbl' = [tbl EXCEPT ![port] = AddFrags(@, FragsOf(Cur))]
        /\ ref' = [ref EXCEPT ![Cur] = FragRefs(Cur)]
     \/ /\ Cur \in MayNotFragment \/ NbFrags[Cur] > MAX_PKT_BURST - Len(tbl[port])
        /\ ref' = [ref EXCEPT ![Cur] = @ - 1]
        /\ UNCHANGED tbl
  /\ pc' = "full"
  /\ UNCHANGED <<frag, route, nic>>

(* The end of send_single_packet: a full buffer is sent.  Mutant: one      *)
(* entry before it is full.                                                *)
FullEarly == Len(tbl[port]) = MAX_PKT_BURST - 1

Full == Len(tbl[port]) = MAX_PKT_BURST

SendIfFull ==
  /\ pc = "full"
  /\ \/ Full /\ \E acc \in 0 .. MAX_PKT_BURST : SendBurst(port, acc)
     \/ ~Full /\ UNCHANGED <<ref, tbl, nic>>
  /\ i' = i + 1
  /\ pc' = "route"
  /\ UNCHANGED <<frag, burst, hop, lpm, port>>

(* The NIC, external: the oldest entry of a TX queue is sent and freed. *)
NicSend(q) ==
  /\ nic[q] # <<>>
  /\ nic' = [nic EXCEPT ![q] = Tail(@)]
  /\ ref' = [ref EXCEPT ![Head(nic[q])[1]] = @ - 1]
  /\ UNCHANGED <<frag, pc, route, tbl>>

Lcore ==
  \/ DrainEnd \/ Route \/ RoutePkt \/ RouteEnd
  \/ SendWhole \/ SendTooBig \/ FragmentFlush \/ FragmentPut \/ SendIfFull

Next == Lcore \/ \E q \in Ports : DrainTxBuffer(q) \/ NicSend(q)

Spec == Init /\ [][Next]_vars

(* The lcore keeps polling, the drain interval passes again and again, the *)
(* NIC sends what it holds.                                                *)
FairSpec ==
  /\ Spec
  /\ WF_vars(Lcore)
  /\ \A q \in Ports : SF_vars(DrainTxBuffer(q)) /\ WF_vars(NicSend(q))
-----------------------------------------------------------------------------
(* Type invariant. *)
TxTypeOK ==
  /\ frag \in BOOLEAN
  /\ pc \in {"loop", "rx", "route", "send", "full"}
  /\ port \in Ports
  /\ i \in 0 .. Len(burst) /\ lpm \in 0 .. Len(hop)
  /\ ref \in [Pkts -> Nat]
  /\ \A q \in Ports : Len(tbl[q]) <= MAX_PKT_BURST /\ Len(nic[q]) <= NicDepth

(* send_single_packet writes m_table[len] without a bound check: whenever  *)
(* a packet is about to be added its buffer has room, although fragments   *)
(* come several at a time and a buffer is sent only at exactly             *)
(* MAX_PKT_BURST entries.                                                  *)
TableHasRoom ==
  \A q \in Ports : (pc = "full" /\ port = q) \/ Len(tbl[q]) < MAX_PKT_BURST

Stream(q) == nic[q] \o tbl[q]

(* What refers to the mbuf of p: the burst, until it is handled, and the   *)
(* entries on their way out.                                               *)
Waiting(p) == {x \in DOMAIN burst : x > i + (IF pc = "full" THEN 1 ELSE 0) /\ burst[x] = p}
Queued(p)  ==
  UNION {{<<q, k>> : k \in {j \in DOMAIN Stream(q) : Stream(q)[j][1] = p}} : q \in Ports}

(* The reference count of every mbuf is the number of places that refer to *)
(* it: nothing leaks and nothing is freed while a fragment still uses it,  *)
(* whatever the NIC refuses and whichever fragmentation fails.             *)
RefExact == \A p \in Pkts : ref[p] = Cardinality(Waiting(p)) + Cardinality(Queued(p))

(* A packet waits at, and leaves by, the port its own lookup gave: the     *)
(* results of the bulk lookup skip the offloaded packets of the burst.     *)
RightPort ==
  \A q \in Ports : \A k \in DOMAIN Stream(q) :
    LET p == Stream(q)[k][1]
    IN  q = IF p \in Offload THEN SaPort[p] ELSE LpmHop[p]

Entries(s) == {s[k] : k \in DOMAIN s}
Before(s, x, y) == \E j, k \in DOMAIN s : j < k /\ s[j] = x /\ s[k] = y

(* Nothing overtakes on a port: a step may drop entries and add new ones   *)
(* at the end, it never puts an entry in front of an older one.            *)
NoOvertaking ==
  [][\A q \in Ports : \A x \in Entries(Stream(q)'), y \in Entries(Stream(q)) :
       Before(Stream(q)', x, y) => Before(Stream(q), x, y)]_vars

(* "outgoing packets with bigger size will be fragmented": when there is a *)
(* fragment table a packet with a port is in the buffer, whole or in       *)
(* fragments, when send_single_packet is done with it, if it may be        *)
(* fragmented and needs no more than MAX_FRAG + 1 fragments: whatever the  *)
(* buffer holds, the room made for them is enough.                         *)
EveryPktQueued ==
  [][pc = "send" /\ pc' = "full" /\ frag
       /\ Cur \notin MayNotFragment /\ NbFrags[Cur] <= MAX_FRAG + 1
     => Len(tbl'[port]) = Len(tbl[port]) + NbFrags[Cur]]_vars

(* Every mbuf that was routed is free again in the end. *)
TxCompletes == \A p \in Pkts : ref[p] > 0 ~> ref[p] = 0
=============================================================================
