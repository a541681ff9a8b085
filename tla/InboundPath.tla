---------------------------- MODULE InboundPath -----------------------------
(***************************************************************************)
(* The inbound direction on one polling lcore: prepare_traffic sorts a     *)
(* burst, sad_lookup finds the SA of every IPsec packet through the        *)
(* lcore's SAD cache, ipsec_inbound or ipsec_process decrypts (at once for *)
(* inline SAs, later through a crypto device for the others), and          *)
(* inbound_sp_sa checks every packet against the security policy.          *)
(*                                                                         *)
(* The private area of an mbuf keeps the SA of its last use: neither the   *)
(* NIC nor prepare_traffic clears it.  dec is a ghost variable: the SA     *)
(* that did decrypt what the mbuf holds now.                               *)
(***************************************************************************)
EXTENDS PktLists

CONSTANTS
  Mbufs,         \* mbufs of the pool
  Wire,          \* packets that may arrive, as records (see WirePkts)
  Sas,           \* inbound SAs
  NoSa,          \* a null SA pointer
  Spi, SaType,   \* spi of an SA; "TRANSPORT", "IP4_TUNNEL" or "IP6_TUNNEL"
  SaAddr,        \* tunnel end points of an SA
  Spis, Addrs,   \* SPIs and pairs of end points in packets
  Sad,           \* sad_v4 and sad_v6: SPI to SA, as ipsec_sad_add builds them
  HasSad,        \* families whose table exists: some SA of the family is configured
  InlineSas,     \* SAs with an inline session
  CacheSz,       \* entries of the SAD cache, a power of two or 0
  SpOn,          \* whether the inbound SPD of a family exists
  UdpEncap,      \* app_sa_prm.udp_encap
  HasUserdata,   \* rte_security_get_userdata finds the SA
  BYPASS, DISCARD,
  NoPkt,         \* what an mbuf in the pool carries
  MAX_PKT_BURST

(* kind: "esp" (UDP encapsulated if udp), "clear", or "other" (not IP, or  *)
(* an IPv6 header longer than the segment); v: outer family; off, nicSa:   *)
(* RX_SEC_OFFLOAD and the SA the NIC used; iv, rule: family and policy of  *)
(* the packet that remains after decryption.                               *)
WirePkts ==
  [kind : {"esp", "clear", "other"}, v : Fam, spi : Spis, addr : Addrs, udp : BOOLEAN,
   off : BOOLEAN, nicSa : Sas, iv : Fam, rule : Sas \cup {BYPASS, DISCARD}]

ASSUME InAssumption ==
  /\ IsFiniteSet(Mbufs)
  /\ NoSa \notin Sas /\ BYPASS \notin Sas /\ DISCARD \notin Sas
  /\ Wire \subseteq WirePkts /\ NoPkt \notin Wire
  /\ Spis \subseteq Nat
  /\ Spi \in [Sas -> Spis]
  /\ SaType \in [Sas -> {"TRANSPORT", "IP4_TUNNEL", "IP6_TUNNEL"}]
  /\ SaAddr \in [Sas -> Addrs]
  /\ Sad \in [Fam -> [Spis -> Sas \cup {NoSa}]]
  /\ \A v \in Fam, s \in Spis : Sad[v][s] # NoSa => Spi[Sad[v][s]] = s
  /\ HasSad \subseteq Fam
  /\ InlineSas \subseteq Sas
  /\ CacheSz \in Nat
  /\ SpOn \in [Fam -> BOOLEAN] /\ UdpEncap \in BOOLEAN /\ HasUserdata \in BOOLEAN
  /\ MAX_PKT_BURST \in Nat \ {0}

VARIABLES
  pc,      \* "rx", "prepare", "lookup", "miss", "process", "policy", "route", "drain"
  wire,    \* what each mbuf carries
  meta,    \* priv->sa of each mbuf
  dec,     \* ghost: the SA that decrypted the contents
  burst,   \* the burst received
  ipsec,   \* traffic.ipsec.pkts
  saptr,   \* traffic.ipsec.saptr
  key,     \* the SPI sad_lookup reads from each packet
  miss,    \* indices of ipsec still to be looked up in the SAD
  cache,   \* sad_cache.v4 and .v6
  crypto,  \* mbufs at a crypto device
  ip,      \* traffic.ip4.pkts and traffic.ip6.pkts
  lim,     \* n_ip4 and n_ip6: the packets that were never IPsec
  next     \* what follows the routing: "drain" or "rx"

lookup == <<saptr, key, miss, cache>>
vars   == <<pc, wire, meta, dec, burst, ipsec, lookup, crypto, ip, lim, next>>

Init ==
  /\ pc = "rx" /\ next = "drain"
  /\ wire = [m \in Mbufs |-> NoPkt]
  /\ meta \in [Mbufs -> Sas \cup {NoSa}]
  /\ dec = [m \in Mbufs |-> NoSa]
  /\ burst = <<>> /\ ipsec = <<>> /\ saptr = <<>> /\ key = <<>> /\ miss = {}
  /\ cache = [v \in Fam |-> [x \in 0 .. CacheSz - 1 |-> NoSa]]
  /\ crypto = {}
  /\ ip = NoPkts /\ lim = [v \in Fam |-> 0]

Free(M) == wire' = [m \in Mbufs |-> IF m \in M THEN NoPkt ELSE wire[m]]
-----------------------------------------------------------------------------
(* The NIC has put packet w[k] of the burst into mbuf b[k]. *)
Arrived(b, w, m) == w[CHOOSE k \in DOMAIN b : b[k] = m]

Rx ==
  /\ pc = "rx"
  /\ \E n \in 0 .. MAX_PKT_BURST :
     \E b \in [1 .. n -> {m \in Mbufs : wire[m] = NoPkt}], w \in [1 .. n -> Wire] :
       /\ Once(b)
       /\ burst' = b
       /\ wire' = [m \in Mbufs |-> IF m \in Ran(b) THEN Arrived(b, w, m) ELSE wire[m]]
       /\ dec' = [m \in Mbufs |->
            IF m \in Ran(b) /\ wire'[m].off THEN wire'[m].nicSa
            ELSE IF m \in Ran(b) THEN NoSa ELSE dec[m]]
  /\ pc' = "prepare"
  /\ UNCHANGED <<meta, ipsec, lookup, crypto, ip, lim, next>>

IsIpsec(m) == wire[m].kind = "esp" /\ (wire[m].udp => UdpEncap)
IsPlain(m) == wire[m].kind # "other" /\ ~IsIpsec(m)

(* prepare_one_packet; a packet the NIC decrypted brings its SA along. *)
PrepareOne ==
  LET m == Head(burst) IN
  /\ pc = "prepare" /\ burst # <<>>
  /\ burst' = Tail(burst)
  /\ \/ /\ wire[m].kind = "other"
        /\ Free({m})
        /\ UNCHANGED <<meta, ipsec, ip>>
     \/ /\ IsIpsec(m) \/ IsPlain(m)
        /\ ipsec' = IF IsIpsec(m) THEN Append(ipsec, m) ELSE ipsec
        /\ ip' = IF IsPlain(m) THEN [ip EXCEPT ![wire[m].v] = Append(@, m)] ELSE ip
        /\ meta' = IF wire[m].off /\ HasUserdata THEN [meta EXCEPT ![m] = wire[m].nicSa]
                                                 ELSE meta
        /\ UNCHANGED wire
  /\ UNCHANGED <<pc, dec, lookup, crypto, lim, next>>

PrepareEnd ==
  /\ pc = "prepare" /\ burst = <<>>
  /\ lim' = [v \in Fam |-> Len(ip[v])]
  /\ pc' = "lookup"
  /\ UNCHANGED <<wire, meta, dec, burst, ipsec, lookup, crypto, ip, next>>
-----------------------------------------------------------------------------
(* cmp_sa_key *)
CmpSaKey(s, v, addr) ==
  \/ SaType[s] = "TRANSPORT"
  \/ v = "v4" /\ SaType[s] = "IP4_TUNNEL" /\ SaAddr[s] = addr
  \/ v = "v6" /\ SaType[s] = "IP6_TUNNEL" /\ SaAddr[s] = addr

(* cache->mask is CacheSz - 1; a mask of 0 disables the cache. *)
CacheOn == CacheSz > 1
Idx(spi) == spi % CacheSz
Cached(v, spi) == IF CacheOn THEN cache[v][Idx(spi)] ELSE NoSa

(* A cache hit.  Mutant: the SPI of the entry is not compared. *)
HitAnySpi(v, spi, addr) ==
  /\ Cached(v, spi) # NoSa
  /\ CmpSaKey(Cached(v, spi), v, addr)

Hit(v, spi, addr) ==
  /\ Cached(v, spi) # NoSa
  /\ Spi[Cached(v, spi)] = spi
  /\ CmpSaKey(Cached(v, spi), v, addr)

(* udp_hdr_len is set by the first UDP-encapsulated packet of the burst    *)
(* and never reset: what follows is read 8 bytes further on, where any     *)
(* value may stand.                                                        *)
Shifted(k) == ~wire[ipsec[k]].udp /\ \E j \in 1 .. k - 1 : wire[ipsec[j]].udp

(* sad_lookup, first loop: every packet is looked up in the cache. *)
LookupCache ==
  /\ pc = "lookup"
  /\ \E r \in [DOMAIN ipsec -> Spis] :
       /\ \A k \in DOMAIN ipsec : ~Shifted(k) => r[k] = wire[ipsec[k]].spi
       /\ key' = r
       /\ LET H == {k \in DOMAIN ipsec :
                      Hit(wire[ipsec[k]].v, r[k], wire[ipsec[k]].addr)}
          IN  /\ saptr' = [k \in DOMAIN ipsec |->
                             IF k \in H THEN Cached(wire[ipsec[k]].v, r[k]) ELSE NoSa]
              /\ miss' = DOMAIN ipsec \ H
  /\ pc' = "miss"
  /\ UNCHANGED <<wire, meta, dec, burst, ipsec, cache, crypto, ip, lim, next>>

(* The misses are resolved in order, those of IPv4 first. *)
NextMiss(k) ==
  /\ k \in miss
  /\ \A j \in miss :
       \/ wire[ipsec[k]].v = wire[ipsec[j]].v /\ k <= j
       \/ wire[ipsec[k]].v = "v4" /\ wire[ipsec[j]].v = "v6"

(* rte_ipsec_sad_lookup fills the results unless the table is missing;     *)
(* then v4_res or v6_res is read as the stack holds it.                    *)
SadResults(v, spi) == IF v \in HasSad THEN {Sad[v][spi]} ELSE Sas \cup {NoSa}

(* sad_lookup, second part: one result.  Mutant: it is cached in the first *)
(* entry, whatever its SPI.                                                *)
ResolveMissFirst(k, s) ==
  LET p == wire[ipsec[k]]
      found == s # NoSa /\ CmpSaKey(s, p.v, p.addr)
  IN  /\ saptr' = [saptr EXCEPT ![k] = IF found THEN s ELSE NoSa]
      /\ cache' = IF found /\ CacheOn THEN [cache EXCEPT ![p.v][0] = s] ELSE cache

ResolveMiss(k, s) ==
  LET p == wire[ipsec[k]]
      found == s # NoSa /\ CmpSaKey(s, p.v, p.addr)
  IN  /\ saptr' = [saptr EXCEPT ![k] = IF found THEN s ELSE NoSa]
      /\ cache' = IF found /\ CacheOn THEN [cache EXCEPT ![p.v][Idx(Spi[s])] = s] ELSE cache

LookupSad ==
  /\ pc = "miss"
  /\ \E k \in miss :
       /\ NextMiss(k)
       /\ \E s \in SadResults(wire[ipsec[k]].v, key[k]) : ResolveMiss(k, s)
       /\ miss' = miss \ {k}
  /\ UNCHANGED <<pc, wire, meta, dec, burst, ipsec, key, crypto, ip, lim, next>>

LookupEnd ==
  /\ pc = "miss" /\ miss = {}
  /\ pc' = "process"
  /\ UNCHANGED <<wire, meta, dec, burst, ipsec, lookup, crypto, ip, lim, next>>
-----------------------------------------------------------------------------
SaOf(m) == saptr[CHOOSE k \in DOMAIN ipsec : ipsec[k] = m]

(* The packets of a set that carry a packet of a family. *)
OfFam(M, v) == {m \in M : wire[m].iv = v}

(* Packets without an SA are freed.  Mutant: they are forgotten. *)
NoSaPktsNone == {}

NoSaPkts == {m \in Ran(ipsec) : SaOf(m) = NoSa}

(* ipsec_inbound and split46_traffic, or ipsec_process: the packets of     *)
(* inline SAs that are fine join ip4 and ip6, after the packets that were  *)
(* never IPsec, in an order that depends on the mode and the SAs; those of *)
(* other SAs go to a crypto device.                                        *)
Process ==
  /\ pc = "process"
  /\ LET S == {m \in Ran(ipsec) : SaOf(m) # NoSa}
         I == {m \in S : SaOf(m) \in InlineSas}
     IN  \E ok \in SUBSET S :
           /\ Free(NoSaPkts \cup (S \ ok))
           /\ crypto' = crypto \cup (ok \ I)
           /\ \E s4 \in Orders(OfFam(I \cap ok, "v4")), s6 \in Orders(OfFam(I \cap ok, "v6")) :
                ip' = [ip EXCEPT !["v4"] = @ \o s4, !["v6"] = @ \o s6]
           /\ meta' = [m \in Mbufs |-> IF m \in S THEN SaOf(m) ELSE meta[m]]
           /\ dec' = [m \in Mbufs |-> IF m \in S THEN SaOf(m) ELSE dec[m]]
  /\ ipsec' = <<>> /\ saptr' = <<>> /\ key' = <<>>
  /\ pc' = "policy" /\ next' = "drain"
  /\ UNCHANGED <<burst, miss, cache, lim>>

(* drain_inbound_crypto_queues: packets back from the crypto devices, none *)
(* of which counts as never IPsec.  Mutant: the counts of the last burst   *)
(* are kept.                                                               *)
DrainLimKept == lim

DrainLim == [v \in Fam |-> 0]

Drain ==
  /\ pc = "drain"
  /\ \E D \in SUBSET crypto : \E ok \in SUBSET D :
       /\ crypto' = crypto \ D
       /\ Free(D \ ok)
       /\ \E s4 \in Orders(OfFam(ok, "v4")), s6 \in Orders(OfFam(ok, "v6")) :
            ip' = [ip EXCEPT !["v4"] = s4, !["v6"] = s6]
  /\ lim' = DrainLim
  /\ pc' = "policy" /\ next' = "rx"
  /\ UNCHANGED <<meta, dec, burst, ipsec, lookup>>

(* Packet k of a family was never IPsec.  Mutant: no packet is.            *)
NeverIpsecNone(v, k) == FALSE

NeverIpsec(v, k) == k <= lim[v] /\ ~wire[ip[v][k]].off

(* inbound_sa_check.  Mutant: any SA will do. *)
InboundSaCheckAny(m) == meta[m] # NoSa

InboundSaCheck(m) == meta[m] # NoSa /\ Spi[meta[m]] = Spi[wire[m].rule]

(* inbound_sp_sa *)
Passes(v, k) ==
  LET m == ip[v][k]
  IN  \/ ~SpOn[v]
      \/ wire[m].rule = BYPASS
      \/ wire[m].rule # DISCARD /\ ~NeverIpsec(v, k) /\ InboundSaCheck(m)

Policy ==
  /\ pc = "policy"
  /\ LET P == [v \in Fam |-> {ip[v][k] : k \in {x \in DOMAIN ip[v] : Passes(v, x)}}]
     IN  /\ Free(UNION {Ran(ip[v]) \ P[v] : v \in Fam})
         /\ \E s4 \in Orders(P["v4"]), s6 \in Orders(P["v6"]) :
              /\ InOrder(s4, ip["v4"]) /\ InOrder(s6, ip["v6"])
              /\ ip' = [ip EXCEPT !["v4"] = s4, !["v6"] = s6]
  /\ pc' = "route"
  /\ UNCHANGED <<meta, dec, burst, ipsec, lookup, crypto, lim, next>>

(* route4_pkts and route6_pkts: the packets leave (module TxPath). *)
Route ==
  /\ pc = "route"
  /\ Free(UNION {Ran(ip[v]) : v \in Fam})
  /\ ip' = NoPkts
  /\ pc' = next
  /\ UNCHANGED <<meta, dec, burst, ipsec, lookup, crypto, lim, next>>

Next ==
  \/ Rx \/ PrepareOne \/ PrepareEnd \/ LookupCache \/ LookupSad \/ LookupEnd
  \/ Process \/ Drain \/ Policy \/ Route

Spec == Init /\ [][Next]_vars
-----------------------------------------------------------------------------
(* Type invariant. *)
InTypeOK ==
  /\ pc \in {"rx", "prepare", "lookup", "miss", "process", "policy", "route", "drain"}
  /\ next \in {"drain", "rx"}
  /\ wire \in [Mbufs -> Wire \cup {NoPkt}]
  /\ meta \in [Mbufs -> Sas \cup {NoSa}]
  /\ dec \in [Mbufs -> Sas \cup {NoSa}]
  /\ burst \in Seq(Mbufs) /\ ipsec \in Seq(Mbufs)
  /\ miss \subseteq DOMAIN ipsec
  /\ cache \in [Fam -> [0 .. CacheSz - 1 -> Sas \cup {NoSa}]]
  /\ crypto \subseteq Mbufs
  /\ ip \in [Fam -> Seq(Mbufs)]
  /\ lim \in [Fam -> Nat]
  /\ pc \in {"lookup", "miss", "process", "policy"} => \A v \in Fam : lim[v] <= Len(ip[v])

(* What the SAD says of a packet, without a cache. *)
SadLookup(p) ==
  LET s == Sad[p.v][p.spi]
  IN  IF s # NoSa /\ CmpSaKey(s, p.v, p.addr) THEN s ELSE NoSa

(* The cache is transparent: whatever sequence of bursts filled it, and    *)
(* although SPIs share its entries, sad_lookup gives every packet whose    *)
(* SPI is read from the right place the SA of the SAD, or none.            *)
LookupExact ==
  pc = "process" =>
    \A k \in DOMAIN ipsec : ~Shifted(k) => saptr[k] = SadLookup(wire[ipsec[k]])

(* An entry of the cache is the SA the SAD holds for its SPI, at the       *)
(* index of that SPI.                                                      *)
CacheSound ==
  \A v \in Fam, x \in 0 .. CacheSz - 1 :
    cache[v][x] # NoSa =>
      Idx(Spi[cache[v][x]]) = x /\ Sad[v][Spi[cache[v][x]]] = cache[v][x]

(* A packet that leaves where an SPD exists is allowed to: its rule is     *)
(* BYPASS, or it was decrypted, in this life of its mbuf, by an SA with    *)
(* the SPI of its rule.  A packet in clear text does not pass on the SA    *)
(* an earlier packet left in the mbuf.                                     *)
InboundPolicy ==
  pc = "route" =>
    \A v \in Fam : SpOn[v] =>
      \A m \in Ran(ip[v]) :
        \/ wire[m].rule = BYPASS
        \/ /\ wire[m].rule \in Sas /\ dec[m] # NoSa
           /\ Spi[dec[m]] = Spi[wire[m].rule]

Count(s, m) == Cardinality({k \in DOMAIN s : s[k] = m})

(* An mbuf that carries a packet is in exactly one place, and one in the   *)
(* pool in none: every packet that is dropped on the way is freed once.    *)
MbufInOnePlace ==
  \A m \in Mbufs :
    Count(burst, m) + Count(ipsec, m) + Count(ip["v4"], m) + Count(ip["v6"], m)
      + (IF m \in crypto THEN 1 ELSE 0) = (IF wire[m] = NoPkt THEN 0 ELSE 1)
=============================================================================
