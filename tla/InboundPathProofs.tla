------------------------- MODULE InboundPathProofs --------------------------
(***************************************************************************)
(* The inbound path: the SAD cache is transparent, no mbuf is lost, and    *)
(* what leaves obeys the policy.                                           *)
(***************************************************************************)
EXTENDS InboundPath, FiniteSetTheorems, TLAPS

(***************************************************************************)
(* The SAD cache is transparent, for every configuration of SAs, every     *)
(* size of the cache and of the bursts.                                    *)
(*                                                                         *)
(* LookupExact speaks of the moment sad_lookup is done.  The inductive     *)
(* invariant adds what holds before: the cache is sound, the packets of    *)
(* the burst are there, the SPIs that were read are theirs, and every      *)
(* packet that is not among the misses has its result already.             *)
(***************************************************************************)

(* The part of the state sad_lookup works on has its type. *)
LookTypes ==
  /\ next \in {"drain", "rx"}
  /\ wire \in [Mbufs -> Wire \cup {NoPkt}]
  /\ burst \in Seq(Mbufs) /\ ipsec \in Seq(Mbufs)
  /\ cache \in [Fam -> [0 .. CacheSz - 1 -> Sas \cup {NoSa}]]

(* What prepare_traffic has still to sort is there, once. *)
BurstLive ==
  pc = "prepare" =>
    /\ \A k \in DOMAIN burst : wire[burst[k]] \in Wire
    /\ \A j, k \in DOMAIN burst : burst[j] = burst[k] => j = k

(* The packets of traffic.ipsec are IPsec packets, between the sorting and *)
(* the decryption.                                                         *)
IpsecLive ==
  /\ pc \in {"rx", "policy", "route", "drain"} => ipsec = <<>>
  /\ \A k \in DOMAIN ipsec : wire[ipsec[k]] \in Wire /\ IsIpsec(ipsec[k])

(* In the middle of sad_lookup. *)
Resolved ==
  pc \in {"miss", "process"} =>
    /\ key \in [DOMAIN ipsec -> Spis]
    /\ saptr \in [DOMAIN ipsec -> Sas \cup {NoSa}]
    /\ miss \subseteq DOMAIN ipsec
    /\ pc = "process" => miss = {}
    /\ \A k \in DOMAIN ipsec :
         ~Shifted(k) =>
           /\ key[k] = wire[ipsec[k]].spi
           /\ k \notin miss => saptr[k] = SadLookup(wire[ipsec[k]])

LookInv == LookTypes /\ BurstLive /\ IpsecLive /\ Resolved /\ CacheSound
-----------------------------------------------------------------------------
(* The fields of a packet. *)
LEMMA WireFacts ==
  ASSUME NEW p \in Wire
  PROVE  /\ p.kind \in {"esp", "clear", "other"} /\ p.v \in Fam /\ p.spi \in Spis
         /\ p.addr \in Addrs /\ p.udp \in BOOLEAN
  BY InAssumption DEF WirePkts

(* The index of an SPI is an index of the cache. *)
LEMMA IdxFacts ==
  ASSUME NEW n \in Spis, CacheOn
  PROVE  Idx(n) \in 0 .. CacheSz - 1
<1>1. n \in Nat /\ CacheSz \in Nat /\ CacheSz > 1
  BY InAssumption DEF CacheOn
<1> QED
  BY <1>1 DEF Idx

(* The SAD maps SPIs to SAs with these SPIs. *)
LEMMA SadFacts ==
  ASSUME NEW v \in Fam, NEW n \in Spis
  PROVE  Sad[v][n] \in Sas \cup {NoSa} /\ (Sad[v][n] # NoSa => Spi[Sad[v][n]] = n)
<1>1. Sad \in [Fam -> [Spis -> Sas \cup {NoSa}]]
  BY InAssumption
<1>2. Sad[v] \in [Spis -> Sas \cup {NoSa}]
  BY <1>1
<1> QED
  BY <1>2, InAssumption

(* A hit on a sound cache is what the SAD says. *)
LEMMA HitFacts ==
  ASSUME LookTypes, CacheSound, NEW p \in Wire, Hit(p.v, p.spi, p.addr)
  PROVE  Cached(p.v, p.spi) = SadLookup(p)
<1> DEFINE s == Cached(p.v, p.spi)
<1>1. p.v \in Fam /\ p.spi \in Spis
  BY WireFacts
<1>2. s # NoSa /\ Spi[s] = p.spi /\ CmpSaKey(s, p.v, p.addr)
  BY DEF Hit
<1>3. CacheOn /\ s = cache[p.v][Idx(p.spi)]
  BY <1>2 DEF Cached
<1>4. Sad[p.v][Spi[s]] = s
  BY <1>1, <1>2, <1>3, IdxFacts DEF CacheSound
<1> QED
  BY <1>2, <1>4 DEF SadLookup

(* Cached SAs are SAs. *)
LEMMA CachedFacts ==
  ASSUME LookTypes, NEW v \in Fam, NEW n \in Spis
  PROVE  Cached(v, n) \in Sas \cup {NoSa}
<1>1. CASE CacheOn
  BY <1>1, IdxFacts DEF Cached, LookTypes
<1>2. CASE ~CacheOn
  BY <1>2 DEF Cached
<1> QED
  BY <1>1, <1>2

LEMMA InitLookInv == Init => LookInv
<1> SUFFICES ASSUME Init PROVE LookInv
  OBVIOUS
<1>1. LookTypes
  BY DEF Init, LookTypes
<1>2. BurstLive /\ IpsecLive /\ Resolved
  BY DEF Init, BurstLive, IpsecLive, Resolved
<1>3. CacheSound
  BY DEF Init, CacheSound
<1> QED
  BY <1>1, <1>2, <1>3 DEF LookInv
-----------------------------------------------------------------------------
(* Rx and the sorting of the burst. *)
LEMMA PrepareSteps ==
  ASSUME LookInv, Rx \/ PrepareOne \/ PrepareEnd
  PROVE  LookInv'
<1> USE DEF LookInv
<1>1. CASE Rx
  <2>1. PICK n \in 0 .. MAX_PKT_BURST :
        \E b \in [1 .. n -> {m \in Mbufs : wire[m] = NoPkt}], w \in [1 .. n -> Wire] :
          /\ Once(b)
          /\ burst' = b
          /\ wire' = [m \in Mbufs |-> IF m \in Ran(b) THEN Arrived(b, w, m) ELSE wire[m]]
    BY <1>1 DEF Rx
  <2>2. PICK b \in [1 .. n -> {m \in Mbufs : wire[m] = NoPkt}], w \in [1 .. n -> Wire] :
          /\ Once(b)
          /\ burst' = b
          /\ wire' = [m \in Mbufs |-> IF m \in Ran(b) THEN Arrived(b, w, m) ELSE wire[m]]
    BY <2>1
  <2>3. /\ pc' = "prepare" /\ ipsec = <<>> /\ ipsec' = ipsec /\ cache' = cache
        /\ next' = next
    BY <1>1 DEF Rx, lookup, IpsecLive
  <2>4. n \in Nat
    BY InAssumption
  <2>5. burst' \in Seq(Mbufs) /\ DOMAIN burst' = 1 .. n
    BY <2>2, <2>4
  <2>6. ASSUME NEW m \in Ran(b)
        PROVE  m \in Mbufs /\ Arrived(b, w, m) \in Wire
    <3>1. PICK k \in 1 .. n : b[k] = m
      BY <2>2 DEF Ran
    <3>2. (CHOOSE j \in DOMAIN b : b[j] = m) \in 1 .. n
      BY <2>2, <3>1
    <3> QED
      BY <2>2, <3>1, <3>2 DEF Arrived
  <2>7. LookTypes'
    BY <2>2, <2>3, <2>5, <2>6 DEF LookTypes
  <2>8. BurstLive'
    <3>1. ASSUME NEW k \in 1 .. n
          PROVE  b[k] \in Ran(b)
      BY <2>2 DEF Ran
    <3> QED
      BY <2>2, <2>5, <2>6, <3>1 DEF BurstLive, Once
  <2>9. IpsecLive' /\ Resolved' /\ CacheSound'
    BY <2>3 DEF IpsecLive, Resolved, CacheSound
  <2> QED
    BY <2>7, <2>8, <2>9
<1>2. CASE PrepareOne
  <2> DEFINE m == Head(burst)
  <2>1. /\ pc = "prepare" /\ pc' = pc /\ burst # <<>> /\ burst' = Tail(burst) /\ cache' = cache
        /\ next' = next
        /\ \/ wire[m].kind = "other" /\ Free({m}) /\ ipsec' = ipsec
           \/ wire' = wire /\ ipsec' = IF IsIpsec(m) THEN Append(ipsec, m) ELSE ipsec
    BY <1>2 DEF PrepareOne, lookup
  <2>2. burst \in Seq(Mbufs) /\ ipsec \in Seq(Mbufs)
    BY DEF LookTypes
  <2>3. /\ m \in Mbufs /\ m = burst[1] /\ 1 \in DOMAIN burst
        /\ Tail(burst) \in Seq(Mbufs)
        /\ \A k \in DOMAIN Tail(burst) : k + 1 \in DOMAIN burst /\ k + 1 # 1
                                         /\ Tail(burst)[k] = burst[k + 1]
    BY <2>1, <2>2
  <2>4. wire[m] \in Wire /\ \A k \in DOMAIN Tail(burst) : Tail(burst)[k] # m
    BY <2>1, <2>3 DEF BurstLive
  <2>5. CASE wire[m].kind = "other" /\ Free({m}) /\ ipsec' = ipsec
    <3>1. /\ wire' \in [Mbufs -> Wire \cup {NoPkt}]
          /\ \A x \in Mbufs : x # m => wire'[x] = wire[x]
      BY <2>5 DEF Free, LookTypes
    <3>2. \A k \in DOMAIN ipsec : ipsec[k] \in Mbufs /\ ipsec[k] # m
      BY <2>2, <2>5 DEF IpsecLive, IsIpsec
    <3>3. LookTypes'
      BY <2>1, <2>2, <2>3, <2>5, <3>1 DEF LookTypes
    <3>4. BurstLive'
      BY <2>1, <2>3, <2>4, <3>1 DEF BurstLive
    <3>5. IpsecLive'
      BY <2>1, <2>5, <3>1, <3>2 DEF IpsecLive, IsIpsec
    <3>6. Resolved' /\ CacheSound'
      BY <2>1 DEF Resolved, CacheSound
    <3> QED
      BY <3>3, <3>4, <3>5, <3>6
  <2>6. CASE wire' = wire /\ ipsec' = IF IsIpsec(m) THEN Append(ipsec, m) ELSE ipsec
    <3>1. ipsec' \in Seq(Mbufs)
      BY <2>2, <2>3, <2>6
    <3>2. LookTypes'
      BY <2>1, <2>3, <2>6, <3>1 DEF LookTypes
    <3>3. BurstLive'
      BY <2>1, <2>3, <2>6 DEF BurstLive
    <3>4. ASSUME NEW k \in DOMAIN ipsec'
          PROVE  wire[ipsec'[k]] \in Wire /\ IsIpsec(ipsec'[k])
      <4>1. CASE IsIpsec(m) /\ k = Len(ipsec) + 1
        BY <2>2, <2>3, <2>4, <2>6, <4>1
      <4>2. CASE ~(IsIpsec(m) /\ k = Len(ipsec) + 1)
        <5>1. k \in DOMAIN ipsec /\ ipsec'[k] = ipsec[k]
          BY <2>2, <2>3, <2>6, <4>2
        <5> QED
          BY <5>1 DEF IpsecLive
      <4> QED
        BY <4>1, <4>2
    <3>5. IpsecLive'
      BY <2>1, <2>6, <3>4 DEF IpsecLive, IsIpsec
    <3>6. Resolved' /\ CacheSound'
      BY <2>1 DEF Resolved, CacheSound
    <3> QED
      BY <3>2, <3>3, <3>5, <3>6
  <2> QED
    BY SMTT(30), <2>1, <2>5, <2>6
<1>3. CASE PrepareEnd
  <2>1. /\ pc' = "lookup" /\ wire' = wire /\ burst' = burst /\ ipsec' = ipsec /\ cache' = cache
        /\ next' = next
    BY <1>3 DEF PrepareEnd, lookup
  <2> QED
    BY <2>1 DEF LookTypes, BurstLive, IpsecLive, IsIpsec, Resolved, CacheSound
<1> QED
  BY <1>1, <1>2, <1>3
-----------------------------------------------------------------------------
(* sad_lookup: the steps the theorems are about. *)
LEMMA LookupSteps ==
  ASSUME LookInv, HasSad = Fam, LookupCache \/ LookupSad \/ LookupEnd
  PROVE  LookInv'
<1> USE DEF LookInv
<1>0. \A k \in DOMAIN ipsec :
        wire[ipsec[k]] \in Wire /\ wire[ipsec[k]].v \in Fam /\ wire[ipsec[k]].spi \in Spis
  BY WireFacts DEF IpsecLive
<1>1. CASE LookupCache
  <2> DEFINE H(r) == {k \in DOMAIN ipsec : Hit(wire[ipsec[k]].v, r[k], wire[ipsec[k]].addr)}
  <2>1. PICK r \in [DOMAIN ipsec -> Spis] :
          /\ \A k \in DOMAIN ipsec : ~Shifted(k) => r[k] = wire[ipsec[k]].spi
          /\ key' = r
          /\ saptr' = [k \in DOMAIN ipsec |->
                         IF k \in H(r) THEN Cached(wire[ipsec[k]].v, r[k]) ELSE NoSa]
          /\ miss' = DOMAIN ipsec \ H(r)
    BY <1>1 DEF LookupCache
  <2>2. /\ pc' = "miss" /\ wire' = wire /\ burst' = burst /\ ipsec' = ipsec /\ cache' = cache
        /\ next' = next
    BY <1>1 DEF LookupCache
  <2>3. LookTypes' /\ BurstLive' /\ IpsecLive' /\ CacheSound'
    BY <2>2 DEF LookTypes, BurstLive, IpsecLive, IsIpsec, CacheSound
  <2>4. saptr' \in [DOMAIN ipsec -> Sas \cup {NoSa}]
    BY <1>0, <2>1, CachedFacts
  <2>5. ASSUME NEW k \in DOMAIN ipsec, ~Shifted(k)
        PROVE  /\ key'[k] = wire[ipsec[k]].spi
               /\ k \notin miss' => saptr'[k] = SadLookup(wire[ipsec[k]])
    <3>2. key'[k] = wire[ipsec[k]].spi
      BY <2>1, <2>5
    <3>3. ASSUME k \notin miss'
          PROVE  saptr'[k] = SadLookup(wire[ipsec[k]])
      <4>1. k \in H(r)
        BY <2>1, <3>3
      <4>2. saptr'[k] = Cached(wire[ipsec[k]].v, wire[ipsec[k]].spi)
        BY <2>1, <3>2, <4>1
      <4>3. Hit(wire[ipsec[k]].v, wire[ipsec[k]].spi, wire[ipsec[k]].addr)
        BY SMTT(30), <2>1, <3>2, <4>1
      <4> QED
        BY <1>0, <4>2, <4>3, HitFacts
    <3> QED
      BY <3>2, <3>3
  <2>6. Resolved'
    <3>1. key' \in [DOMAIN ipsec -> Spis] /\ miss' \subseteq DOMAIN ipsec
      BY <2>1
    <3> HIDE DEF H
    <3> QED
      BY <2>2, <2>4, <2>5, <3>1, ZenonT(30) DEF Resolved, Shifted, SadLookup, CmpSaKey
  <2> QED
    BY <2>3, <2>6
<1>2. CASE LookupSad
  <2>1. PICK k \in miss :
          /\ \E s \in SadResults(wire[ipsec[k]].v, key[k]) : ResolveMiss(k, s)
          /\ miss' = miss \ {k}
    BY <1>2 DEF LookupSad
  <2>2. /\ pc = "miss" /\ pc' = pc /\ wire' = wire /\ burst' = burst /\ ipsec' = ipsec
        /\ key' = key /\ next' = next
    BY <1>2 DEF LookupSad
  <2> DEFINE p == wire[ipsec[k]]
             s == Sad[p.v][key[k]]
             found == s # NoSa /\ CmpSaKey(s, p.v, p.addr)
  <2>3. k \in DOMAIN ipsec /\ key[k] \in Spis /\ p \in Wire /\ p.v \in Fam
    BY <1>0, <2>1, <2>2 DEF Resolved
  <2>4. s \in Sas \cup {NoSa} /\ (s # NoSa => Spi[s] = key[k])
    BY <2>3, SadFacts
  <2>5. /\ saptr' = [saptr EXCEPT ![k] = IF found THEN s ELSE NoSa]
        /\ cache' = IF found /\ CacheOn THEN [cache EXCEPT ![p.v][Idx(Spi[s])] = s] ELSE cache
    BY <2>1, <2>3 DEF SadResults, ResolveMiss
  <2>6. LookTypes' /\ CacheSound'
    <3>1. CASE found /\ CacheOn
      <4>1. Spi[s] = key[k] /\ Idx(Spi[s]) \in 0 .. CacheSz - 1
        BY <2>3, <2>4, <3>1, IdxFacts
      <4>2. LookTypes'
        BY <2>2, <2>3, <2>4, <2>5, <3>1, <4>1 DEF LookTypes
      <4>3. ASSUME NEW v \in Fam, NEW x \in 0 .. CacheSz - 1, cache'[v][x] # NoSa
            PROVE  /\ Idx(Spi[cache'[v][x]]) = x
                   /\ Sad[v][Spi[cache'[v][x]]] = cache'[v][x]
        <5>1. CASE v = p.v /\ x = Idx(Spi[s])
          <6>1. cache'[v][x] = s
            BY <2>3, <2>5, <3>1, <4>1, <5>1 DEF LookTypes
          <6> QED
            BY <4>1, <5>1, <6>1
        <5>2. CASE ~(v = p.v /\ x = Idx(Spi[s]))
          <6>1. cache'[v][x] = cache[v][x]
            BY <2>3, <2>5, <3>1, <4>1, <5>2 DEF LookTypes
          <6> QED
            BY <4>3, <6>1 DEF CacheSound
        <5> QED
          BY <5>1, <5>2
      <4>4. CacheSound'
        BY <4>3 DEF CacheSound, Idx
      <4> QED
        BY <4>2, <4>4
    <3>2. CASE ~(found /\ CacheOn)
      <4>1. cache' = cache
        BY <2>5, <3>2
      <4> QED
        BY <2>2, <4>1, SMTT(30) DEF LookTypes, CacheSound
    <3> QED
      BY <3>1, <3>2
  <2>7. BurstLive' /\ IpsecLive'
    BY <2>2, SMTT(30) DEF BurstLive, IpsecLive, IsIpsec
  <2>8. Resolved'
    <3>1. saptr' \in [DOMAIN ipsec -> Sas \cup {NoSa}]
      BY <2>2, <2>4, <2>5 DEF Resolved
    <3>2. ASSUME NEW j \in DOMAIN ipsec, ~Shifted(j)
          PROVE  /\ key[j] = wire[ipsec[j]].spi
                 /\ j \notin miss' => saptr'[j] = SadLookup(wire[ipsec[j]])
      <4>1. key[j] = wire[ipsec[j]].spi /\ (j \notin miss => saptr[j] = SadLookup(wire[ipsec[j]]))
        BY <2>2, <3>2 DEF Resolved
      <4>2. CASE j = k
        <5>1. saptr'[j] = IF found THEN s ELSE NoSa
          BY <2>2, <2>3, <2>5, <4>2 DEF Resolved
        <5> QED
          BY <4>1, <4>2, <5>1 DEF SadLookup
      <4>3. CASE j # k
        <5>1. saptr'[j] = saptr[j]
          BY <2>2, <2>5, <4>3 DEF Resolved
        <5> QED
          BY <2>1, <4>1, <4>3, <5>1
      <4> QED
        BY <4>2, <4>3
    <3> QED
      BY <2>1, <2>2, <3>1, <3>2, ZenonT(30) DEF Resolved, Shifted, SadLookup, CmpSaKey
  <2> QED
    BY <2>6, <2>7, <2>8
<1>3. CASE LookupEnd
  <2>1. /\ pc = "miss" /\ miss = {} /\ pc' = "process" /\ wire' = wire /\ burst' = burst
        /\ ipsec' = ipsec /\ saptr' = saptr /\ key' = key /\ miss' = miss /\ cache' = cache
        /\ next' = next
    BY <1>3 DEF LookupEnd, lookup
  <2>2. LookTypes' /\ BurstLive' /\ IpsecLive' /\ CacheSound'
    BY <2>1, SMTT(30) DEF LookTypes, BurstLive, IpsecLive, IsIpsec, CacheSound
  <2>3. Resolved'
    BY <2>1 DEF Resolved, Shifted, SadLookup, CmpSaKey
  <2> QED
    BY <2>2, <2>3
<1> QED
  BY <1>1, <1>2, <1>3
-----------------------------------------------------------------------------
(* Freeing mbufs keeps the type of wire. *)
LEMMA FreeFacts ==
  ASSUME LookTypes, NEW M, Free(M)
  PROVE  wire' \in [Mbufs -> Wire \cup {NoPkt}]
  BY DEF Free, LookTypes

(* The steps after sad_lookup find and leave an empty traffic.ipsec. *)
LEMMA OtherSteps ==
  ASSUME LookInv, Process \/ Drain \/ Policy \/ Route
  PROVE  LookInv'
<1> USE DEF LookInv
<1>1. /\ wire' \in [Mbufs -> Wire \cup {NoPkt}]
      /\ pc' \in {"rx", "policy", "route", "drain"} /\ next' \in {"drain", "rx"}
      /\ ipsec' = <<>> /\ burst' = burst /\ cache' = cache
  <2>1. CASE Process
    BY <2>1, FreeFacts DEF Process
  <2>2. CASE Drain
    BY <2>2, FreeFacts DEF Drain, lookup, IpsecLive
  <2>3. CASE Policy
    BY <2>3, FreeFacts DEF Policy, lookup, IpsecLive, LookTypes
  <2>4. CASE Route
    BY <2>4, FreeFacts DEF Route, lookup, IpsecLive, LookTypes
  <2> QED
    BY <2>1, <2>2, <2>3, <2>4
<1>2. LookTypes'
  BY <1>1 DEF LookTypes
<1>3. BurstLive' /\ IpsecLive' /\ Resolved' /\ CacheSound'
  BY <1>1 DEF BurstLive, IpsecLive, Resolved, CacheSound
<1> QED
  BY <1>2, <1>3

LEMMA NextLookInv ==
  ASSUME HasSad = Fam
  PROVE  LookInv /\ [Next]_vars => LookInv'
<1> SUFFICES ASSUME LookInv, [Next]_vars PROVE LookInv'
  BY SMTT(30)
<1>1. CASE UNCHANGED vars
  BY <1>1 DEF vars, lookup, LookInv, LookTypes, BurstLive, IpsecLive, IsIpsec, Resolved,
              CacheSound, Shifted, SadLookup, CmpSaKey
<1>2. CASE Next
  BY <1>2, PrepareSteps, LookupSteps, OtherSteps DEF Next
<1> QED
  BY <1>1, <1>2
-----------------------------------------------------------------------------
(* The cache of an lcore only ever holds SAs of the SAD, at the entry of   *)
(* their SPI, when the tables of both families exist: also when            *)
(* UDP-encapsulated packets make sad_lookup read foreign SPIs.             *)
THEOREM CacheAlwaysSound ==
  ASSUME HasSad = Fam
  PROVE  Spec => []CacheSound
<1>1. LookInv => CacheSound
  BY DEF LookInv
<1> QED
  BY InitLookInv, NextLookInv, <1>1, PTL DEF Spec

(* sad_lookup with its cache is the lookup in the SAD, for every set of    *)
(* SAs, cache size and sequence of bursts, when both tables exist, and for *)
(* every packet whose SPI is read from the right place.                    *)
THEOREM LookupIsExact ==
  ASSUME HasSad = Fam
  PROVE  Spec => []LookupExact
<1>1. LookInv => LookupExact
  BY DEF LookInv, Resolved, LookupExact
<1> QED
  BY InitLookInv, NextLookInv, <1>1, PTL DEF Spec
-----------------------------------------------------------------------------
(***************************************************************************)
(* Every mbuf of the inbound path is in one place, and what leaves obeys   *)
(* the policy, for every pool, burst size, set of packets, SAs and rules.  *)
(*                                                                         *)
(* InboundPolicy speaks of the moment before the routing.  The inductive   *)
(* invariant follows the SA of every packet from its decryption to there:  *)
(* the SA in the private area of an mbuf is the one that decrypted its     *)
(* contents, but for packets that count as never IPsec.  That in turn      *)
(* needs that no mbuf is in two places, or twice in one.                   *)
(***************************************************************************)

MaybeSa == Sas \cup {NoSa}

PlaceTypes ==
  /\ pc \in {"rx", "prepare", "lookup", "miss", "process", "policy", "route", "drain"}
  /\ meta \in [Mbufs -> MaybeSa] /\ dec \in [Mbufs -> MaybeSa]
  /\ crypto \subseteq Mbufs
  /\ ip \in [Fam -> Seq(Mbufs)]
  /\ lim \in [Fam -> Nat]

(* What is empty when. *)
Empty ==
  /\ pc # "prepare" => burst = <<>>
  /\ pc \in {"rx", "drain"} => ip = NoPkts
  /\ pc # "miss" => miss = {}

AllOnce == Once(burst) /\ Once(ipsec) /\ Once(ip["v4"]) /\ Once(ip["v6"])

Apart(S, T) == S \cap T = {}

(* The five places share no mbuf, and the other mbufs are in the pool.     *)
Places(B, I, A4, A6, C, w) ==
  /\ Apart(B, I) /\ Apart(B, A4) /\ Apart(B, A6) /\ Apart(B, C)
  /\ Apart(I, A4) /\ Apart(I, A6) /\ Apart(I, C)
  /\ Apart(A4, A6) /\ Apart(A4, C) /\ Apart(A6, C)
  /\ \A m \in Mbufs : w[m] # NoPkt <=> m \in B \cup I \cup A4 \cup A6 \cup C

OnePlace ==
  /\ AllOnce
  /\ Places(Ran(burst), Ran(ipsec), Ran(ip["v4"]), Ran(ip["v6"]), crypto, wire)

(* The SA in the mbuf is the one that decrypted what it holds. *)
Marked(m) == dec[m] # NoSa /\ meta[m] = dec[m]

Decrypted ==
  /\ \A m \in crypto : Marked(m)
  /\ \A m \in Ran(burst) : wire[m].off => dec[m] = wire[m].nicSa
  /\ pc \in {"prepare", "lookup", "miss", "process"} =>
       \A v \in Fam : \A m \in Ran(ip[v]) : wire[m].off => Marked(m)
  /\ pc \in {"lookup", "miss", "process"} => \A v \in Fam : lim[v] = Len(ip[v])
  /\ pc = "policy" =>
       \A v \in Fam :
         /\ lim[v] <= Len(ip[v])
         /\ \A k \in DOMAIN ip[v] : NeverIpsec(v, k) \/ Marked(ip[v][k])

PlaceInv == LookInv /\ PlaceTypes /\ Empty /\ OnePlace

PolicyInv == PlaceInv /\ Decrypted /\ InboundPolicy
-----------------------------------------------------------------------------
(* Sequences and the sets of their elements. *)
LEMMA RanEmpty == Ran(<<>>) = {} /\ Once(<<>>)
  BY DEF Ran, Once

LEMMA RanAppend ==
  ASSUME NEW s \in Seq(Mbufs), NEW m \in Mbufs
  PROVE  /\ Append(s, m) \in Seq(Mbufs)
         /\ Ran(Append(s, m)) = Ran(s) \cup {m}
         /\ Once(s) /\ m \notin Ran(s) => Once(Append(s, m))
<1>1. /\ DOMAIN Append(s, m) = 1 .. Len(s) + 1 /\ DOMAIN s = 1 .. Len(s) /\ Len(s) \in Nat
      /\ \A k \in 1 .. Len(s) : Append(s, m)[k] = s[k]
      /\ Append(s, m)[Len(s) + 1] = m
  OBVIOUS
<1>2. 1 .. Len(s) + 1 = (1 .. Len(s)) \cup {Len(s) + 1}
  BY <1>1
<1> QED
  BY <1>1, <1>2 DEF Ran, Once

LEMMA RanTail ==
  ASSUME NEW s \in Seq(Mbufs), s # <<>>
  PROVE  /\ Head(s) \in Mbufs /\ Head(s) \in Ran(s) /\ Tail(s) \in Seq(Mbufs)
         /\ Ran(s) = Ran(Tail(s)) \cup {Head(s)}
         /\ Once(s) => Once(Tail(s)) /\ Head(s) \notin Ran(Tail(s))
<1>1. /\ DOMAIN Tail(s) = 1 .. Len(s) - 1 /\ DOMAIN s = 1 .. Len(s) /\ Len(s) \in Nat \ {0}
      /\ \A k \in 1 .. Len(s) - 1 : Tail(s)[k] = s[k + 1]
      /\ Head(s) = s[1]
  OBVIOUS
<1>2. Head(s) \in Mbufs /\ Tail(s) \in Seq(Mbufs) /\ Head(s) \in Ran(s)
  BY <1>1 DEF Ran
<1>3. Ran(Tail(s)) \subseteq Ran(s)
  BY <1>1 DEF Ran
<1>4. ASSUME NEW x \in Ran(s), x # Head(s)
      PROVE  x \in Ran(Tail(s))
  <2>1. PICK k \in 1 .. Len(s) : s[k] = x
    BY <1>1 DEF Ran
  <2>2. k - 1 \in 1 .. Len(s) - 1 /\ Tail(s)[k - 1] = x
    BY <1>1, <1>4, <2>1
  <2> QED
    BY <1>1, <2>2 DEF Ran
<1>5. ASSUME Once(s)
      PROVE  Once(Tail(s)) /\ Head(s) \notin Ran(Tail(s))
  BY <1>1, <1>5 DEF Ran, Once
<1> QED
  BY <1>2, <1>3, <1>4, <1>5

LEMMA RanConcat ==
  ASSUME NEW s \in Seq(Mbufs), NEW t \in Seq(Mbufs)
  PROVE  /\ s \o t \in Seq(Mbufs) /\ Len(s \o t) = Len(s) + Len(t)
         /\ \A k \in 1 .. Len(s) : (s \o t)[k] = s[k]
         /\ \A k \in DOMAIN (s \o t) : k > Len(s) => (s \o t)[k] \in Ran(t)
         /\ Ran(s \o t) = Ran(s) \cup Ran(t)
         /\ Once(s) /\ Once(t) /\ Apart(Ran(s), Ran(t)) => Once(s \o t)
<1>1. /\ DOMAIN (s \o t) = 1 .. Len(s) + Len(t)
      /\ DOMAIN s = 1 .. Len(s) /\ DOMAIN t = 1 .. Len(t) /\ Len(s) \in Nat /\ Len(t) \in Nat
      /\ \A k \in 1 .. Len(s) : (s \o t)[k] = s[k]
      /\ \A k \in 1 .. Len(s) + Len(t) : k > Len(s) => (s \o t)[k] = t[k - Len(s)]
      /\ s \o t \in Seq(Mbufs) /\ Len(s \o t) = Len(s) + Len(t)
  OBVIOUS
<1>2. \A k \in DOMAIN (s \o t) :
        IF k \in 1 .. Len(s) THEN (s \o t)[k] \in Ran(s)
        ELSE k - Len(s) \in DOMAIN t /\ (s \o t)[k] = t[k - Len(s)]
  BY <1>1 DEF Ran
<1>3. Ran(s \o t) \subseteq Ran(s) \cup Ran(t)
  BY <1>1, <1>2 DEF Ran
<1>4. Ran(s) \subseteq Ran(s \o t)
  BY <1>1 DEF Ran
<1>5. ASSUME NEW x \in Ran(t)
      PROVE  x \in Ran(s \o t)
  <2>1. PICK k \in 1 .. Len(t) : t[k] = x
    BY <1>1 DEF Ran
  <2>2. /\ k + Len(s) \in DOMAIN (s \o t) /\ k + Len(s) > Len(s)
        /\ k + Len(s) \in 1 .. Len(s) + Len(t) /\ (k + Len(s)) - Len(s) = k
    BY <1>1
  <2>3. (s \o t)[k + Len(s)] = x
    BY <1>1, <2>1, <2>2
  <2> QED
    BY <2>2, <2>3 DEF Ran
<1>6. ASSUME Once(s), Once(t), Apart(Ran(s), Ran(t)),
             NEW j \in DOMAIN (s \o t), NEW k \in DOMAIN (s \o t), (s \o t)[j] = (s \o t)[k]
      PROVE  j = k
  <2>1. CASE j \in 1 .. Len(s) /\ k \in 1 .. Len(s)
    BY <1>1, <1>6, <2>1 DEF Once
  <2>2. CASE j \notin 1 .. Len(s) /\ k \notin 1 .. Len(s)
    <3>1. t[j - Len(s)] = t[k - Len(s)] /\ j - Len(s) \in DOMAIN t /\ k - Len(s) \in DOMAIN t
      BY <1>2, <1>6, <2>2
    <3>2. j - Len(s) = k - Len(s)
      BY <1>6, <3>1 DEF Once
    <3> QED
      BY <1>1, <3>2
  <2>3. CASE ~(j \in 1 .. Len(s) <=> k \in 1 .. Len(s))
    BY <1>2, <1>6, <2>3 DEF Ran, Apart
  <2> QED
    BY <2>1, <2>2, <2>3
<1>7. Once(s) /\ Once(t) /\ Apart(Ran(s), Ran(t)) => Once(s \o t)
  BY <1>6 DEF Once
<1>8. \A k \in DOMAIN (s \o t) : k > Len(s) => (s \o t)[k] \in Ran(t)
  BY <1>1, <1>2 DEF Ran
<1> QED
  BY <1>1, <1>3, <1>4, <1>5, <1>7, <1>8

LEMMA OrdersFacts ==
  ASSUME NEW S \in SUBSET Mbufs, NEW s \in Orders(S)
  PROVE  s \in Seq(Mbufs) /\ Ran(s) = S /\ Once(s)
<1>1. Cardinality(S) \in Nat
  BY InAssumption, FS_Subset, FS_CardinalityType
<1>2. s \in [1 .. Cardinality(S) -> S] /\ Ran(s) = S /\ Once(s)
  BY DEF Orders
<1> QED
  BY <1>1, <1>2

(* The fields of a packet that the policy reads. *)
LEMMA RuleFacts ==
  ASSUME NEW p \in Wire
  PROVE  p.iv \in Fam /\ p.nicSa \in Sas /\ p.rule \in Sas \cup {BYPASS, DISCARD}
         /\ p.off \in BOOLEAN
  BY InAssumption DEF WirePkts

LEMMA RanMbufs ==
  ASSUME NEW s \in Seq(Mbufs)
  PROVE  /\ \A m \in Ran(s) : m \in Mbufs
         /\ \A k \in DOMAIN s : s[k] \in Ran(s) /\ s[k] \in Mbufs
  BY DEF Ran
-----------------------------------------------------------------------------
LEMMA InitPolicyInv == Init => PolicyInv
<1> SUFFICES ASSUME Init PROVE PolicyInv
  OBVIOUS
<1>1. /\ Ran(burst) = {} /\ Ran(ipsec) = {} /\ Ran(ip["v4"]) = {} /\ Ran(ip["v6"]) = {}
      /\ AllOnce
  BY RanEmpty DEF Init, NoPkts, Fam, AllOnce
<1>2. PlaceTypes /\ Empty
  BY DEF Init, PlaceTypes, Empty, NoPkts, MaybeSa
<1>3. OnePlace
  BY <1>1 DEF Init, OnePlace, Places, Apart
<1>4. Decrypted /\ InboundPolicy
  BY <1>1 DEF Init, Decrypted, InboundPolicy
<1> QED
  BY <1>2, <1>3, <1>4, InitLookInv DEF PolicyInv, PlaceInv

(* What the steps share: the types of the places. *)
LEMMA PlaceFacts ==
  ASSUME PlaceInv
  PROVE  /\ burst \in Seq(Mbufs) /\ ipsec \in Seq(Mbufs)
         /\ ip["v4"] \in Seq(Mbufs) /\ ip["v6"] \in Seq(Mbufs)
         /\ Ran(burst) \subseteq Mbufs /\ Ran(ipsec) \subseteq Mbufs
         /\ Ran(ip["v4"]) \subseteq Mbufs /\ Ran(ip["v6"]) \subseteq Mbufs
         /\ crypto \subseteq Mbufs
         /\ DOMAIN wire = Mbufs /\ wire \in [Mbufs -> Wire \cup {NoPkt}]
  BY RanMbufs DEF PlaceInv, LookInv, LookTypes, PlaceTypes, Fam

LEMMA RxStep ==
  ASSUME PolicyInv, Rx
  PROVE  PlaceTypes' /\ Empty' /\ OnePlace' /\ Decrypted' /\ InboundPolicy'
<1> USE DEF PolicyInv, PlaceInv
<1>1. PICK n \in 0 .. MAX_PKT_BURST :
      \E b \in [1 .. n -> {m \in Mbufs : wire[m] = NoPkt}], w \in [1 .. n -> Wire] :
        /\ Once(b)
        /\ burst' = b
        /\ wire' = [m \in Mbufs |-> IF m \in Ran(b) THEN Arrived(b, w, m) ELSE wire[m]]
        /\ dec' = [m \in Mbufs |->
             IF m \in Ran(b) /\ wire'[m].off THEN wire'[m].nicSa
             ELSE IF m \in Ran(b) THEN NoSa ELSE dec[m]]
  BY DEF Rx
<1>2. PICK b \in [1 .. n -> {m \in Mbufs : wire[m] = NoPkt}], w \in [1 .. n -> Wire] :
        /\ Once(b)
        /\ burst' = b
        /\ wire' = [m \in Mbufs |-> IF m \in Ran(b) THEN Arrived(b, w, m) ELSE wire[m]]
        /\ dec' = [m \in Mbufs |->
             IF m \in Ran(b) /\ wire'[m].off THEN wire'[m].nicSa
             ELSE IF m \in Ran(b) THEN NoSa ELSE dec[m]]
  BY <1>1
<1>3. /\ pc = "rx" /\ pc' = "prepare" /\ meta' = meta /\ ipsec' = ipsec /\ miss' = miss
      /\ crypto' = crypto /\ ip' = ip /\ lim' = lim
  BY DEF Rx, lookup
<1>4. ASSUME NEW m \in Ran(b)
      PROVE  /\ m \in Mbufs /\ wire[m] = NoPkt
             /\ wire'[m] \in Wire /\ wire'[m] # NoPkt /\ wire'[m].nicSa \in Sas
  <2>1. PICK k \in 1 .. n : b[k] = m
    BY <1>2 DEF Ran
  <2>2. m \in Mbufs /\ wire[m] = NoPkt
    BY <1>2, <2>1
  <2>3. (CHOOSE j \in DOMAIN b : b[j] = m) \in 1 .. n
    BY <1>2, <2>1
  <2>4. wire'[m] = Arrived(b, w, m) /\ Arrived(b, w, m) \in Wire
    BY <1>2, <1>4, <2>2, <2>3 DEF Arrived
  <2> QED
    BY <2>2, <2>4, RuleFacts, InAssumption
<1>5. \A m \in Mbufs : m \notin Ran(b) => wire'[m] = wire[m] /\ dec'[m] = dec[m]
  BY <1>2
<1>6. /\ burst = <<>> /\ ipsec = <<>> /\ ip = NoPkts
      /\ Ran(burst) = {} /\ Ran(ipsec) = {} /\ Ran(ip["v4"]) = {} /\ Ran(ip["v6"]) = {}
  BY <1>3, RanEmpty DEF Empty, LookInv, IpsecLive, NoPkts, Fam
<1>7. PlaceTypes'
  <2>1. dec' \in [Mbufs -> MaybeSa]
    BY <1>2, <1>4 DEF PlaceTypes, MaybeSa
  <2> QED
    BY <1>3, <2>1 DEF PlaceTypes
<1>8. Empty'
  BY <1>3, <1>6 DEF Empty
<1>9. OnePlace'
  <2>1. AllOnce'
    BY <1>2, <1>3 DEF OnePlace, AllOnce
  <2>2. \A m \in crypto : m \in Mbufs /\ wire[m] # NoPkt
    BY PlaceFacts DEF OnePlace, Places
  <2>3. Places(Ran(b), {}, {}, {}, crypto, wire')
    BY <1>4, <1>5, <1>6, <2>2 DEF OnePlace, Places, Apart
  <2> QED
    BY <1>2, <1>3, <1>6, <2>1, <2>3 DEF OnePlace
<1>10. Decrypted'
  <2>1. \A m \in crypto : m \in Mbufs /\ m \notin Ran(b)
    BY <1>4, PlaceFacts DEF OnePlace, Places
  <2>2. \A m \in crypto : Marked(m)'
    BY <1>3, <1>5, <2>1 DEF Decrypted, Marked
  <2>3. \A m \in Ran(b) : wire'[m].off => dec'[m] = wire'[m].nicSa
    BY <1>2, <1>4
  <2> QED
    BY <1>2, <1>3, <1>6, <2>2, <2>3 DEF Decrypted, Fam
<1>11. InboundPolicy'
  BY <1>3, SMTT(30) DEF InboundPolicy
<1> QED
  BY <1>7, <1>8, <1>9, <1>10, <1>11

LEMMA PrepareOneStep ==
  ASSUME PolicyInv, HasUserdata, PrepareOne
  PROVE  PlaceTypes' /\ Empty' /\ OnePlace' /\ Decrypted' /\ InboundPolicy'
<1> USE DEF PolicyInv, PlaceInv
<1>0. PICK m \in Mbufs : burst # <<>> /\ m = Head(burst)
  BY PlaceFacts, RanTail DEF PrepareOne
<1>1. /\ pc = "prepare" /\ pc' = pc /\ burst # <<>> /\ burst' = Tail(burst)
      /\ dec' = dec /\ miss' = miss /\ crypto' = crypto /\ lim' = lim
  BY DEF PrepareOne, lookup
<1>2. /\ m \in Mbufs /\ m \in Ran(burst) /\ m \notin Ran(burst')
      /\ Ran(burst) = Ran(burst') \cup {m} /\ Once(burst')
  BY <1>0, <1>1, PlaceFacts, RanTail DEF OnePlace, AllOnce
<1>3. /\ wire[m] \in Wire /\ wire[m].v \in Fam /\ wire[m].nicSa \in Sas
      /\ m \notin Ran(ipsec) /\ m \notin Ran(ip["v4"]) /\ m \notin Ran(ip["v6"])
      /\ m \notin crypto
  <2>1. wire[m] # NoPkt
    BY <1>2 DEF OnePlace, Places
  <2>2. wire[m] \in Wire
    BY <1>2, <2>1, PlaceFacts
  <2> QED
    BY <1>2, <2>2, WireFacts, RuleFacts DEF OnePlace, Places, Apart
<1>4. CASE wire[m].kind = "other" /\ Free({m}) /\ UNCHANGED <<meta, ipsec, ip>>
  <2>1. wire'[m] = NoPkt /\ \A x \in Mbufs : x # m => wire'[x] = wire[x]
    BY <1>2, <1>4 DEF Free
  <2>2. PlaceTypes' /\ Empty' /\ InboundPolicy'
    BY <1>1, <1>4 DEF PlaceTypes, Empty, InboundPolicy
  <2>3. OnePlace'
    <3>1. Places(Ran(burst'), Ran(ipsec), Ran(ip["v4"]), Ran(ip["v6"]), crypto, wire')
      BY <1>2, <1>3, <2>1 DEF OnePlace, Places, Apart
    <3> QED
      BY <1>1, <1>2, <1>4, <3>1 DEF OnePlace, AllOnce
  <2>4. Decrypted'
    <3>1. \A x \in crypto : Marked(x)'
      BY <1>1, <1>4 DEF Decrypted, Marked
    <3>2. \A x \in Ran(burst') : wire'[x].off => dec[x] = wire'[x].nicSa
      BY <1>2, <2>1, PlaceFacts DEF Decrypted
    <3>3. \A v \in Fam : \A x \in Ran(ip[v]) : x \in Mbufs /\ x # m
      BY <1>3, PlaceFacts DEF Fam
    <3>4. \A v \in Fam : \A x \in Ran(ip[v]) : wire'[x].off => Marked(x)'
      BY <1>1, <1>4, <2>1, <3>3 DEF Decrypted, Marked
    <3> QED
      BY <1>1, <1>4, <3>1, <3>2, <3>4 DEF Decrypted
  <2> QED
    BY <2>2, <2>3, <2>4
<1>5. CASE /\ IsIpsec(m) \/ IsPlain(m)
           /\ ipsec' = IF IsIpsec(m) THEN Append(ipsec, m) ELSE ipsec
           /\ ip' = IF IsPlain(m) THEN [ip EXCEPT ![wire[m].v] = Append(@, m)] ELSE ip
           /\ meta' = IF wire[m].off /\ HasUserdata THEN [meta EXCEPT ![m] = wire[m].nicSa]
                                                     ELSE meta
           /\ UNCHANGED wire
  <2>1. /\ meta' \in [Mbufs -> MaybeSa]
        /\ \A x \in Mbufs : x # m => meta'[x] = meta[x]
        /\ wire[m].off => meta'[m] = wire[m].nicSa
    BY <1>2, <1>3, <1>5 DEF PlaceTypes, MaybeSa
  <2>2. wire[m].off => Marked(m)'
    BY <1>1, <1>2, <1>3, <2>1, InAssumption DEF Decrypted, Marked
  <2>3. \A x \in Mbufs : x # m => (Marked(x)' <=> Marked(x))
    BY <1>1, <2>1 DEF Marked
  <2>4. \A x \in crypto : Marked(x)'
    BY <1>3, <2>3, PlaceFacts DEF Decrypted
  <2>5. \A x \in Ran(burst') : wire[x].off => dec[x] = wire[x].nicSa
    BY <1>2 DEF Decrypted
  <2>6. \A v \in Fam : \A x \in Ran(ip[v]) : wire[x].off => Marked(x)'
    BY <1>1, <1>3, <2>3, PlaceFacts DEF Decrypted, Fam
  <2>7. CASE IsIpsec(m)
    <3>1. ipsec' = Append(ipsec, m) /\ ip' = ip
      BY <1>5, <2>7 DEF IsPlain
    <3>2. Ran(ipsec') = Ran(ipsec) \cup {m} /\ Once(ipsec')
      BY <1>2, <1>3, <3>1, PlaceFacts, RanAppend DEF OnePlace, AllOnce
    <3>3. PlaceTypes' /\ Empty' /\ InboundPolicy'
      BY <1>1, <1>5, <2>1, <3>1 DEF PlaceTypes, Empty, InboundPolicy
    <3>4. Places(Ran(burst'), Ran(ipsec'), Ran(ip["v4"]), Ran(ip["v6"]), crypto, wire)
      BY <1>2, <1>3, <3>2 DEF OnePlace, Places, Apart
    <3>5. OnePlace'
      BY <1>1, <1>2, <1>5, <3>1, <3>2, <3>4 DEF OnePlace, AllOnce
    <3>6. Decrypted'
      BY <1>1, <1>5, <2>4, <2>5, <2>6, <3>1 DEF Decrypted
    <3> QED
      BY <3>3, <3>5, <3>6
  <2>8. CASE ~IsIpsec(m)
    <3>0. PICK v \in Fam : v = wire[m].v
      BY <1>3
    <3>1. ipsec' = ipsec /\ ip' = [ip EXCEPT ![v] = Append(@, m)] /\ v \in {"v4", "v6"}
      BY <1>5, <2>8, <3>0 DEF Fam
    <3>2. /\ ip' \in [Fam -> Seq(Mbufs)] /\ Ran(ip'[v]) = Ran(ip[v]) \cup {m} /\ Once(ip'[v])
          /\ \A u \in Fam : u # v => ip'[u] = ip[u]
      <4>1. /\ Append(ip[v], m) \in Seq(Mbufs)
            /\ Ran(Append(ip[v], m)) = Ran(ip[v]) \cup {m} /\ Once(Append(ip[v], m))
        BY <1>2, <1>3, <3>1, PlaceFacts, RanAppend DEF OnePlace, AllOnce
      <4>2. ip \in [Fam -> Seq(Mbufs)] /\ v \in Fam
        BY <3>0 DEF PlaceTypes
      <4>3. ip'[v] = Append(ip[v], m) /\ \A u \in Fam : u # v => ip'[u] = ip[u]
        BY <3>1, <4>2
      <4> QED
        BY <3>1, <4>1, <4>2, <4>3
    <3>3. PlaceTypes' /\ Empty' /\ InboundPolicy'
      BY <1>1, <1>5, <2>1, <3>2 DEF PlaceTypes, Empty, InboundPolicy
    <3>4. Places(Ran(burst'), Ran(ipsec), Ran(ip'["v4"]), Ran(ip'["v6"]), crypto, wire)
      BY <1>2, <1>3, <3>1, <3>2 DEF OnePlace, Places, Apart, Fam
    <3>5. OnePlace'
      BY <1>1, <1>2, <1>5, <3>1, <3>2, <3>4 DEF OnePlace, AllOnce, Fam
    <3>6. \A u \in Fam : \A x \in Ran(ip'[u]) : wire[x].off => Marked(x)'
      <4>1. ASSUME NEW u \in Fam, NEW x \in Ran(ip'[u]), wire[x].off
            PROVE  Marked(x)'
        BY <2>2, <2>6, <3>0, <3>2, <4>1
      <4> QED
        BY <4>1
    <3>7. Decrypted'
      BY <1>1, <1>5, <2>4, <2>5, <3>6 DEF Decrypted
    <3> QED
      BY <3>3, <3>5, <3>7
  <2> QED
    BY <2>7, <2>8
<1> QED
  BY <1>0, <1>4, <1>5 DEF PrepareOne
-----------------------------------------------------------------------------
(* The steps that move no packet. *)
LEMMA StillSteps ==
  ASSUME PolicyInv, PrepareEnd \/ LookupCache \/ LookupSad \/ LookupEnd
  PROVE  PlaceTypes' /\ Empty' /\ OnePlace' /\ Decrypted' /\ InboundPolicy'
<1> USE DEF PolicyInv, PlaceInv
<1>1. /\ wire' = wire /\ meta' = meta /\ dec' = dec /\ burst' = burst /\ ipsec' = ipsec
      /\ crypto' = crypto /\ ip' = ip
      /\ \/ pc = "prepare" /\ pc' = "lookup" /\ burst = <<>> /\ miss' = miss
            /\ lim' = [v \in Fam |-> Len(ip[v])]
         \/ pc = "lookup" /\ pc' = "miss" /\ lim' = lim
         \/ pc = "miss" /\ pc' = "miss" /\ lim' = lim
         \/ pc = "miss" /\ pc' = "process" /\ miss = {} /\ miss' = miss /\ lim' = lim
  BY DEF PrepareEnd, LookupCache, LookupSad, LookupEnd, lookup
<1>2. PlaceTypes'
  BY <1>1, PlaceFacts DEF PlaceTypes
<1>3. Empty' /\ InboundPolicy'
  BY <1>1 DEF Empty, InboundPolicy
<1>4. OnePlace'
  BY <1>1 DEF OnePlace, AllOnce
<1>5. Decrypted'
  BY <1>1 DEF Decrypted, Marked
<1> QED
  BY <1>2, <1>3, <1>4, <1>5

(* The mbufs outside a set keep their packets when the set is freed.       *)
LEMMA FreeKeeps ==
  ASSUME PlaceInv, NEW M, Free(M)
  PROVE  /\ \A m \in Mbufs : m \in M => wire'[m] = NoPkt
         /\ \A m \in Mbufs : m \notin M => wire'[m] = wire[m]
  BY DEF Free

LEMMA ProcessStep ==
  ASSUME PolicyInv, Process
  PROVE  PlaceTypes' /\ Empty' /\ OnePlace' /\ Decrypted' /\ InboundPolicy'
<1> USE DEF PolicyInv, PlaceInv
<1>1. PICK S \in SUBSET Mbufs, J \in SUBSET Mbufs, ok \in SUBSET Mbufs :
        /\ S = {m \in Ran(ipsec) : SaOf(m) # NoSa} /\ J \subseteq S /\ ok \subseteq S
        /\ Free(NoSaPkts \cup (S \ ok))
        /\ crypto' = crypto \cup (ok \ J)
        /\ \E s4 \in Orders(OfFam(J \cap ok, "v4")), s6 \in Orders(OfFam(J \cap ok, "v6")) :
             ip' = [ip EXCEPT !["v4"] = @ \o s4, !["v6"] = @ \o s6]
        /\ meta' = [m \in Mbufs |-> IF m \in S THEN SaOf(m) ELSE meta[m]]
        /\ dec' = [m \in Mbufs |-> IF m \in S THEN SaOf(m) ELSE dec[m]]
  <2> DEFINE S == {m \in Ran(ipsec) : SaOf(m) # NoSa}
             J == {m \in S : SaOf(m) \in InlineSas}
  <2>1. S \subseteq Mbufs
    BY PlaceFacts
  <2>2. PICK ok \in SUBSET S :
        /\ Free(NoSaPkts \cup (S \ ok))
        /\ crypto' = crypto \cup (ok \ J)
        /\ \E s4 \in Orders(OfFam(J \cap ok, "v4")), s6 \in Orders(OfFam(J \cap ok, "v6")) :
             ip' = [ip EXCEPT !["v4"] = @ \o s4, !["v6"] = @ \o s6]
        /\ meta' = [m \in Mbufs |-> IF m \in S THEN SaOf(m) ELSE meta[m]]
        /\ dec' = [m \in Mbufs |-> IF m \in S THEN SaOf(m) ELSE dec[m]]
    BY DEF Process
  <2>3. S \in SUBSET Mbufs /\ J \in SUBSET Mbufs /\ ok \in SUBSET Mbufs
        /\ J \subseteq S /\ ok \subseteq S
    BY <2>1, <2>2
  <2> HIDE DEF J
  <2> QED
    BY <2>2, <2>3
<1>2. PICK s4 \in Orders(OfFam(J \cap ok, "v4")), s6 \in Orders(OfFam(J \cap ok, "v6")) :
        ip' = [ip EXCEPT !["v4"] = @ \o s4, !["v6"] = @ \o s6]
  BY <1>1
<1>3. /\ pc = "process" /\ pc' = "policy" /\ ipsec' = <<>> /\ burst = <<>> /\ burst' = burst
      /\ miss' = miss /\ lim' = lim
  BY DEF Process, Empty
<1>4. /\ s4 \in Seq(Mbufs) /\ Ran(s4) = OfFam(J \cap ok, "v4") /\ Once(s4)
      /\ s6 \in Seq(Mbufs) /\ Ran(s6) = OfFam(J \cap ok, "v6") /\ Once(s6)
  BY OrdersFacts DEF OfFam
<1>5. /\ ip'["v4"] = ip["v4"] \o s4 /\ ip'["v6"] = ip["v6"] \o s6
      /\ ip' \in [Fam -> Seq(Mbufs)]
  <2>1. ip["v4"] \o s4 \in Seq(Mbufs) /\ ip["v6"] \o s6 \in Seq(Mbufs)
    BY <1>4, PlaceFacts, RanConcat
  <2> QED
    BY <1>2, <2>1 DEF PlaceTypes, Fam
<1>6. /\ \A m \in Ran(ipsec) : m \in Mbufs /\ SaOf(m) \in MaybeSa
      /\ \A m \in Ran(ipsec) : wire[m] \in Wire /\ wire[m] # NoPkt
  <2>1. ASSUME NEW m \in Ran(ipsec)
        PROVE  SaOf(m) \in MaybeSa /\ wire[m] \in Wire
    <3>1. PICK k \in DOMAIN ipsec : ipsec[k] = m
      BY DEF Ran
    <3>2. (CHOOSE j \in DOMAIN ipsec : ipsec[j] = m) \in DOMAIN ipsec
      BY <3>1
    <3> QED
      BY <1>3, <3>1, <3>2 DEF SaOf, LookInv, Resolved, IpsecLive, MaybeSa
  <2> QED
    BY <2>1, PlaceFacts, InAssumption
<1>7. /\ S \subseteq Ran(ipsec) /\ NoSaPkts = Ran(ipsec) \ S
      /\ \A m \in Mbufs : m \in (Ran(ipsec) \ S) \cup (S \ ok) => wire'[m] = NoPkt
      /\ \A m \in Mbufs : m \notin (Ran(ipsec) \ S) \cup (S \ ok) => wire'[m] = wire[m]
  <2>1. S \subseteq Ran(ipsec) /\ NoSaPkts = Ran(ipsec) \ S
    BY <1>1 DEF NoSaPkts
  <2> QED
    BY <1>1, <2>1, FreeKeeps
<1>8. PlaceTypes'
  <2>1. meta' \in [Mbufs -> MaybeSa] /\ dec' \in [Mbufs -> MaybeSa]
    BY <1>1, <1>6 DEF PlaceTypes
  <2> QED
    BY <1>1, <1>3, <1>5, <2>1 DEF PlaceTypes
<1>9. Empty' /\ InboundPolicy'
  BY <1>3 DEF Empty, InboundPolicy
<1>10. \A m \in OfFam(J \cap ok, "v4") \cup OfFam(J \cap ok, "v6") : m \in J \cap ok
  BY DEF OfFam
<1>11. \A m \in J \cap ok : m \in OfFam(J \cap ok, "v4") \cup OfFam(J \cap ok, "v6")
  BY <1>1, <1>6, <1>7, RuleFacts DEF OfFam, Fam
<1>12. Apart(OfFam(J \cap ok, "v4"), OfFam(J \cap ok, "v6"))
  BY DEF OfFam, Apart
<1>13. Apart(Ran(ip["v4"]), Ran(s4)) /\ Apart(Ran(ip["v6"]), Ran(s6))
  <2>1. Ran(s4) \subseteq Ran(ipsec) /\ Ran(s6) \subseteq Ran(ipsec)
    BY <1>1, <1>4, <1>7, <1>10
  <2>2. Apart(Ran(ipsec), Ran(ip["v4"])) /\ Apart(Ran(ipsec), Ran(ip["v6"]))
    BY DEF OnePlace, Places
  <2> QED
    BY <2>1, <2>2 DEF Apart
<1>14. /\ Ran(ip'["v4"]) = Ran(ip["v4"]) \cup OfFam(J \cap ok, "v4") /\ Once(ip'["v4"])
       /\ Ran(ip'["v6"]) = Ran(ip["v6"]) \cup OfFam(J \cap ok, "v6") /\ Once(ip'["v6"])
  <2>1. ip["v4"] \in Seq(Mbufs) /\ ip["v6"] \in Seq(Mbufs) /\ Once(ip["v4"]) /\ Once(ip["v6"])
    BY PlaceFacts DEF OnePlace, AllOnce
  <2>2. Ran(ip["v4"] \o s4) = Ran(ip["v4"]) \cup Ran(s4) /\ Once(ip["v4"] \o s4)
    BY <1>4, <1>13, <2>1, RanConcat
  <2>3. Ran(ip["v6"] \o s6) = Ran(ip["v6"]) \cup Ran(s6) /\ Once(ip["v6"] \o s6)
    BY <1>4, <1>13, <2>1, RanConcat
  <2> QED
    BY <1>4, <1>5, <2>2, <2>3
<1>15. OnePlace'
  <2> DEFINE F4 == OfFam(J \cap ok, "v4")
             F6 == OfFam(J \cap ok, "v6")
  <2>1. Ran(burst) = {}
    BY <1>3, RanEmpty
  <2>2. ASSUME NEW m \in Mbufs
        PROVE  wire'[m] # NoPkt <=>
                 m \in {} \cup {} \cup (Ran(ip["v4"]) \cup F4) \cup (Ran(ip["v6"]) \cup F6)
                       \cup (crypto \cup (ok \ J))
    <3>1. wire[m] # NoPkt <=> m \in Ran(ipsec) \cup Ran(ip["v4"]) \cup Ran(ip["v6"]) \cup crypto
      BY <2>1 DEF OnePlace, Places
    <3>2. CASE m \in Ran(ipsec)
      <4>1. m \notin Ran(ip["v4"]) /\ m \notin Ran(ip["v6"]) /\ m \notin crypto
        BY <3>2 DEF OnePlace, Places, Apart
      <4>2. wire'[m] # NoPkt <=> m \in ok
        BY <1>1, <1>6, <1>7, <3>2
      <4>3. m \in F4 \cup F6 <=> m \in J \cap ok
        BY <1>10, <1>11
      <4> HIDE DEF F4, F6
      <4> QED
        BY <4>1, <4>2, <4>3
    <3>3. CASE m \notin Ran(ipsec)
      <4>1. m \notin ok /\ m \notin F4 \cup F6
        BY <1>1, <1>7, <1>10, <3>3
      <4>2. wire'[m] = wire[m]
        BY <1>7, <3>3
      <4> HIDE DEF F4, F6
      <4> QED
        BY <3>1, <3>3, <4>1, <4>2
    <3> QED
      BY <3>2, <3>3
  <2>3. F4 \subseteq J \cap ok /\ F6 \subseteq J \cap ok /\ Apart(F4, F6)
    BY <1>10, <1>12
  <2> HIDE DEF F4, F6
  <2>4. Places({}, {}, Ran(ip["v4"]) \cup F4, Ran(ip["v6"]) \cup F6, crypto \cup (ok \ J), wire')
    BY <1>1, <1>7, <2>2, <2>3 DEF OnePlace, Places, Apart
  <2>5. AllOnce'
    BY <1>3, <1>14, RanEmpty DEF AllOnce
  <2> USE DEF F4, F6
  <2>6. Ran(burst') = {} /\ Ran(ipsec') = {}
    BY <1>3, RanEmpty
  <2> QED
    BY <1>1, <1>14, <2>4, <2>5, <2>6 DEF OnePlace
<1>16. Decrypted'
  <2>1. \A m \in S : Marked(m)'
    BY <1>1, <1>6, <1>7 DEF Marked
  <2>2. \A m \in Mbufs : m \notin Ran(ipsec) =>
          (Marked(m) => Marked(m)') /\ wire'[m] = wire[m]
    BY <1>1, <1>7 DEF Marked
  <2>3. \A m \in crypto' : Marked(m)'
    <3>1. \A m \in crypto : m \in Mbufs /\ m \notin Ran(ipsec)
      BY PlaceFacts DEF OnePlace, Places, Apart
    <3> QED
      BY <1>1, <2>1, <2>2, <3>1 DEF Decrypted
  <2>4. \A m \in Ran(burst') : FALSE
    BY <1>3, RanEmpty
  <2>5. ASSUME NEW v \in Fam
        PROVE  /\ lim'[v] <= Len(ip'[v])
               /\ \A k \in DOMAIN ip'[v] : NeverIpsec(v, k)' \/ Marked(ip[v][k])'
    <3>1. PICK t \in Seq(Mbufs) :
            ip'[v] = ip[v] \o t /\ Ran(t) \subseteq J \cap ok
      BY <1>4, <1>5, <1>10 DEF Fam
    <3>2. /\ ip[v] \in Seq(Mbufs) /\ lim[v] = Len(ip[v]) /\ Len(ip[v]) \in Nat
          /\ Len(t) \in Nat
      BY <1>3 DEF PlaceTypes, Decrypted
    <3>3. /\ Len(ip'[v]) = Len(ip[v]) + Len(t)
          /\ DOMAIN ip'[v] = 1 .. Len(ip[v]) + Len(t)
          /\ \A k \in 1 .. Len(ip[v]) : ip'[v][k] = ip[v][k]
          /\ \A k \in DOMAIN ip'[v] : k > Len(ip[v]) => ip'[v][k] \in Ran(t)
      BY <3>1, <3>2, RanConcat
    <3>4. ASSUME NEW k \in DOMAIN ip'[v]
          PROVE  NeverIpsec(v, k)' \/ Marked(ip[v][k])'
      <4>1. CASE k > Len(ip[v])
        <5>1. PICK x \in S : x = ip'[v][k]
          BY <1>1, <3>1, <3>3, <4>1
        <5> QED
          BY <2>1, <5>1 DEF Marked
      <4>2. CASE ~(k > Len(ip[v]))
        <5>1. k \in 1 .. Len(ip[v]) /\ k <= lim'[v]
          BY <1>3, <3>2, <3>3, <4>2
        <5>2. PICK x \in Ran(ip[v]) : x = ip[v][k] /\ x = ip'[v][k]
          BY <3>2, <3>3, <5>1, RanMbufs
        <5>3. x \in Mbufs /\ x \notin Ran(ipsec)
          BY <3>2, <5>2, RanMbufs DEF OnePlace, Places, Apart, Fam
        <5>4. wire[x].off => Marked(x)
          BY <1>3, <5>2 DEF Decrypted
        <5> QED
          BY <2>2, <5>1, <5>2, <5>3, <5>4 DEF NeverIpsec, Marked
      <4> QED
        BY <4>1, <4>2
    <3> QED
      BY <1>3, <3>2, <3>3, <3>4
  <2> QED
    BY <1>3, <2>3, <2>4, <2>5 DEF Decrypted
<1> QED
  BY <1>8, <1>9, <1>15, <1>16

LEMMA DrainStep ==
  ASSUME PolicyInv, Drain
  PROVE  PlaceTypes' /\ Empty' /\ OnePlace' /\ Decrypted' /\ InboundPolicy'
<1> USE DEF PolicyInv, PlaceInv
<1>1. PICK D \in SUBSET crypto, ok \in SUBSET crypto :
        /\ ok \subseteq D
        /\ crypto' = crypto \ D
        /\ Free(D \ ok)
        /\ \E s4 \in Orders(OfFam(ok, "v4")), s6 \in Orders(OfFam(ok, "v6")) :
             ip' = [ip EXCEPT !["v4"] = s4, !["v6"] = s6]
  BY DEF Drain
<1>2. PICK s4 \in Orders(OfFam(ok, "v4")), s6 \in Orders(OfFam(ok, "v6")) :
        ip' = [ip EXCEPT !["v4"] = s4, !["v6"] = s6]
  BY <1>1
<1>3. /\ pc = "drain" /\ pc' = "policy" /\ lim' = DrainLim /\ meta' = meta /\ dec' = dec
      /\ burst = <<>> /\ burst' = burst /\ ipsec = <<>> /\ ipsec' = ipsec /\ miss' = miss
      /\ ip = NoPkts
  BY DEF Drain, lookup, Empty, LookInv, IpsecLive
<1>4. /\ s4 \in Seq(Mbufs) /\ Ran(s4) = OfFam(ok, "v4") /\ Once(s4)
      /\ s6 \in Seq(Mbufs) /\ Ran(s6) = OfFam(ok, "v6") /\ Once(s6)
  BY OrdersFacts, PlaceFacts DEF OfFam
<1>5. ip'["v4"] = s4 /\ ip'["v6"] = s6 /\ ip' \in [Fam -> Seq(Mbufs)]
  BY <1>2, <1>4 DEF PlaceTypes, Fam
<1>6. PlaceTypes' /\ Empty' /\ InboundPolicy'
  BY <1>1, <1>3, <1>5 DEF PlaceTypes, Empty, InboundPolicy, DrainLim
<1>7. /\ Ran(burst) = {} /\ Ran(ipsec) = {} /\ Ran(ip["v4"]) = {} /\ Ran(ip["v6"]) = {}
      /\ Once(burst) /\ Once(ipsec)
  BY <1>3, RanEmpty DEF NoPkts, Fam
<1>8. OnePlace'
  <2>1. \A m \in Mbufs : m \in crypto <=> wire[m] # NoPkt
    BY <1>7 DEF OnePlace, Places
  <2>2. \A m \in ok : wire[m].iv \in {"v4", "v6"}
    BY <1>1, <2>1, PlaceFacts, RuleFacts DEF Fam
  <2>3. /\ OfFam(ok, "v4") \cup OfFam(ok, "v6") = ok
        /\ Apart(OfFam(ok, "v4"), OfFam(ok, "v6"))
    BY <2>2 DEF OfFam, Apart
  <2>4. \A m \in Mbufs : wire'[m] # NoPkt <=> m \in (crypto \ D) \cup ok
    BY <1>1, <2>1, FreeKeeps
  <2>5. Places({}, {}, OfFam(ok, "v4"), OfFam(ok, "v6"), crypto \ D, wire')
    BY <1>1, <2>3, <2>4 DEF Places, Apart
  <2>6. AllOnce'
    BY <1>3, <1>4, <1>5, <1>7 DEF AllOnce
  <2> QED
    BY <1>1, <1>3, <1>4, <1>5, <1>7, <2>5, <2>6 DEF OnePlace
<1>9. Decrypted'
  <2>1. \A m \in crypto : Marked(m)'
    BY <1>3 DEF Decrypted, Marked
  <2>2. ASSUME NEW v \in Fam
        PROVE  /\ lim'[v] <= Len(ip'[v])
               /\ \A k \in DOMAIN ip'[v] : NeverIpsec(v, k)' \/ Marked(ip[v][k])'
    <3>1. PICK t \in Seq(Mbufs) : ip'[v] = t /\ Ran(t) \subseteq ok
      BY <1>4, <1>5 DEF OfFam, Fam
    <3>2. lim'[v] = 0 /\ Len(t) \in Nat
      BY <1>3, <3>1 DEF DrainLim
    <3>3. ASSUME NEW k \in DOMAIN t
          PROVE  Marked(ip[v][k])'
      <4>1. PICK x \in crypto : x = t[k]
        BY <1>1, <3>1, RanMbufs
      <4> QED
        BY <2>1, <3>1, <4>1 DEF Marked
    <3> QED
      BY <3>1, <3>2, <3>3
  <2> QED
    BY <1>1, <1>3, <1>7, <2>1, <2>2 DEF Decrypted
<1> QED
  BY <1>6, <1>8, <1>9

(* inbound_sp_sa: what passes is allowed to. *)
LEMMA PassesAllowed ==
  ASSUME PolicyInv, pc = "policy", NEW v \in Fam, NEW k \in DOMAIN ip[v], Passes(v, k), SpOn[v],
         wire[ip[v][k]] \in Wire
  PROVE  LET m == ip[v][k]
         IN  \/ wire[m].rule = BYPASS
             \/ wire[m].rule \in Sas /\ dec[m] # NoSa /\ Spi[dec[m]] = Spi[wire[m].rule]
<1>1. CASE wire[ip[v][k]].rule = BYPASS
  BY <1>1
<1>2. CASE wire[ip[v][k]].rule # BYPASS
  <2>1. /\ wire[ip[v][k]].rule # DISCARD /\ ~NeverIpsec(v, k) /\ InboundSaCheck(ip[v][k])
    BY <1>2 DEF Passes
  <2>2. Marked(ip[v][k])
    BY <2>1 DEF PolicyInv, Decrypted
  <2> QED
    BY <1>2, <2>1, <2>2, RuleFacts DEF Marked, InboundSaCheck
<1> QED
  BY <1>1, <1>2

LEMMA PolicyStep ==
  ASSUME PolicyInv, Policy
  PROVE  PlaceTypes' /\ Empty' /\ OnePlace' /\ Decrypted' /\ InboundPolicy'
<1> USE DEF PolicyInv, PlaceInv
<1> DEFINE Q(v) == {ip[v][k] : k \in {x \in DOMAIN ip[v] : Passes(v, x)}}
<1>1. PICK P4 \in SUBSET Mbufs, P6 \in SUBSET Mbufs :
        /\ P4 = Q("v4") /\ P6 = Q("v6")
        /\ Free((Ran(ip["v4"]) \ P4) \cup (Ran(ip["v6"]) \ P6))
        /\ \E s4 \in Orders(P4), s6 \in Orders(P6) :
             ip' = [ip EXCEPT !["v4"] = s4, !["v6"] = s6]
  <2> DEFINE P == [v \in Fam |-> Q(v)]
  <2>1. /\ Free(UNION {Ran(ip[v]) \ P[v] : v \in Fam})
        /\ \E s4 \in Orders(P["v4"]), s6 \in Orders(P["v6"]) :
             /\ InOrder(s4, ip["v4"]) /\ InOrder(s6, ip["v6"])
             /\ ip' = [ip EXCEPT !["v4"] = s4, !["v6"] = s6]
    BY DEF Policy
  <2>2. P["v4"] = Q("v4") /\ P["v6"] = Q("v6")
    BY DEF Fam
  <2>3. Q("v4") \subseteq Mbufs /\ Q("v6") \subseteq Mbufs
    BY PlaceFacts, RanMbufs
  <2> HIDE DEF P, Q
  <2>4. UNION {Ran(ip[v]) \ P[v] : v \in Fam}
          = (Ran(ip["v4"]) \ Q("v4")) \cup (Ran(ip["v6"]) \ Q("v6"))
    BY <2>2 DEF Fam
  <2>5. Free((Ran(ip["v4"]) \ Q("v4")) \cup (Ran(ip["v6"]) \ Q("v6")))
    BY <2>1, <2>4
  <2>6. \E s4 \in Orders(Q("v4")), s6 \in Orders(Q("v6")) :
          ip' = [ip EXCEPT !["v4"] = s4, !["v6"] = s6]
    BY <2>1, <2>2
  <2> QED
    BY <2>3, <2>5, <2>6
<1>2. PICK s4 \in Orders(P4), s6 \in Orders(P6) :
        ip' = [ip EXCEPT !["v4"] = s4, !["v6"] = s6]
  BY <1>1
<1>3. /\ pc = "policy" /\ pc' = "route" /\ lim' = lim /\ meta' = meta /\ dec' = dec
      /\ crypto' = crypto
      /\ burst = <<>> /\ burst' = burst /\ ipsec = <<>> /\ ipsec' = ipsec /\ miss' = miss
  BY DEF Policy, lookup, Empty, LookInv, IpsecLive
<1>4. /\ s4 \in Seq(Mbufs) /\ Ran(s4) = P4 /\ Once(s4)
      /\ s6 \in Seq(Mbufs) /\ Ran(s6) = P6 /\ Once(s6)
  BY OrdersFacts
<1>5. ip'["v4"] = s4 /\ ip'["v6"] = s6 /\ ip' \in [Fam -> Seq(Mbufs)]
  BY <1>2, <1>4 DEF PlaceTypes, Fam
<1>6. PlaceTypes' /\ Empty'
  BY <1>3, <1>5 DEF PlaceTypes, Empty
<1>7. /\ Ran(burst) = {} /\ Ran(ipsec) = {} /\ Once(burst) /\ Once(ipsec)
  BY <1>3, RanEmpty
<1>8. P4 \subseteq Ran(ip["v4"]) /\ P6 \subseteq Ran(ip["v6"])
  BY <1>1 DEF Ran
<1>9. /\ Apart(Ran(ip["v4"]), Ran(ip["v6"])) /\ Apart(Ran(ip["v4"]), crypto)
      /\ Apart(Ran(ip["v6"]), crypto)
      /\ \A m \in Mbufs : wire[m] # NoPkt <=> m \in Ran(ip["v4"]) \cup Ran(ip["v6"]) \cup crypto
  BY <1>7 DEF OnePlace, Places
<1>10. /\ \A m \in P4 \cup P6 : m \in Mbufs /\ wire[m] \in Wire /\ wire'[m] = wire[m]
  <2>1. \A m \in P4 \cup P6 : wire'[m] = wire[m]
    BY <1>1, <1>8, <1>9, FreeKeeps DEF Apart
  <2>2. \A m \in P4 \cup P6 : m \in Mbufs /\ wire[m] \in Wire
    BY <1>1, <1>8, <1>9, PlaceFacts
  <2> QED
    BY <2>1, <2>2
<1>11. OnePlace'
  <2> DEFINE G == (Ran(ip["v4"]) \ P4) \cup (Ran(ip["v6"]) \ P6)
  <2>1. \A m \in Mbufs : wire'[m] # NoPkt <=> wire[m] # NoPkt /\ m \notin G
    BY <1>1, FreeKeeps
  <2>2. \A m \in Mbufs : wire'[m] # NoPkt <=> m \in P4 \cup P6 \cup crypto
    BY <1>8, <1>9, <2>1 DEF Apart
  <2>3. Places({}, {}, P4, P6, crypto, wire')
    BY <1>8, <1>9, <2>2 DEF Places, Apart
  <2>4. AllOnce'
    BY <1>3, <1>4, <1>5, <1>7 DEF AllOnce
  <2> QED
    BY <1>3, <1>4, <1>5, <1>7, <2>3, <2>4 DEF OnePlace
<1>12. Decrypted'
  BY <1>3, <1>7 DEF Decrypted, Marked
<1>13. InboundPolicy'
  <2> SUFFICES ASSUME NEW v \in Fam, SpOn[v], NEW m \in Ran(ip'[v])
               PROVE  \/ wire'[m].rule = BYPASS
                      \/ /\ wire'[m].rule \in Sas /\ dec'[m] # NoSa
                         /\ Spi[dec'[m]] = Spi[wire'[m].rule]
    BY DEF InboundPolicy
  <2>1. m \in Q(v) /\ m \in P4 \cup P6
    BY <1>1, <1>4, <1>5 DEF Fam
  <2>2. PICK k \in DOMAIN ip[v] : Passes(v, k) /\ m = ip[v][k]
    BY <2>1
  <2>3. wire[ip[v][k]] \in Wire /\ wire'[m] = wire[m]
    BY <1>10, <2>1, <2>2
  <2>4. \/ wire[m].rule = BYPASS
        \/ wire[m].rule \in Sas /\ dec[m] # NoSa /\ Spi[dec[m]] = Spi[wire[m].rule]
    BY <1>3, <2>2, <2>3, PassesAllowed
  <2> QED
    BY <1>3, <2>3, <2>4
<1> QED
  BY <1>6, <1>11, <1>12, <1>13

LEMMA RouteStep ==
  ASSUME PolicyInv, Route
  PROVE  PlaceTypes' /\ Empty' /\ OnePlace' /\ Decrypted' /\ InboundPolicy'
<1> USE DEF PolicyInv, PlaceInv
<1>1. /\ pc = "route" /\ pc' \in {"rx", "drain"} /\ lim' = lim /\ meta' = meta /\ dec' = dec
      /\ crypto' = crypto /\ ip' = NoPkts
      /\ burst = <<>> /\ burst' = burst /\ ipsec = <<>> /\ ipsec' = ipsec /\ miss' = miss
      /\ Free(Ran(ip["v4"]) \cup Ran(ip["v6"]))
  <2>1. UNION {Ran(ip[v]) : v \in Fam} = Ran(ip["v4"]) \cup Ran(ip["v6"])
    BY DEF Fam
  <2> QED
    BY <2>1 DEF Route, lookup, Empty, LookInv, LookTypes, IpsecLive
<1>2. /\ Ran(burst) = {} /\ Ran(ipsec) = {} /\ Once(burst) /\ Once(ipsec)
      /\ ip' \in [Fam -> Seq(Mbufs)] /\ ip'["v4"] = <<>> /\ ip'["v6"] = <<>>
  BY <1>1, RanEmpty DEF NoPkts, Fam
<1>3. PlaceTypes' /\ Empty' /\ InboundPolicy'
  BY <1>1, <1>2 DEF PlaceTypes, Empty, InboundPolicy
<1>4. OnePlace'
  <2>1. \A m \in Mbufs : wire'[m] # NoPkt <=> m \in crypto
    BY <1>1, <1>2, FreeKeeps DEF OnePlace, Places, Apart
  <2>2. Places({}, {}, {}, {}, crypto, wire')
    BY <2>1 DEF Places, Apart
  <2> QED
    BY <1>1, <1>2, <2>2, RanEmpty DEF OnePlace, AllOnce
<1>5. Decrypted'
  BY <1>1, <1>2 DEF Decrypted, Marked
<1> QED
  BY <1>3, <1>4, <1>5

LEMMA NextPolicyInv ==
  ASSUME HasSad = Fam, HasUserdata
  PROVE  PolicyInv /\ [Next]_vars => PolicyInv'
<1> SUFFICES ASSUME PolicyInv, [Next]_vars PROVE PolicyInv'
  OBVIOUS
<1>1. LookInv'
  BY NextLookInv DEF PolicyInv, PlaceInv
<1>2. PlaceTypes' /\ Empty' /\ OnePlace' /\ Decrypted' /\ InboundPolicy'
  <2>1. CASE UNCHANGED vars
    BY <2>1 DEF vars, lookup, PolicyInv, PlaceInv, PlaceTypes, Empty, OnePlace, AllOnce, Decrypted,
                Marked, NeverIpsec, InboundPolicy
  <2>2. CASE Next
    BY <2>2, RxStep, PrepareOneStep, StillSteps, ProcessStep, DrainStep, PolicyStep, RouteStep
       DEF Next
  <2> QED
    BY <2>1, <2>2
<1> QED
  BY <1>1, <1>2 DEF PolicyInv, PlaceInv
-----------------------------------------------------------------------------
(* What leaves the inbound path was allowed to by the policy of its        *)
(* family: bypassed, or decrypted by an SA with the SPI of its rule,       *)
(* whatever earlier packets left in the mbufs, caches and crypto devices,  *)
(* provided that both SAD tables exist and drivers find the userdata of    *)
(* their sessions.                                                         *)
THEOREM PolicyHolds ==
  ASSUME HasSad = Fam, HasUserdata
  PROVE  Spec => []InboundPolicy
<1>1. PolicyInv => InboundPolicy
  BY DEF PolicyInv
<1> QED
  BY InitPolicyInv, NextPolicyInv, <1>1, PTL DEF Spec

(* A sequence lists an mbuf as often as it is among its elements. *)
LEMMA CountOnce ==
  ASSUME NEW s \in Seq(Mbufs), Once(s), NEW m \in Mbufs
  PROVE  Count(s, m) = IF m \in Ran(s) THEN 1 ELSE 0
<1> DEFINE K == {k \in DOMAIN s : s[k] = m}
<1>1. CASE m \in Ran(s)
  <2>1. PICK k \in DOMAIN s : s[k] = m
    BY <1>1 DEF Ran
  <2>2. K = {k}
    BY <2>1 DEF Once
  <2> QED
    BY <1>1, <2>2, FS_Singleton DEF Count
<1>2. CASE m \notin Ran(s)
  <2>1. K = {}
    BY <1>2 DEF Ran
  <2> QED
    BY <1>2, <2>1, FS_EmptySet DEF Count
<1> QED
  BY <1>1, <1>2

(* Every mbuf is in one place of the inbound path or in the pool: a packet *)
(* that is dropped at any of the points of the path is freed, and freed    *)
(* once.                                                                   *)
THEOREM EveryMbufInOnePlace ==
  ASSUME HasSad = Fam, HasUserdata
  PROVE  Spec => []MbufInOnePlace
<1>1. ASSUME PolicyInv
      PROVE  MbufInOnePlace
  <2> SUFFICES ASSUME NEW m \in Mbufs
               PROVE  Count(burst, m) + Count(ipsec, m) + Count(ip["v4"], m) + Count(ip["v6"], m)
                        + (IF m \in crypto THEN 1 ELSE 0) = (IF wire[m] = NoPkt THEN 0 ELSE 1)
    BY DEF MbufInOnePlace
  <2>1. PlaceInv /\ AllOnce
    BY <1>1 DEF PolicyInv, PlaceInv, OnePlace
  <2>2. /\ Count(burst, m) = IF m \in Ran(burst) THEN 1 ELSE 0
        /\ Count(ipsec, m) = IF m \in Ran(ipsec) THEN 1 ELSE 0
        /\ Count(ip["v4"], m) = IF m \in Ran(ip["v4"]) THEN 1 ELSE 0
        /\ Count(ip["v6"], m) = IF m \in Ran(ip["v6"]) THEN 1 ELSE 0
    BY <2>1, PlaceFacts, CountOnce DEF AllOnce
  <2>3. Places(Ran(burst), Ran(ipsec), Ran(ip["v4"]), Ran(ip["v6"]), crypto, wire)
    BY <2>1 DEF PlaceInv, OnePlace
  <2> QED
    BY <2>2, <2>3 DEF Places, Apart
<1> QED
  BY InitPolicyInv, NextPolicyInv, <1>1, PTL DEF Spec

(* Type correctness of the inbound path. *)
THEOREM InTypeCorrect ==
  ASSUME HasSad = Fam, HasUserdata
  PROVE  Spec => []InTypeOK
<1>1. ASSUME PolicyInv
      PROVE  InTypeOK
  <2> USE <1>1 DEF PolicyInv, PlaceInv
  <2>1. miss \subseteq DOMAIN ipsec
    BY DEF Empty, LookInv, Resolved
  <2>2. pc \in {"lookup", "miss", "process", "policy"} => \A v \in Fam : lim[v] <= Len(ip[v])
    <3>1. \A v \in Fam : Len(ip[v]) \in Nat
      BY DEF PlaceTypes
    <3> QED
      BY <3>1 DEF Decrypted
  <2> QED
    BY <2>1, <2>2 DEF InTypeOK, LookInv, LookTypes, PlaceTypes, MaybeSa
<1> QED
  BY InitPolicyInv, NextPolicyInv, <1>1, PTL DEF Spec
=============================================================================
