---------------------------- MODULE OutboundPath ----------------------------
(***************************************************************************)
(* The outbound direction: lcores that share the SAs of their socket look  *)
(* up the policy of every packet, protect it with esp_outbound (legacy     *)
(* mode) or with the IPsec library, and route what comes back at once or   *)
(* later from a crypto device.                                             *)
(*                                                                         *)
(* sa->seq is a plain uint64_t that esp_outbound increments and then reads *)
(* three times; every access is a step.  overlap is a ghost variable: the  *)
(* SAs two lcores have been inside of at once.                             *)
(***************************************************************************)
EXTENDS EspXform, PktLists

CONSTANTS
  Lcores,
  Sas,               \* outbound SAs
  NoSa,
  SaRec,             \* the parameters of each SA (see EspXform)
  Envs,              \* configurations and traffic (see EnvOK)
  BYPASS, DISCARD,
  MAX_PKT_BURST,     \* bound on the packets of a burst
  MaxPkts,           \* bound on the packets that arrive
  SEQ_MOD            \* 2^32: values of the sequence number of an ESP header

(* lib: "off" (legacy mode), "plain" (-l) or "atomic" (-a); single: the SA *)
(* of --single-sa or NoSa; sp: families with an outbound SPD; wire, max:   *)
(* the packets that may arrive, and how many; lcores: those of the socket. *)
EnvOK(e) ==
  /\ e.lcores \subseteq Lcores /\ e.max \in 0 .. MaxPkts
  /\ e.lib \in {"off", "plain", "atomic"} /\ e.single \in Sas \cup {NoSa}
  /\ e.sp \subseteq Fam
  /\ \A w \in e.wire : w.kind \in {"esp", "clear"} /\ PktOK(w)
                       /\ w.rule \in Sas \cup {BYPASS, DISCARD}

ASSUME OutAssumption ==
  /\ NoSa \notin Sas /\ BYPASS \notin Sas /\ DISCARD \notin Sas
  /\ \A s \in Sas : SaOK(SaRec[s])
  /\ \A e \in Envs : EnvOK(e)
  /\ SEQ_MOD \in Nat \ {0} /\ MAX_PKT_BURST \in Nat \ {0} /\ MaxPkts \in Nat

Ids == 1 .. MaxPkts

VARIABLES
  env,      \* the configuration
  pc,       \* where each lcore is
  pkt,      \* the packets that arrived: wire packet, SA, ESP packet and counters
  ip,       \* traffic.ip4.pkts and traffic.ip6.pkts of each lcore
  ipsec,    \* traffic.ipsec: packets and the SAs of their policies
  ol,       \* ol_pkts: packets of inline SAs
  crypto,   \* packets at the crypto devices
  seq,      \* sa->seq, or the sequence number of the library
  tmp,      \* the value of seq an increment has read
  sent,     \* packets routed, and the table that routed them
  overlap   \* ghost

data == <<pkt, ip, ipsec, ol, crypto>>
vars == <<env, pc, data, seq, tmp, sent, overlap>>

NoEsp  == [v |-> "none"]

Init ==
  /\ env \in Envs
  /\ pc = [l \in Lcores |-> "rx"]
  /\ pkt = <<>>
  /\ ip = [l \in Lcores |-> NoPkts]
  /\ ipsec = [l \in Lcores |-> <<>>] /\ ol = [l \in Lcores |-> <<>>]
  /\ crypto = [l \in Lcores |-> {}]
  /\ seq = [s \in Sas |-> 0] /\ tmp = [l \in Lcores |-> 0]
  /\ sent = {} /\ overlap = {}

Arrived(w) == [w |-> w, sa |-> NoSa, esp |-> NoEsp, seq |-> 0, iv |-> 0, icb |-> 0, off |-> FALSE]
Goto(l, label) == pc' = [pc EXCEPT ![l] = label]

Rx(l) ==
  /\ pc[l] = "rx"
  /\ \E n \in 1 .. MAX_PKT_BURST : \E b \in [1 .. n -> env.wire] :
       LET new == [k \in 1 .. n |-> Len(pkt) + k]
           Esp == {new[k] : k \in {x \in 1 .. n : b[x].kind = "esp"}}
           Clear(v) == {new[k] : k \in {x \in 1 .. n : b[x].kind = "clear" /\ b[x].v = v}}
       IN  /\ Len(pkt) + n <= env.max
           /\ pkt' = pkt \o [k \in 1 .. n |-> Arrived(b[k])]
           /\ \E s4 \in Kept(new, Clear("v4")), s6 \in Kept(new, Clear("v6")) :
                ip' = [ip EXCEPT ![l] = [@ EXCEPT !["v4"] = s4, !["v6"] = s6]]
           /\ \E e \in Kept(new, Esp) :
                ipsec' = [ipsec EXCEPT ![l] = [k \in DOMAIN e |-> <<e[k], NoSa>>]]
  /\ Goto(l, "spd")
  /\ UNCHANGED <<env, ol, crypto, seq, tmp, sent, overlap>>
-----------------------------------------------------------------------------
Rule(i) == pkt[i].w.rule

(* outbound_spd_lookup keeps a packet in clear text.  Mutant: what no rule *)
(* names passes.                                                           *)
PassesDefault(v, i) == v \notin env.sp \/ Rule(i) \notin Sas

Passes(v, i)  == v \notin env.sp \/ Rule(i) = BYPASS
Protect(v, i) == v \in env.sp /\ Rule(i) \in Sas

(* The packets one SA protects, or a policy, and the SA of each. *)
ToProtect(l) ==
  IF env.single # NoSa THEN Ran(ip[l]["v4"] \o ip[l]["v6"])
  ELSE {i \in Ran(ip[l]["v4"] \o ip[l]["v6"]) : Protect(pkt[i].w.v, i)}

SaFor(i) == IF env.single # NoSa THEN env.single ELSE Rule(i)

ToPass(l, v) == {i \in Ran(ip[l][v]) : env.single = NoSa /\ Passes(v, i)}

(* process_pkts_outbound, process_pkts_outbound_nosp: the IPsec traffic of *)
(* a protected port is freed, the packets to protect take its place.       *)
Spd(l) ==
  /\ pc[l] = "spd"
  /\ \E P \in Kept(ip[l]["v4"] \o ip[l]["v6"], ToProtect(l)) :
       ipsec' = [ipsec EXCEPT ![l] = [k \in DOMAIN P |-> <<P[k], SaFor(P[k])>>]]
  /\ \E s4 \in Kept(ip[l]["v4"], ToPass(l, "v4")), s6 \in Kept(ip[l]["v6"], ToPass(l, "v6")) :
       ip' = [ip EXCEPT ![l] = [@ EXCEPT !["v4"] = s4, !["v6"] = s6]]
  /\ Goto(l, "xform")
  /\ UNCHANGED <<env, pkt, ol, crypto, seq, tmp, sent, overlap>>
-----------------------------------------------------------------------------
Cur(l) == ipsec[l][1][1]
Sa(l)  == ipsec[l][1][2]
Rec(l) == SaRec[Sa(l)]
Wp(l)  == pkt[Cur(l)].w

At(l, label)  == pc[l] = label /\ ipsec[l] # <<>>
Tag(l, S)     == [S EXCEPT ![Cur(l)].sa = Sa(l)]
Pop(l)        == ipsec' = [ipsec EXCEPT ![l] = Tail(@)]

(* esp_outbound is called, and does not refuse the packet. *)
Xforms(l)  == env.lib = "off" /\ Rec(l).act \in {"none", "inl_crypto"}
Refused(l) == TooBig(Rec(l), Wp(l)) \/ NoSpace(Rec(l), Wp(l))

(* No session, esp_outbound refuses, legacy mode meets CPU crypto, the     *)
(* library refuses: the packet is freed.                                   *)
XformFree(l) ==
  /\ At(l, "xform")
  /\ \/ Rec(l).act \in {"none", "la_proto"}
     \/ Xforms(l) /\ Refused(l)
     \/ env.lib = "off" /\ Rec(l).act = "cpu"
     \/ env.lib # "off"
  /\ Pop(l)
  /\ UNCHANGED <<env, pc, pkt, ip, ol, crypto, seq, tmp, sent, overlap>>

(* The device or the NIC builds the ESP packet itself. *)
XformProto(l) ==
  /\ At(l, "xform") /\ env.lib = "off"
  /\ \/ /\ Rec(l).act = "la_proto"
        /\ crypto' = [crypto EXCEPT ![l] = @ \cup {Cur(l)}]
        /\ UNCHANGED ol
     \/ /\ Rec(l).act = "inl_proto"
        /\ ol' = [ol EXCEPT ![l] = Append(@, Cur(l))]
        /\ UNCHANGED crypto
  /\ pkt' = Tag(l, pkt)
  /\ Pop(l)
  /\ UNCHANGED <<env, pc, ip, seq, tmp, sent, overlap>>

Inside == {"inc", "hdr", "iv", "icb", "lib"}
Enter(l) ==
  overlap' = overlap \cup
    {s \in {Sa(l)} : \E k \in Lcores \ {l} : pc[k] \in Inside /\ Sa(k) = s}

(* esp_outbound has built the headers; it loads sa->seq. *)
XformEsp(l) ==
  /\ At(l, "xform") /\ Xforms(l) /\ ~Refused(l)
  /\ pkt' = [Tag(l, pkt) EXCEPT ![Cur(l)].esp = EspOut(Rec(l), Wp(l))]
  /\ tmp' = [tmp EXCEPT ![l] = seq[Sa(l)]]
  /\ Enter(l)
  /\ Goto(l, "inc")
  /\ UNCHANGED <<env, ip, ipsec, ol, crypto, seq, sent>>

(* sa->seq++.  Mutant: what was loaded is stored. *)
SeqStoreOld(l) == tmp[l]

SeqStore(l) == tmp[l] + 1

Inc(l) ==
  /\ pc[l] = "inc"
  /\ seq' = [seq EXCEPT ![Sa(l)] = SeqStore(l)]
  /\ Goto(l, "hdr")
  /\ UNCHANGED <<env, data, tmp, sent, overlap>>

(* esp->seq.  Mutant: the cast to uint32_t is missing. *)
EspSeqWide(s) == seq[s]

EspSeq(s) == seq[s] % SEQ_MOD

Hdr(l) ==
  /\ pc[l] = "hdr"
  /\ pkt' = [pkt EXCEPT ![Cur(l)].seq = EspSeq(Sa(l))]
  /\ Goto(l, "iv")
  /\ UNCHANGED <<env, ip, ipsec, ol, crypto, seq, tmp, sent, overlap>>

(* The IV; the inline path ends here, an unsupported algorithm too. *)
Iv(l) ==
  /\ pc[l] = "iv"
  /\ pkt' = [pkt EXCEPT ![Cur(l)].iv = IF CounterIv(Rec(l)) THEN seq[Sa(l)] ELSE 0]
  /\ IF Supported(Rec(l)) /\ Rec(l).act # "inl_crypto"
     THEN Goto(l, "icb") /\ UNCHANGED <<ipsec, ol>>
     ELSE /\ Goto(l, "xform")
          /\ ol' = [ol EXCEPT ![l] = IF Supported(Rec(l)) THEN Append(@, Cur(l)) ELSE @]
          /\ Pop(l)
  /\ UNCHANGED <<env, ip, crypto, seq, tmp, sent, overlap>>

Icb(l) ==
  /\ pc[l] = "icb"
  /\ pkt' = [pkt EXCEPT ![Cur(l)].icb = seq[Sa(l)]]
  /\ crypto' = [crypto EXCEPT ![l] = @ \cup {Cur(l)}]
  /\ Pop(l)
  /\ Goto(l, "xform")
  /\ UNCHANGED <<env, ip, ol, seq, tmp, sent, overlap>>
-----------------------------------------------------------------------------
(* The library takes the next sequence number, in one step with -a, and    *)
(* never one past the last of 32 bits (-e, ESN, is left out).              *)
LibTake(l) ==
  /\ At(l, "xform") /\ env.lib # "off" /\ seq[Sa(l)] + 1 < SEQ_MOD
  /\ tmp' = [tmp EXCEPT ![l] = seq[Sa(l)]]
  /\ IF env.lib = "atomic"
     THEN seq' = [seq EXCEPT ![Sa(l)] = @ + 1] /\ UNCHANGED overlap
     ELSE UNCHANGED seq /\ Enter(l)
  /\ Goto(l, "lib")
  /\ UNCHANGED <<env, data, sent>>

(* Crypto devices get lookaside packets; inline and CPU packets join the   *)
(* list of the family of their SA (copy_to_trf).  Mutant: of the packet.   *)
TrfFamInner(s, w) == w.v

TrfFam(s, w) == SaFam(s)

LibPut(l) ==
  /\ pc[l] = "lib"
  /\ seq' = IF env.lib = "plain" THEN [seq EXCEPT ![Sa(l)] = tmp[l] + 1] ELSE seq
  /\ pkt' = [Tag(l, pkt) EXCEPT
       ![Cur(l)] = [@ EXCEPT !.esp = EspOut(Rec(l), Wp(l)), !.seq = tmp[l] + 1,
                             !.iv = IF CounterIv(Rec(l)) THEN tmp[l] + 1 ELSE 0,
                             !.icb = IF Rec(l).act = "none" THEN tmp[l] + 1 ELSE 0,
                             !.off = Rec(l).act \in {"inl_crypto", "inl_proto"}]]
  /\ \/ /\ Rec(l).act \in {"none", "la_proto"}
        /\ crypto' = [crypto EXCEPT ![l] = @ \cup {Cur(l)}]
        /\ UNCHANGED ip
     \/ /\ Rec(l).act \in {"inl_crypto", "inl_proto", "cpu"}
        /\ ip' = [ip EXCEPT ![l][TrfFam(Rec(l), Wp(l))] = Append(@, Cur(l))]
        /\ UNCHANGED crypto
  /\ Pop(l)
  /\ Goto(l, "xform")
  /\ UNCHANGED <<env, ol, tmp, sent, overlap>>
-----------------------------------------------------------------------------
(* ip_v of what the mbuf holds: the NIC adds the outer header of an        *)
(* inline-protocol SA only when it sends, a device when it is done.        *)
IpV(i) ==
  IF pkt[i].esp # NoEsp THEN pkt[i].esp.v
  ELSE IF pkt[i].sa # NoSa /\ SaRec[pkt[i].sa].act = "la_proto"
       THEN OuterFam(SaRec[pkt[i].sa], pkt[i].w)
       ELSE pkt[i].w.v

(* ipsec_inline_dequeue takes the last of ol_pkts first. *)
Inlined(l) == [k \in DOMAIN ol[l] |-> ol[l][Len(ol[l]) + 1 - k]]

OfFam(M, v) == {i \in M : IpV(i) = v}

(* With one SA for everything the first result tells the family of all.    *)
(* When there is none, the code reads the version of whatever packet, if   *)
(* any, the array still points to.  Mutant: the list is that of IPv4.      *)
SingleFamV4(l) == {"v4"}

SingleFam(l) == IF ol[l] = <<>> THEN Fam ELSE {IpV(Inlined(l)[1])}

XformEnd(l) ==
  /\ pc[l] = "xform" /\ ipsec[l] = <<>>
  /\ pkt' = [i \in DOMAIN pkt |->
       IF i \in Ran(ol[l]) THEN [pkt[i] EXCEPT !.off = TRUE] ELSE pkt[i]]
  /\ \/ /\ env.single = NoSa \/ env.lib # "off"
        /\ \E s4 \in Kept(Inlined(l), OfFam(Ran(ol[l]), "v4")),
              s6 \in Kept(Inlined(l), OfFam(Ran(ol[l]), "v6")) :
             ip' = [ip EXCEPT ![l] = [@ EXCEPT !["v4"] = ip[l]["v4"] \o s4,
                                               !["v6"] = ip[l]["v6"] \o s6]]
     \/ /\ env.single # NoSa /\ env.lib = "off"
        /\ \E f \in SingleFam(l) : ip' = [ip EXCEPT ![l] = [@ EXCEPT ![f] = Inlined(l)]]
  /\ ol' = [ol EXCEPT ![l] = <<>>]
  /\ Goto(l, "route")
  /\ UNCHANGED <<env, ipsec, crypto, seq, tmp, sent, overlap>>

(* route4_pkts, route6_pkts (module TxPath). *)
Route(l) ==
  /\ pc[l] = "route"
  /\ sent' = sent \cup UNION {{<<ip[l][v][k], v>> : k \in DOMAIN ip[l][v]} : v \in Fam}
  /\ ip' = [ip EXCEPT ![l] = NoPkts]
  /\ Goto(l, "drain")
  /\ UNCHANGED <<env, pkt, ipsec, ol, crypto, seq, tmp, overlap>>

(* drain_outbound_crypto_queues.  The operations complete in any order; a  *)
(* failed one frees its packet (esp_outbound_post).                        *)
DrainFam(i) == IF env.lib = "off" THEN IpV(i) ELSE TrfFam(SaRec[pkt[i].sa], pkt[i].w)

Drain(l) ==
  /\ pc[l] = "drain"
  /\ \E D \in SUBSET crypto[l] : \E ok \in SUBSET D :
       /\ crypto' = [crypto EXCEPT ![l] = @ \ D]
       /\ sent' = sent \cup {<<i, DrainFam(i)>> : i \in ok}
  /\ Goto(l, "rx")
  /\ UNCHANGED <<env, pkt, ip, ipsec, ol, seq, tmp, overlap>>

Idle(l) ==
  /\ pc[l] = "rx"
  /\ crypto[l] # {}
  /\ Goto(l, "drain")
  /\ UNCHANGED <<env, data, seq, tmp, sent, overlap>>

Next ==
  \E l \in env.lcores :
    \/ Rx(l) \/ Spd(l) \/ XformFree(l) \/ XformProto(l) \/ XformEsp(l) \/ Inc(l) \/ Hdr(l)
    \/ Iv(l) \/ Icb(l) \/ LibTake(l) \/ LibPut(l) \/ XformEnd(l) \/ Route(l) \/ Drain(l)
    \/ Idle(l)

OutSpec == Init /\ [][Next]_vars
-----------------------------------------------------------------------------
(* Type invariant. *)
OutTypeOK ==
  /\ EnvOK(env)
  /\ pc \in [Lcores -> {"rx", "spd", "xform", "route", "drain"} \cup Inside]
  /\ DOMAIN pkt \subseteq Ids
  /\ \A i \in DOMAIN pkt :
       /\ pkt[i].w \in env.wire /\ pkt[i].sa \in Sas \cup {NoSa}
       /\ pkt[i].seq \in 0 .. SEQ_MOD - 1 /\ pkt[i].off \in BOOLEAN
  /\ \A l \in Lcores :
       /\ crypto[l] \subseteq DOMAIN pkt
       /\ \A v \in Fam : \A k \in DOMAIN ip[l][v] : ip[l][v][k] \in DOMAIN pkt
       /\ \A k \in DOMAIN ipsec[l] : ipsec[l][k][1] \in DOMAIN pkt
       /\ pc[l] \in Inside => ipsec[l] # <<>>
  /\ seq \in [Sas -> 0 .. MaxPkts] /\ tmp \in [Lcores -> 0 .. MaxPkts]

(* The SA that must protect a packet, NoSa if it leaves in clear text.     *)
Due(w) ==
  IF env.single # NoSa THEN env.single
  ELSE IF w.v \in env.sp /\ w.rule \in Sas THEN w.rule ELSE NoSa

(* A packet keeps its own header until it is routed, but is listed by the  *)
(* family of its SA or of the first packet of its burst.                   *)
MixedFam(s, w) ==
  /\ s # NoSa
  /\ IsTransport(SaRec[s]) \/ SaRec[s].act = "inl_proto"
  /\ env.single # NoSa \/ w.v # SaFam(SaRec[s])

(* A packet that leaves a protected port was no ESP packet when it came,   *)
(* was not to be discarded, and is protected by the SA of its policy if it *)
(* has one; it leaves once, and the table of its own family routes it,     *)
(* whatever was inlined, queued or freed around it, unless families mix    *)
(* under an SA that leaves the packet's own header in front.               *)
OutPolicy ==
  \A x \in sent :
    LET p == pkt[x[1]]
        d == Due(p.w)
    IN  /\ p.w.kind # "esp"
        /\ p.sa = d
        /\ d = NoSa /\ p.w.v \in env.sp => p.w.rule = BYPASS
        /\ \A y \in sent : y[1] = x[1] => y = x
        /\ (d # NoSa /\ SaRec[d].act # "la_proto" /\ SaRec[d].act # "inl_proto") =>
             p.esp # NoEsp /\ (SaRec[d].act = "inl_crypto") = p.off
        /\ MixedFam(d, p.w) \/ x[2] = IpV(x[1])

Protected(s) == {i \in DOMAIN pkt : pkt[i].sa = s /\ pkt[i].esp # NoEsp /\ ~\E l \in Lcores :
                   pc[l] \in Inside /\ ipsec[l][1][1] = i}
Counter(i) == IF SaRec[pkt[i].sa].act = "none" THEN pkt[i].icb ELSE pkt[i].iv

(* No two packets of an SA get one counter block: if no two lcores were    *)
(* inside the SA at once, the counters of its packets differ, the explicit *)
(* IV and the ESP header carry the counter too, and the 32 bits of a       *)
(* header repeat only after SEQ_MOD packets.                               *)
NonceUnique ==
  \A s \in Sas \ overlap :
    Supported(SaRec[s]) /\ (CounterIv(SaRec[s]) \/ SaRec[s].act = "none") =>
      /\ \A i \in Protected(s) :
           /\ Counter(i) > 0 /\ pkt[i].seq = Counter(i) % SEQ_MOD
           /\ CounterIv(SaRec[s]) => pkt[i].iv = Counter(i)
      /\ \A i, j \in Protected(s) : i # j => Counter(i) # Counter(j)

(* The peer undoes esp_outbound: it accepts every packet, restores family, *)
(* length and next protocol, and no packet it makes in legacy mode exceeds *)
(* IP_MAXPACKET; except that an inline SA without a hardware trailer       *)
(* leaves its padding unwritten, and that a length beyond 16 bits defeats  *)
(* the check.                                                              *)
EspRoundTrip ==
  \A i \in DOMAIN pkt :
    LET p == pkt[i]
        s == SaRec[p.sa]
    IN  p.sa # NoSa /\ p.esp # NoEsp /\ ~Wraps(s, p.w) =>
          /\ env.lib = "off" => p.esp.len <= IP_MAXPACKET
          /\ InAccepts(s, p.esp)
          /\ Filled(s, p.w) => PostAccepts(s, p.esp)
          /\ EspIn(s, p.esp) = [v |-> p.w.v, len |-> p.w.len, nlp |-> p.w.nlp]
=============================================================================
