------------------------------ MODULE EspXform ------------------------------
(***************************************************************************)
(* esp.c and ipip.h as operators: what esp_outbound makes of a packet, and *)
(* what esp_inbound and esp_inbound_post make of the result.               *)
(*                                                                         *)
(* A packet is [v, hl, len, nlp, room]: family, length of its IP header,   *)
(* length, next protocol, tail room of its last segment.  An SA is         *)
(* [mode, act, alg, block, iv, digest, hw]: hw tells that the NIC writes   *)
(* the ESP trailer.  Addresses, TTL, TOS and checksums are left out:       *)
(* prepare_tx_pkt computes the IPv4 checksum afresh.                       *)
(***************************************************************************)
EXTENDS Integers

(* The SAs sa.c makes and the packets that can arrive. *)
SaOK(s) ==
  /\ s.mode \in {"tun4", "tun6", "trs4", "trs6"}
  /\ s.act \in {"none", "cpu", "inl_crypto", "inl_proto", "la_proto"}
  /\ s.block \in {4, 8, 16, 64} /\ s.iv \in Nat /\ s.digest \in Nat /\ s.hw \in BOOLEAN

PktOK(p) ==
  /\ p.v \in {"v4", "v6"} /\ p.hl \in Nat /\ p.len \in Nat /\ p.room \in Nat
  /\ p.len >= (IF p.v = "v4" THEN p.hl ELSE 40)

IP_MAXPACKET == 65535
EspHdr       == 8            \* sizeof(struct rte_esp_hdr)
IpHdr(v)     == IF v = "v4" THEN 20 ELSE 40
U16(n)       == n % 65536

IsTransport(s) == s.mode \in {"trs4", "trs6"}
SaFam(s)       == IF s.mode \in {"tun4", "trs4"} THEN "v4" ELSE "v6"

(* Family of the header in front of the ESP header. *)
OuterFam(s, p) == IF IsTransport(s) THEN p.v ELSE SaFam(s)

AlignCeil(n, b) == ((n + b - 1) \div b) * b

(* What ESP covers: everything, or in transport mode what follows the IP   *)
(* header, of which IPv6 extensions are not a part.                        *)
InnerHdr(s, p) == IF ~IsTransport(s) THEN 0 ELSE IF p.v = "v4" THEN p.hl ELSE 40
OuterHdr(s, p) == IF IsTransport(s) THEN InnerHdr(s, p) ELSE IpHdr(SaFam(s))

(* pad_payload_len and pad_len, two bytes of trailer included, both        *)
(* uint16_t.  Mutant: the trailer is not counted.                          *)
PadPayloadNoTrailer(s, p) == U16(AlignCeil(p.len - InnerHdr(s, p), s.block))

PadPayload(s, p) == U16(AlignCeil(p.len - InnerHdr(s, p) + 2, s.block))
PadLen(s, p)     == U16(PadPayload(s, p) + InnerHdr(s, p) - p.len)

TooBig(s, p) == OuterHdr(s, p) + EspHdr + s.iv + PadPayload(s, p) + s.digest > IP_MAXPACKET

ByHw(s) == s.act = "inl_crypto" /\ s.hw

(* rte_pktmbuf_append fails. *)
NoSpace(s, p) == ~ByHw(s) /\ PadLen(s, p) + s.digest > p.room

(* The padding is 1, 2, 3...: the inline path leaves in it what the buffer *)
(* held, and only writes its length and the next protocol.                 *)
Filled(s, p) == s.act # "inl_crypto" \/ ByHw(s) \/ PadLen(s, p) = 2

(* The algorithms of the two switches; those of the parser that are not    *)
(* there (CCM, ChaCha20-Poly1305, XCBC, SHA384...) fail after sa->seq++.   *)
Supported(s) == s.alg \in {"gcm", "ctr", "cbc", "null"}
CounterIv(s) == s.alg \in {"gcm", "ctr"}

(* esp_outbound on a packet it accepts; with hw the NIC adds the trailer. *)
EspOut(s, p) ==
  [v     |-> OuterFam(s, p),
   hl    |-> OuterHdr(s, p),
   len   |-> p.len + PadLen(s, p) + s.digest + EspHdr + s.iv
               + (IF IsTransport(s) THEN 0 ELSE OuterHdr(s, p)),
   inner |-> p.v,
   pad   |-> (PadLen(s, p) - 2) % 256,
   next  |-> IF IsTransport(s) THEN p.nlp ELSE IF p.v = "v4" THEN "ipip" ELSE "ipv6",
   fill  |-> Filled(s, p),
   data  |-> p.nlp]
-----------------------------------------------------------------------------
(* esp_inbound accepts e. *)
PayloadLen(s, e) == e.len - (IF e.v = "v4" THEN e.hl ELSE 40) - EspHdr - s.iv - s.digest
InAccepts(s, e)  == PayloadLen(s, e) % s.block = 0 /\ PayloadLen(s, e) > 0

(* esp_inbound_post: the padding is checked and trimmed, the headers are   *)
(* removed; in a tunnel the version of the inner header, not the next      *)
(* protocol of the trailer, tells what the packet is.                      *)
PostAccepts(s, e) == e.fill /\ e.pad + 2 + s.digest <= e.len

EspIn(s, e) ==
  [v   |-> IF IsTransport(s) THEN e.v ELSE e.inner,
   len |-> e.len - (e.pad + 2 + s.digest) - EspHdr - s.iv
             - (IF IsTransport(s) THEN 0 ELSE IpHdr(e.v)),
   nlp |-> IF IsTransport(s) THEN e.next ELSE e.data]

(* The sum of esp_outbound exceeds the uint16_t that holds it. *)
Wraps(s, p) == AlignCeil(p.len - InnerHdr(s, p) + 2, s.block) > 65535
=============================================================================
