------------------------- MODULE OutboundPathProofs -------------------------
(***************************************************************************)
(* Theorems about module OutboundPath, for any number of lcores, SAs and   *)
(* packets, any SAs sa.c can make and any interleaving.                    *)
(*                                                                         *)
(* OutInv is inductive: every packet is in at most one place (a list of a  *)
(* lcore, a crypto device, the packets sent), and each place says how far  *)
(* the packets in it have come (Facts): not yet looked up, waiting for the *)
(* SA of its policy, inside esp_outbound, at a device, ready to be routed. *)
(* OutPolicy is what Ready says of the last place; EspRoundTrip follows    *)
(* from Built and the arithmetic of the trailer.  Each action is shown to  *)
(* be a step that moves packets of one lcore only (Moves).                 *)
(*                                                                         *)
(* NInv adds the counters: for an SA no two lcores were inside of at once, *)
(* what a lcore between two accesses knows of sa->seq (Stage).  Counted    *)
(* bounds the counters by the packets that are done with.                  *)
(***************************************************************************)
EXTENDS OutboundPath, FiniteSetTheorems, TLAPS
-----------------------------------------------------------------------------
(* The arithmetic of esp_outbound. *)
LEMMA AlignFacts ==
  ASSUME NEW n \in Nat, NEW b \in {4, 8, 16, 64}
  PROVE  LET a == AlignCeil(n, b) IN
         /\ a \in Nat /\ a % b = 0 /\ n <= a /\ a < n + b
<1>1. CASE b = 4
  BY <1>1 DEF AlignCeil
<1>2. CASE b = 8
  BY <1>2 DEF AlignCeil
<1>3. CASE b = 16
  BY <1>3 DEF AlignCeil
<1>4. CASE b = 64
  BY <1>4 DEF AlignCeil
<1> QED
  BY <1>1, <1>2, <1>3, <1>4

(* The trailer fits its fields if the padded length fits 16 bits.          *)
LEMMA PadFacts ==
  ASSUME NEW s, NEW p, SaOK(s), PktOK(p), ~Wraps(s, p)
  PROVE  /\ InnerHdr(s, p) \in Nat /\ p.len \in Nat
         /\ PadPayload(s, p) \in Nat /\ PadPayload(s, p) > 0
         /\ PadPayload(s, p) % s.block = 0
         /\ PadLen(s, p) = PadPayload(s, p) + InnerHdr(s, p) - p.len
         /\ PadLen(s, p) \in 2 .. 65
<1> DEFINE n == p.len - InnerHdr(s, p) + 2
           a == AlignCeil(n, s.block)
<1>1. InnerHdr(s, p) \in Nat /\ InnerHdr(s, p) <= p.len /\ p.len \in Nat
  BY DEF PktOK, InnerHdr
<1>2. n \in Nat /\ n >= 2 /\ s.block \in {4, 8, 16, 64}
  BY <1>1 DEF SaOK
<1>3. a \in Nat /\ a % s.block = 0 /\ n <= a /\ a < n + s.block
  BY <1>2, AlignFacts
<1>4. a <= 65535
  BY <1>3 DEF Wraps
<1>5. PadPayload(s, p) = a
  BY <1>3, <1>4 DEF PadPayload, U16
<1> HIDE DEF a
<1>6. a + InnerHdr(s, p) - p.len \in 2 .. 65
  BY <1>1, <1>2, <1>3
<1>7. PadLen(s, p) = a + InnerHdr(s, p) - p.len
  BY <1>5, <1>6 DEF PadLen, U16
<1> QED
  BY <1>1, <1>2, <1>3, <1>5, <1>6, <1>7

(* An ESP packet has the family of its outer header. *)
LEMMA FamFacts ==
  ASSUME NEW s, NEW p, SaOK(s), PktOK(p)
  PROVE  /\ SaFam(s) \in Fam /\ OuterFam(s, p) \in Fam
         /\ EspOut(s, p).v = OuterFam(s, p)
         /\ EspOut(s, p) # NoEsp
<1>1. SaFam(s) \in Fam /\ OuterFam(s, p) \in Fam
  BY DEF SaFam, OuterFam, Fam, PktOK
<1>2. EspOut(s, p).v = OuterFam(s, p)
  BY DEF EspOut
<1> QED
  BY <1>1, <1>2 DEF NoEsp, Fam

(* What EspRoundTrip says of one packet. *)
LEMMA RoundTrip ==
  ASSUME NEW s, NEW p, SaOK(s), PktOK(p), ~Wraps(s, p)
  PROVE  LET e == EspOut(s, p) IN
         /\ ~TooBig(s, p) => e.len <= IP_MAXPACKET
         /\ InAccepts(s, e)
         /\ Filled(s, p) => PostAccepts(s, e)
         /\ EspIn(s, e) = [v |-> p.v, len |-> p.len, nlp |-> p.nlp]
<1> DEFINE e == EspOut(s, p)
<1>1. /\ InnerHdr(s, p) \in Nat /\ p.len \in Nat
      /\ PadPayload(s, p) \in Nat /\ PadPayload(s, p) > 0
      /\ PadPayload(s, p) % s.block = 0
      /\ PadLen(s, p) = PadPayload(s, p) + InnerHdr(s, p) - p.len
      /\ PadLen(s, p) \in 2 .. 65
  BY PadFacts
<1>2. s.iv \in Nat /\ s.digest \in Nat /\ s.mode \in {"tun4", "tun6", "trs4", "trs6"}
  BY DEF SaOK
<1>3. /\ e.v = OuterFam(s, p) /\ e.hl = OuterHdr(s, p) /\ e.inner = p.v /\ e.data = p.nlp
      /\ e.len = p.len + PadLen(s, p) + s.digest + EspHdr + s.iv
                   + (IF IsTransport(s) THEN 0 ELSE OuterHdr(s, p))
      /\ e.pad = (PadLen(s, p) - 2) % 256
      /\ e.next = IF IsTransport(s) THEN p.nlp ELSE IF p.v = "v4" THEN "ipip" ELSE "ipv6"
      /\ e.fill = Filled(s, p)
  BY DEF EspOut
<1>4. e.pad = PadLen(s, p) - 2
  BY <1>1, <1>3
<1>5. OuterHdr(s, p) = (IF e.v = "v4" THEN e.hl ELSE 40) /\ OuterHdr(s, p) \in Nat
  BY <1>1, <1>3 DEF OuterHdr, OuterFam, InnerHdr, IpHdr, SaFam, PktOK
<1>6. /\ IsTransport(s) => OuterHdr(s, p) = InnerHdr(s, p)
      /\ ~IsTransport(s) => InnerHdr(s, p) = 0 /\ OuterHdr(s, p) = IpHdr(e.v)
  BY <1>3 DEF OuterHdr, InnerHdr, OuterFam
<1>7. e.len = PadPayload(s, p) + OuterHdr(s, p) + s.digest + EspHdr + s.iv
  BY <1>1, <1>2, <1>3, <1>5, <1>6 DEF EspHdr
<1> HIDE DEF e
<1>8. ~TooBig(s, p) => e.len <= IP_MAXPACKET
  BY <1>1, <1>2, <1>5, <1>7 DEF TooBig, EspHdr, IP_MAXPACKET
<1>9. PayloadLen(s, e) = PadPayload(s, p)
  BY <1>1, <1>2, <1>5, <1>7 DEF PayloadLen, EspHdr
<1>10. InAccepts(s, e)
  BY <1>1, <1>9 DEF InAccepts
<1>11. Filled(s, p) => PostAccepts(s, e)
  BY <1>1, <1>2, <1>3, <1>4, <1>5, <1>6, <1>7 DEF PostAccepts, EspHdr
<1>12. EspIn(s, e) = [v |-> p.v, len |-> p.len, nlp |-> p.nlp]
  <2>1. e.len - (e.pad + 2 + s.digest) - EspHdr - s.iv
          - (IF IsTransport(s) THEN 0 ELSE IpHdr(e.v)) = p.len
    BY <1>1, <1>2, <1>4, <1>5, <1>6, <1>7 DEF EspHdr
  <2>2. (IF IsTransport(s) THEN e.v ELSE e.inner) = p.v
    BY <1>3 DEF OuterFam
  <2>3. (IF IsTransport(s) THEN e.next ELSE e.data) = p.nlp
    BY <1>3
  <2> QED
    BY <2>1, <2>2, <2>3 DEF EspIn
<1> QED
  BY <1>8, <1>10, <1>11, <1>12 DEF e
-----------------------------------------------------------------------------
Labels == {"rx", "spd", "xform", "route", "drain"} \cup Inside

EspRecs == {NoEsp} \cup {EspOut(SaRec[s], w) : s \in Sas, w \in env.wire}

PktRec ==
  [w : env.wire, sa : Sas \cup {NoSa}, esp : EspRecs, seq : 0 .. SEQ_MOD - 1,
   iv : Nat, icb : Nat, off : BOOLEAN]

OutShape ==
  /\ env \in Envs
  /\ pc \in [Lcores -> Labels]
  /\ pkt \in Seq(PktRec) /\ Len(pkt) <= env.max
  /\ ip \in [Lcores -> [Fam -> Seq(Ids)]]
  /\ ipsec \in [Lcores -> Seq(Ids \X (Sas \cup {NoSa}))]
  /\ ol \in [Lcores -> Seq(Ids)]
  /\ crypto \in [Lcores -> SUBSET Ids]
  /\ seq \in [Sas -> Nat] /\ tmp \in [Lcores -> Nat]
  /\ sent \subseteq Ids \X Fam
  /\ overlap \subseteq Sas

(* Where the lists are empty, and the mode the labels belong to. *)
Control(l) ==
  /\ pc[l] \in {"rx", "drain"} => ip[l] = NoPkts /\ ipsec[l] = <<>> /\ ol[l] = <<>>
  /\ pc[l] = "spd" => ol[l] = <<>>
  /\ pc[l] = "route" => ipsec[l] = <<>> /\ ol[l] = <<>>
  /\ pc[l] \in Inside => ipsec[l] # <<>>
  /\ pc[l] = "lib" => env.lib # "off" /\ tmp[l] + 1 < SEQ_MOD
  /\ pc[l] \in {"inc", "hdr", "iv", "icb"} => env.lib = "off"

Apart(A, B) == \A i \in A : i \notin B
Firsts(s)   == {s[n][1] : n \in DOMAIN s}

(* Where lcore l has packets. *)
Listed(l) == Ran(ip[l]["v4"]) \cup Ran(ip[l]["v6"])
Mine(l)   == Listed(l) \cup Firsts(ipsec[l]) \cup Ran(ol[l]) \cup crypto[l]

(* It has none twice. *)
OncePlaced(l) ==
  /\ \A m, n \in DOMAIN ipsec[l] : ipsec[l][m][1] = ipsec[l][n][1] => m = n
  /\ Apart(Ran(ip[l]["v4"]), Ran(ip[l]["v6"]))
  /\ Apart(Listed(l), Firsts(ipsec[l]))
  /\ Apart(Listed(l) \cup Firsts(ipsec[l]), Ran(ol[l]))
  /\ Apart(Listed(l) \cup Firsts(ipsec[l]) \cup Ran(ol[l]), crypto[l])

Places ==
  /\ \A l \in Lcores : OncePlaced(l) /\ Mine(l) \subseteq DOMAIN pkt
  /\ \A l, m \in Lcores : l # m => Apart(Mine(l), Mine(m))
  /\ \A x \in sent : x[1] \in DOMAIN pkt /\ \A l \in Lcores : x[1] \notin Mine(l)
  /\ \A x, y \in sent : x[1] = y[1] => x = y

(* What is known of a packet p by the place it is in, in configuration e.  *)
DueIn(e, w) ==
  IF e.single # NoSa THEN e.single
  ELSE IF w.v \in e.sp /\ w.rule \in Sas THEN w.rule ELSE NoSa

MixedIn(e, s, w) ==
  /\ s # NoSa
  /\ IsTransport(SaRec[s]) \/ SaRec[s].act = "inl_proto"
  /\ e.single # NoSa \/ w.v # SaFam(SaRec[s])

Ver(p) ==
  IF p.esp # NoEsp THEN p.esp.v
  ELSE IF p.sa # NoSa /\ SaRec[p.sa].act = "la_proto" THEN OuterFam(SaRec[p.sa], p.w)
       ELSE p.w.v

Fresh(p)     == p.w.kind = "clear" /\ p.sa = NoSa /\ p.esp = NoEsp /\ p.off = FALSE
Tagged(e, p) == p.w.kind = "clear" /\ p.sa = DueIn(e, p.w) /\ p.sa \in Sas
EspMade(p)   == p.esp = EspOut(SaRec[p.sa], p.w)

InXform(e, p) ==
  Tagged(e, p) /\ EspMade(p) /\ SaRec[p.sa].act \in {"none", "inl_crypto"} /\ p.off = FALSE

Inlining(e, p) ==
  /\ Tagged(e, p) /\ e.lib = "off"
  /\ \/ SaRec[p.sa].act = "inl_proto" /\ p.esp = NoEsp
     \/ SaRec[p.sa].act = "inl_crypto" /\ EspMade(p)

Encrypting(e, p) ==
  /\ Tagged(e, p) /\ p.off = FALSE
  /\ \/ e.lib = "off" /\ SaRec[p.sa].act = "la_proto" /\ p.esp = NoEsp
     \/ SaRec[p.sa].act = "none" /\ EspMade(p)
     \/ e.lib # "off" /\ SaRec[p.sa].act = "la_proto" /\ EspMade(p)

(* What OutPolicy says of p in the list of family v. *)
Ready(e, p, v) ==
  LET d == DueIn(e, p.w) IN
  /\ p.w.kind # "esp"
  /\ p.sa = d
  /\ d = NoSa /\ p.w.v \in e.sp => p.w.rule = BYPASS
  /\ (d # NoSa /\ SaRec[d].act # "la_proto" /\ SaRec[d].act # "inl_proto") =>
       p.esp # NoEsp /\ ((SaRec[d].act = "inl_crypto") <=> p.off)
  /\ MixedIn(e, d, p.w) \/ v = Ver(p)

(* Entry n of ipsec; the first one may be inside esp_outbound.             *)
ToXform(e, p, s, inside) ==
  /\ s = DueIn(e, p.w) /\ s \in Sas
  /\ IF inside THEN InXform(e, p) ELSE Fresh(p)

InEsp(label) == label \in {"inc", "hdr", "iv", "icb"}

Facts(l) ==
  /\ \A v \in Fam : \A i \in Ran(ip[l][v]) :
       IF pc[l] = "spd" THEN Fresh(pkt[i]) /\ pkt[i].w.v = v ELSE Ready(env, pkt[i], v)
  /\ pc[l] # "spd" =>
       \A n \in DOMAIN ipsec[l] :
         ToXform(env, pkt[ipsec[l][n][1]], ipsec[l][n][2], n = 1 /\ InEsp(pc[l]))
  /\ pc[l] = "icb" => SaRec[Sa(l)].act = "none"
  /\ \A i \in Ran(ol[l]) : Inlining(env, pkt[i])
  /\ \A i \in crypto[l] : Encrypting(env, pkt[i])

(* An ESP packet is what esp_outbound makes of a packet it accepts. *)
Built(e, p) ==
  p.esp # NoEsp => /\ p.sa \in Sas /\ EspMade(p)
                   /\ e.lib = "off" => ~TooBig(SaRec[p.sa], p.w)

OutInv ==
  /\ OutShape /\ Places
  /\ \A l \in Lcores : Control(l) /\ Facts(l)
  /\ \A x \in sent : Ready(env, pkt[x[1]], x[2])
  /\ \A i \in DOMAIN pkt : Built(env, pkt[i])

(* A step of lcore l disturbs no other. *)
Only(l) ==
  /\ env' = env
  /\ \A m \in Lcores \ {l} :
       /\ pc'[m] = pc[m] /\ ip'[m] = ip[m] /\ ipsec'[m] = ipsec[m] /\ ol'[m] = ol[m]
       /\ crypto'[m] = crypto[m] /\ tmp'[m] = tmp[m]

(* A step of lcore l moves packets it has, or new ones. *)
Moves(l) ==
  /\ Only(l)
  /\ Len(pkt) <= Len(pkt')
  /\ \A i \in DOMAIN pkt : i \notin Mine(l) => pkt'[i] = pkt[i]
  /\ \A i \in DOMAIN pkt' : Built(env, pkt'[i])
  /\ Mine(l)' \subseteq Mine(l) \cup (DOMAIN pkt' \ DOMAIN pkt)
  /\ OncePlaced(l)' /\ Control(l)' /\ Facts(l)'
  /\ sent \subseteq sent'
  /\ \A x \in sent' : x \notin sent =>
       x[1] \in Mine(l) /\ x[1] \notin Mine(l)' /\ Ready(env, pkt'[x[1]], x[2])
  /\ \A x, y \in sent' : x \notin sent /\ y \notin sent /\ x[1] = y[1] => x = y
-----------------------------------------------------------------------------
(* What the shape of the state says of its parts. *)
LEMMA OutFacts ==
  ASSUME OutShape
  PROVE  /\ EnvOK(env) /\ env.lcores \subseteq Lcores
         /\ DOMAIN pkt = 1 .. Len(pkt) /\ Len(pkt) \in Nat
         /\ env.max \in Nat /\ env.max <= MaxPkts /\ MaxPkts \in Nat
         /\ DOMAIN pkt \subseteq Ids
         /\ \A i \in DOMAIN pkt : pkt[i] \in PktRec /\ PktOK(pkt[i].w)
         /\ NoSa \notin Sas /\ BYPASS \notin Sas /\ DISCARD \notin Sas
         /\ \A s \in Sas : SaOK(SaRec[s])
         /\ SEQ_MOD \in Nat \ {0}
<1>1. EnvOK(env) /\ MaxPkts \in Nat /\ SEQ_MOD \in Nat \ {0}
  BY OutAssumption DEF OutShape
<1>2. env.lcores \subseteq Lcores /\ env.max \in 0 .. MaxPkts
  BY <1>1 DEF EnvOK
<1>3. pkt \in Seq(PktRec) /\ Len(pkt) <= env.max
  BY DEF OutShape
<1>4. DOMAIN pkt = 1 .. Len(pkt) /\ Len(pkt) \in Nat
  BY <1>3
<1>5. \A i \in DOMAIN pkt : pkt[i] \in PktRec
  BY <1>3, <1>4
<1>6. \A i \in DOMAIN pkt : PktOK(pkt[i].w)
  BY <1>1, <1>5 DEF PktRec, EnvOK
<1>7. DOMAIN pkt \subseteq Ids
  BY <1>1, <1>2, <1>3, <1>4 DEF Ids
<1> QED
  BY <1>1, <1>2, <1>4, <1>5, <1>6, <1>7, OutAssumption

(* Other lcores see nothing of it. *)
LEMMA OthersKeep ==
  ASSUME OutInv, NEW l \in Lcores, Moves(l), NEW m \in Lcores, m # l
  PROVE  /\ Mine(m)' = Mine(m) /\ OncePlaced(m)' /\ Control(m)' /\ Facts(m)'
         /\ \A i \in Mine(m) : pkt'[i] = pkt[i]
<1>1. /\ env' = env /\ pc'[m] = pc[m] /\ ip'[m] = ip[m] /\ ipsec'[m] = ipsec[m]
      /\ ol'[m] = ol[m] /\ crypto'[m] = crypto[m] /\ tmp'[m] = tmp[m]
  BY DEF Moves, Only
<1>2. Listed(m)' = Listed(m) /\ Mine(m)' = Mine(m)
  BY <1>1 DEF Listed, Mine, Firsts
<1>3. OncePlaced(m)
  BY DEF OutInv, Places
<1>4. OncePlaced(m)'
  BY <1>1, <1>2, <1>3 DEF OncePlaced, Firsts
<1>5. Control(m)'
  BY <1>1 DEF OutInv, Control
<1>6. \A i \in Mine(m) : pkt'[i] = pkt[i]
  BY DEF OutInv, Places, Moves, Apart
<1>7. Facts(m)'
  <2>1. Facts(m)
    BY DEF OutInv
  <2>2. \A v \in Fam : \A i \in Ran(ip'[m][v]) :
          IF pc'[m] = "spd" THEN Fresh(pkt'[i]) /\ pkt'[i].w.v = v ELSE Ready(env', pkt'[i], v)
    <3> SUFFICES ASSUME NEW v \in Fam, NEW i \in Ran(ip[m][v])
                 PROVE  IF pc[m] = "spd" THEN Fresh(pkt'[i]) /\ pkt'[i].w.v = v
                                         ELSE Ready(env, pkt'[i], v)
      BY <1>1
    <3>1. pkt'[i] = pkt[i]
      BY <1>6 DEF Mine, Listed, Fam
    <3> QED
      BY <2>1, <3>1 DEF Facts
  <2>3. pc'[m] # "spd" =>
          \A n \in DOMAIN ipsec'[m] :
            ToXform(env', pkt'[ipsec'[m][n][1]], ipsec'[m][n][2], n = 1 /\ InEsp(pc'[m]))
    <3>1. \A n \in DOMAIN ipsec[m] : pkt'[ipsec[m][n][1]] = pkt[ipsec[m][n][1]]
      BY <1>6 DEF Mine, Firsts
    <3> QED
      BY <1>1, <2>1, <3>1 DEF Facts
  <2>4. pc'[m] = "icb" => SaRec[Sa(m)'].act = "none"
    BY <1>1, <2>1 DEF Facts, Sa
  <2>5. \A i \in Ran(ol'[m]) : Inlining(env', pkt'[i])
    BY <1>1, <1>6, <2>1 DEF Facts, Mine
  <2>6. \A i \in crypto'[m] : Encrypting(env', pkt'[i])
    BY <1>1, <1>6, <2>1 DEF Facts, Mine
  <2> QED
    BY <2>2, <2>3, <2>4, <2>5, <2>6 DEF Facts
<1> QED
  BY <1>2, <1>4, <1>5, <1>6, <1>7

(* A step that moves packets as Moves says keeps the invariant. *)
LEMMA MovesKeepInv ==
  ASSUME OutInv, NEW l \in Lcores, Moves(l), OutShape'
  PROVE  OutInv'
<1>1. /\ DOMAIN pkt = 1 .. Len(pkt) /\ DOMAIN pkt' = 1 .. Len(pkt')
      /\ Len(pkt) \in Nat /\ Len(pkt') \in Nat /\ Len(pkt) <= Len(pkt') /\ env' = env
  BY DEF OutInv, OutShape, Moves, Only
<1>2. DOMAIN pkt \subseteq DOMAIN pkt'
  BY <1>1
<1>3. \A m \in Lcores : m # l =>
        /\ Mine(m)' = Mine(m) /\ OncePlaced(m)' /\ Control(m)' /\ Facts(m)'
        /\ \A i \in Mine(m) : pkt'[i] = pkt[i]
  BY OthersKeep
<1>4. /\ Mine(l)' \subseteq Mine(l) \cup (DOMAIN pkt' \ DOMAIN pkt)
      /\ OncePlaced(l)' /\ Control(l)' /\ Facts(l)'
  BY DEF Moves
<1>5. /\ \A m \in Lcores : OncePlaced(m) /\ Mine(m) \subseteq DOMAIN pkt
      /\ \A a, b \in Lcores : a # b => Apart(Mine(a), Mine(b))
      /\ \A x \in sent : x[1] \in DOMAIN pkt /\ \A m \in Lcores : x[1] \notin Mine(m)
      /\ \A x, y \in sent : x[1] = y[1] => x = y
  BY DEF OutInv, Places
<1>6. \A m \in Lcores : OncePlaced(m)' /\ Control(m)' /\ Facts(m)'
  <2> SUFFICES ASSUME NEW m \in Lcores PROVE OncePlaced(m)' /\ Control(m)' /\ Facts(m)'
    OBVIOUS
  <2>1. CASE m = l
    BY <1>4, <2>1
  <2>2. CASE m # l
    BY <1>3, <2>2
  <2> QED
    BY <2>1, <2>2
<1>7. \A m \in Lcores : Mine(m)' \subseteq DOMAIN pkt'
  <2> SUFFICES ASSUME NEW m \in Lcores PROVE Mine(m)' \subseteq DOMAIN pkt'
    OBVIOUS
  <2>1. CASE m = l
    BY <1>2, <1>4, <1>5, <2>1
  <2>2. CASE m # l
    BY <1>2, <1>3, <1>5, <2>2
  <2> QED
    BY <2>1, <2>2
<1>8. \A a, b \in Lcores : a # b => Apart(Mine(a)', Mine(b)')
  <2> SUFFICES ASSUME NEW a \in Lcores, NEW b \in Lcores, a # b, NEW i \in Mine(a)', i \in Mine(b)'
               PROVE  FALSE
    BY DEF Apart
  <2>1. CASE a # l /\ b # l
    BY <1>3, <1>5, <2>1 DEF Apart
  <2>2. CASE a = l
    BY <1>3, <1>4, <1>5, <2>2 DEF Apart
  <2>3. CASE b = l
    BY <1>3, <1>4, <1>5, <2>3 DEF Apart
  <2> QED
    BY <2>1, <2>2, <2>3
<1>9. \A x \in sent' : x \notin sent =>
        x[1] \in Mine(l) /\ x[1] \notin Mine(l)' /\ Ready(env, pkt'[x[1]], x[2])
  BY DEF Moves
<1>10. \A x \in sent' : x[1] \in DOMAIN pkt' /\ \A m \in Lcores : x[1] \notin Mine(m)'
  <2> SUFFICES ASSUME NEW x \in sent'
               PROVE  x[1] \in DOMAIN pkt' /\ \A m \in Lcores : x[1] \notin Mine(m)'
    OBVIOUS
  <2>1. x[1] \in DOMAIN pkt
    BY <1>5, <1>9
  <2>2. ASSUME NEW m \in Lcores PROVE x[1] \notin Mine(m)'
    <3>1. CASE m = l
      BY <1>4, <1>5, <1>9, <2>1, <3>1
    <3>2. CASE m # l
      BY <1>3, <1>5, <1>9, <3>2 DEF Apart
    <3> QED
      BY <3>1, <3>2
  <2> QED
    BY <1>2, <2>1, <2>2
<1>11. \A x, y \in sent' : x[1] = y[1] => x = y
  <2> SUFFICES ASSUME NEW x \in sent', NEW y \in sent', x[1] = y[1] PROVE x = y
    OBVIOUS
  <2>1. CASE x \in sent /\ y \in sent
    BY <1>5, <2>1
  <2>2. CASE x \notin sent /\ y \notin sent
    BY <2>2 DEF Moves
  <2>3. CASE x \in sent /\ y \notin sent
    BY <1>5, <1>9, <2>3
  <2>4. CASE x \notin sent /\ y \in sent
    BY <1>5, <1>9, <2>4
  <2> QED
    BY <2>1, <2>2, <2>3, <2>4
<1>12. \A x \in sent' : Ready(env', pkt'[x[1]], x[2])
  <2> SUFFICES ASSUME NEW x \in sent' PROVE Ready(env, pkt'[x[1]], x[2])
    BY <1>1
  <2>1. CASE x \in sent
    <3>1. x[1] \in DOMAIN pkt /\ x[1] \notin Mine(l)
      BY <1>5, <2>1
    <3>2. pkt'[x[1]] = pkt[x[1]]
      BY <3>1 DEF Moves
    <3> QED
      BY <2>1, <3>2 DEF OutInv
  <2> QED
    BY <1>9, <2>1
<1>13. \A i \in DOMAIN pkt' : Built(env', pkt'[i])
  BY <1>1 DEF Moves
<1>14. Places'
  BY <1>6, <1>7, <1>8, <1>10, <1>11 DEF Places
<1> QED
  BY <1>6, <1>12, <1>13, <1>14 DEF OutInv
-----------------------------------------------------------------------------
(* Lists of packets and the sets of their members. *)
LEMMA RanEmpty == Ran(<<>>) = {} /\ Firsts(<<>>) = {}
  BY DEF Ran, Firsts

(* A packet is appended to a list. *)
LEMMA RanAppend ==
  ASSUME NEW S, NEW s \in Seq(S), NEW x \in S
  PROVE  Append(s, x) \in Seq(S) /\ Ran(Append(s, x)) = Ran(s) \cup {x}
<1>1. /\ DOMAIN Append(s, x) = 1 .. Len(s) + 1 /\ DOMAIN s = 1 .. Len(s) /\ Len(s) \in Nat
      /\ \A k \in 1 .. Len(s) : Append(s, x)[k] = s[k]
      /\ Append(s, x)[Len(s) + 1] = x
  OBVIOUS
<1>2. 1 .. Len(s) + 1 = (1 .. Len(s)) \cup {Len(s) + 1}
  BY <1>1
<1> QED
  BY <1>1, <1>2 DEF Ran

(* One list is appended to another. *)
LEMMA ConcatFacts ==
  ASSUME NEW S, NEW s \in Seq(S), NEW t \in Seq(S)
  PROVE  /\ s \o t \in Seq(S) /\ Len(s \o t) = Len(s) + Len(t)
         /\ \A k \in 1 .. Len(s) : (s \o t)[k] = s[k]
         /\ \A k \in 1 .. Len(s) + Len(t) : k > Len(s) => (s \o t)[k] = t[k - Len(s)]
  OBVIOUS

(* The members of both lists, and no other, are in the longer one. *)
LEMMA RanConcat ==
  ASSUME NEW S, NEW s \in Seq(S), NEW t \in Seq(S)
  PROVE  s \o t \in Seq(S) /\ Ran(s \o t) = Ran(s) \cup Ran(t)
<1>1. /\ DOMAIN (s \o t) = 1 .. Len(s) + Len(t)
      /\ DOMAIN s = 1 .. Len(s) /\ DOMAIN t = 1 .. Len(t) /\ Len(s) \in Nat /\ Len(t) \in Nat
      /\ \A k \in 1 .. Len(s) : (s \o t)[k] = s[k]
      /\ \A k \in 1 .. Len(s) + Len(t) : k > Len(s) => (s \o t)[k] = t[k - Len(s)]
      /\ s \o t \in Seq(S)
  OBVIOUS
<1>2. \A k \in DOMAIN (s \o t) :
        IF k \in 1 .. Len(s) THEN (s \o t)[k] \in Ran(s)
        ELSE k - Len(s) \in DOMAIN t /\ (s \o t)[k] = t[k - Len(s)]
  BY <1>1 DEF Ran
<1>3. Ran(s \o t) \subseteq Ran(s) \cup Ran(t)
  BY <1>1, <1>2 DEF Ran
<1>4. Ran(s) \subseteq Ran(s \o t)
  BY <1>1 DEF Ran
<1>5. ASSUME NEW x \in Ran(t)
      PROVE  x \in Ran(s \o t)
  <2>1. PICK k \in 1 .. Len(t) : t[k] = x
    BY <1>1 DEF Ran
  <2>2. /\ k + Len(s) \in DOMAIN (s \o t) /\ k + Len(s) > Len(s)
        /\ k + Len(s) \in 1 .. Len(s) + Len(t) /\ (k + Len(s)) - Len(s) = k
    BY <1>1
  <2>3. (s \o t)[k + Len(s)] = x
    BY <1>1, <2>1, <2>2
  <2> QED
    BY <2>2, <2>3 DEF Ran
<1> QED
  BY <1>1, <1>3, <1>4, <1>5

(* Compaction keeps the members of S, each once. *)
LEMMA KeptFacts ==
  ASSUME NEW T, IsFiniteSet(T), NEW t, Ran(t) \subseteq T, NEW S, NEW s \in Kept(t, S)
  PROVE  s \in Seq(T) /\ Ran(s) = Ran(t) \cap S /\ Once(s)
<1>1. IsFiniteSet(Ran(t) \cap S)
  BY FS_Subset
<1>2. Cardinality(Ran(t) \cap S) \in Nat
  BY <1>1, FS_CardinalityType
<1>3. /\ s \in [1 .. Cardinality(Ran(t) \cap S) -> Ran(t) \cap S]
      /\ Ran(s) = Ran(t) \cap S /\ Once(s)
  BY DEF Kept, Orders
<1>4. s \in [1 .. Cardinality(Ran(t) \cap S) -> T]
  BY <1>3
<1> DEFINE n == Cardinality(Ran(t) \cap S)
<1>5. n \in Nat /\ s \in [1 .. n -> T]
  BY <1>2, <1>4
<1> HIDE DEF n
<1>6. s \in Seq(T)
  BY <1>5
<1> QED
  BY <1>3, <1>6

(* There are finitely many packets. *)
LEMMA IdsFinite == IsFiniteSet(Ids)
  BY OutAssumption, FS_Interval DEF Ids

(* The entries of ipsec: packets and their SAs. *)
LEMMA PairUp ==
  ASSUME NEW s \in Seq(Ids), Once(s), NEW q \in [DOMAIN s -> Ids \X (Sas \cup {NoSa})],
         \A n \in DOMAIN s : q[n][1] = s[n]
  PROVE  /\ q \in Seq(Ids \X (Sas \cup {NoSa})) /\ Firsts(q) = Ran(s)
         /\ \A m, n \in DOMAIN q : q[m][1] = q[n][1] => m = n
<1>1. DOMAIN s = 1 .. Len(s) /\ Len(s) \in Nat
  OBVIOUS
<1>2. q \in [1 .. Len(s) -> Ids \X (Sas \cup {NoSa})]
  BY <1>1
<1>3. q \in Seq(Ids \X (Sas \cup {NoSa}))
  BY <1>1, <1>2
<1>4. Firsts(q) = Ran(s)
  BY DEF Firsts, Ran
<1>5. \A m, n \in DOMAIN q : q[m][1] = q[n][1] => m = n
  BY DEF Once
<1> QED
  BY <1>3, <1>4, <1>5

(* The first entry is taken off. *)
LEMMA PopFacts ==
  ASSUME NEW S, NEW T, NEW q \in Seq(S \X T), q # <<>>,
         \A m, n \in DOMAIN q : q[m][1] = q[n][1] => m = n
  PROVE  /\ Tail(q) \in Seq(S \X T)
         /\ 1 \in DOMAIN q /\ q[1][1] \in S /\ q[1][2] \in T
         /\ Firsts(q) = Firsts(Tail(q)) \cup {q[1][1]} /\ q[1][1] \notin Firsts(Tail(q))
         /\ \A m, n \in DOMAIN Tail(q) : Tail(q)[m][1] = Tail(q)[n][1] => m = n
         /\ \A n \in DOMAIN Tail(q) :
              n + 1 \in DOMAIN q /\ n + 1 # 1 /\ Tail(q)[n] = q[n + 1]
<1>1. /\ DOMAIN q = 1 .. Len(q) /\ Len(q) \in Nat /\ Len(q) >= 1
      /\ DOMAIN Tail(q) = 1 .. Len(q) - 1 /\ Tail(q) \in Seq(S \X T)
      /\ \A n \in DOMAIN q : q[n] \in S \X T
      /\ \A n \in 1 .. Len(q) - 1 : Tail(q)[n] = q[n + 1]
  OBVIOUS
<1>2. \A n \in DOMAIN Tail(q) : n + 1 \in DOMAIN q /\ n + 1 # 1 /\ Tail(q)[n] = q[n + 1]
  BY <1>1
<1>3. 1 \in DOMAIN q /\ q[1][1] \in S /\ q[1][2] \in T
  BY <1>1
<1>4. \A m, n \in DOMAIN Tail(q) : Tail(q)[m][1] = Tail(q)[n][1] => m = n
  <2> SUFFICES ASSUME NEW m \in DOMAIN Tail(q), NEW n \in DOMAIN Tail(q),
                      Tail(q)[m][1] = Tail(q)[n][1]
               PROVE  m = n
    OBVIOUS
  <2>1. q[m + 1][1] = q[n + 1][1]
    BY <1>2
  <2>2. m + 1 = n + 1
    BY <1>2, <2>1
  <2> QED
    BY <1>1, <2>2
<1>5. q[1][1] \notin Firsts(Tail(q))
  <2> SUFFICES ASSUME NEW n \in DOMAIN Tail(q), Tail(q)[n][1] = q[1][1] PROVE FALSE
    BY DEF Firsts
  <2>1. q[n + 1][1] = q[1][1] /\ n + 1 # 1 /\ n + 1 \in DOMAIN q
    BY <1>2
  <2> QED
    BY <1>3, <2>1
<1>6. Firsts(Tail(q)) \subseteq Firsts(q)
  BY <1>2 DEF Firsts
<1>7. \A n \in DOMAIN q : n # 1 => n - 1 \in DOMAIN Tail(q) /\ Tail(q)[n - 1] = q[n]
  <2> SUFFICES ASSUME NEW n \in DOMAIN q, n # 1
               PROVE  n - 1 \in DOMAIN Tail(q) /\ Tail(q)[n - 1] = q[n]
    OBVIOUS
  <2>1. n - 1 \in 1 .. Len(q) - 1 /\ (n - 1) + 1 = n
    BY <1>1
  <2>2. Tail(q)[n - 1] = q[(n - 1) + 1]
    BY <1>1, <2>1
  <2> QED
    BY <1>1, <2>1, <2>2
<1>8. Firsts(q) = Firsts(Tail(q)) \cup {q[1][1]}
  <2>1. \A n \in DOMAIN q : q[n][1] \in Firsts(Tail(q)) \cup {q[1][1]}
    BY <1>7 DEF Firsts
  <2>2. q[1][1] \in Firsts(q)
    BY <1>3 DEF Firsts
  <2> QED
    BY <1>6, <2>1, <2>2 DEF Firsts
<1> QED
  BY <1>1, <1>2, <1>3, <1>4, <1>5, <1>8

(* ipsec_inline_dequeue reverses a list and loses nothing. *)
LEMMA ReverseFacts ==
  ASSUME NEW S, NEW s \in Seq(S), NEW r, r = [k \in DOMAIN s |-> s[Len(s) + 1 - k]]
  PROVE  r \in Seq(S) /\ Ran(r) = Ran(s) /\ (s # <<>> => r[1] \in Ran(s))
<1>1. DOMAIN s = 1 .. Len(s) /\ Len(s) \in Nat
  OBVIOUS
<1>2. \A k \in DOMAIN s : Len(s) + 1 - k \in DOMAIN s /\ Len(s) + 1 - (Len(s) + 1 - k) = k
  BY <1>1
<1>3. r \in [1 .. Len(s) -> S]
  BY <1>1, <1>2
<1>4. r \in Seq(S)
  BY <1>1, <1>3
<1>5. Ran(r) \subseteq Ran(s)
  BY <1>2 DEF Ran
<1>6. \A k \in DOMAIN s : s[k] = r[Len(s) + 1 - k]
  BY <1>2
<1>7. Ran(s) \subseteq Ran(r)
  <2>1. DOMAIN r = DOMAIN s
    OBVIOUS
  <2> SUFFICES ASSUME NEW k \in DOMAIN s PROVE s[k] \in Ran(r)
    BY DEF Ran
  <2>2. Len(s) + 1 - k \in DOMAIN r /\ s[k] = r[Len(s) + 1 - k]
    BY <1>2, <1>6, <2>1
  <2> QED
    BY <2>2 DEF Ran
<1>8. s # <<>> => 1 \in DOMAIN s
  BY <1>1
<1> QED
  BY <1>2, <1>4, <1>5, <1>7, <1>8 DEF Ran
-----------------------------------------------------------------------------
(* The packet a lcore works on. *)
LEMMA CurFacts ==
  ASSUME OutInv, NEW l \in Lcores, ipsec[l] # <<>>, pc[l] # "spd"
  PROVE  /\ Cur(l) \in DOMAIN pkt /\ Cur(l) \in Ids /\ pkt[Cur(l)] \in PktRec
         /\ PktOK(pkt[Cur(l)].w) /\ SaOK(SaRec[Sa(l)])
         /\ Sa(l) \in Sas /\ Sa(l) = DueIn(env, pkt[Cur(l)].w)
         /\ IF InEsp(pc[l]) THEN InXform(env, pkt[Cur(l)]) ELSE Fresh(pkt[Cur(l)])
         /\ Cur(l) \in Mine(l) /\ Cur(l) \in Firsts(ipsec[l])
         /\ Cur(l) \notin Listed(l) /\ Cur(l) \notin Ran(ol[l]) /\ Cur(l) \notin crypto[l]
         /\ Tail(ipsec[l]) \in Seq(Ids \X (Sas \cup {NoSa}))
         /\ Firsts(ipsec[l]) = Firsts(Tail(ipsec[l])) \cup {Cur(l)}
         /\ Cur(l) \notin Firsts(Tail(ipsec[l]))
         /\ \A m, n \in DOMAIN Tail(ipsec[l]) :
              Tail(ipsec[l])[m][1] = Tail(ipsec[l])[n][1] => m = n
         /\ \A n \in DOMAIN Tail(ipsec[l]) :
              ToXform(env, pkt[Tail(ipsec[l])[n][1]], Tail(ipsec[l])[n][2], FALSE)
<1> DEFINE q == ipsec[l]
<1>1. q \in Seq(Ids \X (Sas \cup {NoSa})) /\ OncePlaced(l) /\ Facts(l) /\ Mine(l) \subseteq DOMAIN pkt
  BY DEF OutInv, OutShape, Places
<1>2. q # <<>> /\ \A m, n \in DOMAIN q : q[m][1] = q[n][1] => m = n
  BY <1>1 DEF OncePlaced
<1> HIDE DEF q
<1>3. /\ Tail(q) \in Seq(Ids \X (Sas \cup {NoSa}))
      /\ 1 \in DOMAIN q /\ q[1][1] \in Ids /\ q[1][2] \in Sas \cup {NoSa}
      /\ Firsts(q) = Firsts(Tail(q)) \cup {q[1][1]} /\ q[1][1] \notin Firsts(Tail(q))
      /\ \A m, n \in DOMAIN Tail(q) : Tail(q)[m][1] = Tail(q)[n][1] => m = n
      /\ \A n \in DOMAIN Tail(q) : n + 1 \in DOMAIN q /\ n + 1 # 1 /\ Tail(q)[n] = q[n + 1]
  BY <1>1, <1>2, PopFacts, ZenonT(30)
<1>4. Cur(l) = q[1][1] /\ Sa(l) = q[1][2]
  BY DEF Cur, Sa, q
<1>5. \A n \in DOMAIN q : ToXform(env, pkt[q[n][1]], q[n][2], n = 1 /\ InEsp(pc[l]))
  BY <1>1 DEF Facts, q
<1>6. Cur(l) \in Firsts(q) /\ Firsts(q) \subseteq Mine(l)
  BY <1>3, <1>4 DEF Mine, q
<1>7. Cur(l) \notin Listed(l) /\ Cur(l) \notin Ran(ol[l]) /\ Cur(l) \notin crypto[l]
  BY <1>1, <1>6 DEF OncePlaced, Apart, q
<1>8. Cur(l) \in DOMAIN pkt /\ pkt[Cur(l)] \in PktRec /\ PktOK(pkt[Cur(l)].w)
  BY <1>1, <1>6, OutFacts DEF OutInv
<1>9. ToXform(env, pkt[Cur(l)], Sa(l), InEsp(pc[l]))
  BY <1>3, <1>4, <1>5 DEF ToXform
<1>10. \A n \in DOMAIN Tail(q) : ToXform(env, pkt[Tail(q)[n][1]], Tail(q)[n][2], FALSE)
  BY <1>3, <1>5 DEF ToXform
<1>11. Sa(l) \in Sas /\ SaOK(SaRec[Sa(l)])
  BY <1>9, OutAssumption DEF ToXform
<1> QED
  BY <1>3, <1>4, <1>6, <1>7, <1>8, <1>9, <1>10, <1>11, ZenonT(30) DEF ToXform, q

(* One packet is rewritten. *)
LEMMA SetPkt ==
  ASSUME OutShape, NEW c \in DOMAIN pkt, NEW r \in PktRec, pkt' = [pkt EXCEPT ![c] = r], env' = env
  PROVE  /\ pkt' \in Seq(PktRec) /\ (pkt \in Seq(PktRec))' /\ Len(pkt') = Len(pkt)
         /\ DOMAIN pkt' = DOMAIN pkt
         /\ pkt'[c] = r /\ \A i \in DOMAIN pkt : i # c => pkt'[i] = pkt[i]
<1>1. pkt \in Seq(PktRec)
  BY DEF OutShape
<1>2. PktRec' = PktRec
  BY DEF PktRec, EspRecs
<1>3. /\ pkt' \in Seq(PktRec) /\ Len(pkt') = Len(pkt) /\ DOMAIN pkt' = DOMAIN pkt
      /\ pkt'[c] = r /\ \A i \in DOMAIN pkt : i # c => pkt'[i] = pkt[i]
  BY <1>1
<1> QED
  BY <1>2, <1>3

(* The packet leaves ipsec: it is freed or joins another list. *)
LEMMA HeadLeaves ==
  ASSUME OutInv, NEW l \in Lcores, ipsec[l] # <<>>, pc[l] \in {"xform"} \cup Inside, Only(l),
         ipsec'[l] = Tail(ipsec[l]), pc'[l] = "xform", sent' = sent,
         NEW r \in PktRec, pkt' = [pkt EXCEPT ![Cur(l)] = r], Built(env, r),
         NEW place \in {"free", "v4", "v6", "ol", "crypto"},
         \A v \in Fam : Ran(ip'[l][v]) = Ran(ip[l][v]) \cup {i \in {Cur(l)} : place = v},
         Ran(ol'[l]) = Ran(ol[l]) \cup {i \in {Cur(l)} : place = "ol"},
         crypto'[l] = crypto[l] \cup {i \in {Cur(l)} : place = "crypto"},
         place \in Fam => Ready(env, r, place),
         place = "ol" => Inlining(env, r),
         place = "crypto" => Encrypting(env, r)
  PROVE  Moves(l)
<1> DEFINE c == Cur(l)
           t == Tail(ipsec[l])
<1>1. /\ OutShape /\ OncePlaced(l) /\ Facts(l) /\ Mine(l) \subseteq DOMAIN pkt
      /\ pc[l] # "spd" /\ env' = env
  BY DEF OutInv, Places, Only, Inside
<1>2. /\ c \in DOMAIN pkt /\ c \in Mine(l)
      /\ c \notin Listed(l) /\ c \notin Ran(ol[l]) /\ c \notin crypto[l]
      /\ Firsts(ipsec[l]) = Firsts(t) \cup {c} /\ c \notin Firsts(t)
      /\ \A m, n \in DOMAIN t : t[m][1] = t[n][1] => m = n
      /\ \A n \in DOMAIN t : ToXform(env, pkt[t[n][1]], t[n][2], FALSE)
  BY <1>1, CurFacts
<1>3. /\ Len(pkt') = Len(pkt) /\ DOMAIN pkt' = DOMAIN pkt
      /\ pkt'[c] = r /\ \A i \in DOMAIN pkt : i # c => pkt'[i] = pkt[i]
  BY <1>1, <1>2, SetPkt
<1>4. /\ Ran(ip'[l]["v4"]) = Ran(ip[l]["v4"]) \cup {i \in {c} : place = "v4"}
      /\ Ran(ip'[l]["v6"]) = Ran(ip[l]["v6"]) \cup {i \in {c} : place = "v6"}
  BY DEF Fam
<1>5. Listed(l)' = Listed(l) \cup {i \in {c} : place \in Fam}
  BY <1>4 DEF Listed, Fam
<1>6. Firsts(ipsec'[l]) = Firsts(t)
  OBVIOUS
<1> HIDE DEF c, t
<1>7. Mine(l)' \subseteq Mine(l)
  BY <1>2, <1>5, <1>6 DEF Mine, c
<1>8. OncePlaced(l)'
  <2>1. \A m, n \in DOMAIN ipsec'[l] : ipsec'[l][m][1] = ipsec'[l][n][1] => m = n
    BY <1>2 DEF t
  <2>2. Apart(Ran(ip'[l]["v4"]), Ran(ip'[l]["v6"]))
    BY <1>1, <1>2, <1>4 DEF OncePlaced, Apart, Listed
  <2>3. Apart(Listed(l)', Firsts(t))
    BY <1>1, <1>2, <1>5 DEF OncePlaced, Apart
  <2>4. Apart(Listed(l)' \cup Firsts(t), Ran(ol'[l]))
    BY <1>1, <1>2, <1>5 DEF OncePlaced, Apart, Fam, c
  <2>5. Apart(Listed(l)' \cup Firsts(t) \cup Ran(ol'[l]), crypto'[l])
    BY <1>1, <1>2, <1>5 DEF OncePlaced, Apart, Fam, c
  <2> QED
    BY <1>6, <2>1, <2>2, <2>3, <2>4, <2>5 DEF OncePlaced
<1>9. Control(l)'
  BY DEF Control, Inside
<1>10. Facts(l)'
  <2>1. \A i \in Listed(l) \cup Firsts(t) \cup Ran(ol[l]) \cup crypto[l] : i \in DOMAIN pkt /\ i # c
    BY <1>1, <1>2 DEF Mine
  <2>2. \A v \in Fam : \A i \in Ran(ip'[l][v]) : Ready(env, pkt'[i], v)
    <3> SUFFICES ASSUME NEW v \in Fam, NEW i \in Ran(ip'[l][v]) PROVE Ready(env, pkt'[i], v)
      OBVIOUS
    <3>1. CASE i \in Ran(ip[l][v])
      <4>1. i \in Listed(l)
        BY <3>1 DEF Listed, Fam
      <4>2. Ready(env, pkt[i], v)
        BY <1>1, <3>1 DEF Facts
      <4> QED
        BY <1>3, <2>1, <4>1, <4>2
    <3>2. CASE i = c /\ place = v
      BY <1>3, <3>2
    <3> QED
      BY <3>1, <3>2 DEF c
  <2>3. \A n \in DOMAIN ipsec'[l] :
          ToXform(env, pkt'[ipsec'[l][n][1]], ipsec'[l][n][2], n = 1 /\ InEsp("xform"))
    <3> SUFFICES ASSUME NEW n \in DOMAIN t
                 PROVE  ToXform(env, pkt'[t[n][1]], t[n][2], n = 1 /\ InEsp("xform"))
      BY DEF t
    <3>1. t[n][1] \in Firsts(t)
      BY DEF Firsts
    <3>2. pkt'[t[n][1]] = pkt[t[n][1]]
      BY <1>3, <2>1, <3>1
    <3> QED
      BY <1>2, <3>2 DEF ToXform, InEsp
  <2>4. \A i \in Ran(ol'[l]) : Inlining(env, pkt'[i])
    <3> SUFFICES ASSUME NEW i \in Ran(ol'[l]) PROVE Inlining(env, pkt'[i])
      OBVIOUS
    <3>1. CASE i \in Ran(ol[l])
      BY <1>1, <1>3, <2>1, <3>1 DEF Facts
    <3>2. CASE i = c /\ place = "ol"
      BY <1>3, <3>2
    <3> QED
      BY <3>1, <3>2 DEF c
  <2>5. \A i \in crypto'[l] : Encrypting(env, pkt'[i])
    <3> SUFFICES ASSUME NEW i \in crypto'[l] PROVE Encrypting(env, pkt'[i])
      OBVIOUS
    <3>1. CASE i \in crypto[l]
      BY <1>1, <1>3, <2>1, <3>1 DEF Facts
    <3>2. CASE i = c /\ place = "crypto"
      BY <1>3, <3>2
    <3> QED
      BY <3>1, <3>2 DEF c
  <2> QED
    BY <1>1, <2>2, <2>3, <2>4, <2>5 DEF Facts
<1>11. \A i \in DOMAIN pkt' : Built(env, pkt'[i])
  BY <1>3 DEF OutInv
<1>12. \A i \in DOMAIN pkt : i \notin Mine(l) => pkt'[i] = pkt[i]
  BY <1>2, <1>3
<1> QED
  BY <1>1, <1>3, <1>7, <1>8, <1>9, <1>10, <1>11, <1>12, OutFacts DEF Moves

(* The packet stays the first of ipsec. *)
LEMMA HeadStays ==
  ASSUME OutInv, NEW l \in Lcores, ipsec[l] # <<>>, pc[l] \in {"xform"} \cup Inside, Only(l),
         ip'[l] = ip[l], ipsec'[l] = ipsec[l], ol'[l] = ol[l], crypto'[l] = crypto[l], sent' = sent,
         pc'[l] \in Inside,
         NEW r \in PktRec, pkt' = [pkt EXCEPT ![Cur(l)] = r], Built(env, r),
         IF InEsp(pc'[l]) THEN env.lib = "off" /\ InXform(env, r)
                          ELSE env.lib # "off" /\ tmp'[l] + 1 < SEQ_MOD /\ Fresh(r),
         r.w = pkt[Cur(l)].w,
         pc'[l] = "icb" => SaRec[Sa(l)].act = "none"
  PROVE  Moves(l)
<1> DEFINE c == Cur(l)
           t == Tail(ipsec[l])
<1>1. /\ OutShape /\ OncePlaced(l) /\ Facts(l) /\ Mine(l) \subseteq DOMAIN pkt
      /\ pc[l] # "spd" /\ env' = env
  BY DEF OutInv, Places, Only, Inside
<1>2. /\ c \in DOMAIN pkt /\ c \in Mine(l) /\ c \in Firsts(ipsec[l])
      /\ c \notin Listed(l) /\ c \notin Ran(ol[l]) /\ c \notin crypto[l]
      /\ Sa(l) \in Sas /\ Sa(l) = DueIn(env, pkt[c].w)
  BY <1>1, CurFacts
<1>3. /\ Len(pkt') = Len(pkt) /\ DOMAIN pkt' = DOMAIN pkt
      /\ pkt'[c] = r /\ \A i \in DOMAIN pkt : i # c => pkt'[i] = pkt[i]
  BY <1>1, <1>2, SetPkt
<1>4. Listed(l)' = Listed(l) /\ Mine(l)' = Mine(l) /\ Sa(l)' = Sa(l)
  BY DEF Listed, Mine, Sa
<1>5. OncePlaced(l)'
  BY <1>1, <1>4 DEF OncePlaced
<1>6. \A m, n \in DOMAIN ipsec[l] : ipsec[l][m][1] = ipsec[l][n][1] => m = n
  BY <1>1 DEF OncePlaced
<1> HIDE DEF c, t
<1>7. pc'[l] \notin {"rx", "drain", "spd", "route", "xform"} /\ (pc'[l] # "lib" => InEsp(pc'[l]))
      /\ (InEsp(pc'[l]) <=> pc'[l] \in {"inc", "hdr", "iv", "icb"}) /\ ~InEsp("lib")
  BY DEF Inside, InEsp
<1>8. Control(l)'
  BY <1>1, <1>7 DEF Control, InEsp
<1>9. Facts(l)'
  <2>1. \A i \in Listed(l) \cup Ran(ol[l]) \cup crypto[l] : i \in DOMAIN pkt /\ i # c
    BY <1>1, <1>2 DEF Mine
  <2>2. \A v \in Fam : \A i \in Ran(ip'[l][v]) : Ready(env, pkt'[i], v)
    <3> SUFFICES ASSUME NEW v \in Fam, NEW i \in Ran(ip[l][v]) PROVE Ready(env, pkt'[i], v)
      OBVIOUS
    <3>1. i \in Listed(l)
      BY DEF Listed, Fam
    <3>2. Ready(env, pkt[i], v)
      BY <1>1 DEF Facts
    <3> QED
      BY <1>3, <2>1, <3>1, <3>2
  <2>3. \A n \in DOMAIN ipsec'[l] :
          ToXform(env, pkt'[ipsec'[l][n][1]], ipsec'[l][n][2], n = 1 /\ InEsp(pc'[l]))
    <3> SUFFICES ASSUME NEW n \in DOMAIN ipsec[l]
                 PROVE  ToXform(env, pkt'[ipsec[l][n][1]], ipsec[l][n][2], n = 1 /\ InEsp(pc'[l]))
      OBVIOUS
    <3>1. ToXform(env, pkt[ipsec[l][n][1]], ipsec[l][n][2], n = 1 /\ InEsp(pc[l]))
      BY <1>1 DEF Facts
    <3>2. CASE n = 1
      <4>1. ipsec[l][n][1] = c /\ ipsec[l][n][2] = Sa(l)
        BY <3>2 DEF c, Cur, Sa
      <4>2. CASE InEsp(pc'[l])
        BY <1>2, <1>3, <3>2, <4>1, <4>2 DEF ToXform, c
      <4>3. CASE ~InEsp(pc'[l])
        BY <1>2, <1>3, <3>2, <4>1, <4>3 DEF ToXform, c
      <4> QED
        BY <4>2, <4>3
    <3>3. CASE n # 1
      <4>1. 1 \in DOMAIN ipsec[l]
        BY <1>1 DEF OutShape
      <4>2. ipsec[l][n][1] # c
        BY <1>6, <3>3, <4>1 DEF c, Cur
      <4>3. ipsec[l][n][1] \in DOMAIN pkt
        BY <1>1 DEF Mine, Firsts
      <4>4. pkt'[ipsec[l][n][1]] = pkt[ipsec[l][n][1]]
        BY <1>3, <4>2, <4>3
      <4> QED
        BY <3>1, <3>3, <4>4 DEF ToXform
    <3> QED
      BY <3>2, <3>3
  <2>4. \A i \in Ran(ol'[l]) : Inlining(env, pkt'[i])
    BY <1>1, <1>3, <2>1 DEF Facts
  <2>5. \A i \in crypto'[l] : Encrypting(env, pkt'[i])
    BY <1>1, <1>3, <2>1 DEF Facts
  <2> QED
    BY <1>1, <1>4, <1>7, <2>2, <2>3, <2>4, <2>5 DEF Facts
<1>10. \A i \in DOMAIN pkt' : Built(env, pkt'[i])
  BY <1>3 DEF OutInv
<1>11. \A i \in DOMAIN pkt : i \notin Mine(l) => pkt'[i] = pkt[i]
  BY <1>2, <1>3
<1> QED
  BY <1>1, <1>3, <1>4, <1>5, <1>8, <1>9, <1>10, <1>11, OutFacts DEF Moves
-----------------------------------------------------------------------------
Entries == Seq(Ids \X (Sas \cup {NoSa}))
Lists   == Seq(Ids)

(* A step that gives every variable a value of its type. *)
LEMMA ShapeStep ==
  ASSUME OutShape, env' = env,
         pc' \in [Lcores -> Labels],
         pkt' \in Seq(PktRec), Len(pkt') <= env.max,
         ip' \in [Lcores -> [Fam -> Lists]], ipsec' \in [Lcores -> Entries],
         ol' \in [Lcores -> Lists], crypto' \in [Lcores -> SUBSET Ids],
         seq' \in [Sas -> Nat], tmp' \in [Lcores -> Nat],
         sent' \subseteq Ids \X Fam, overlap' \subseteq Sas
  PROVE  OutShape'
<1>1. PktRec' = PktRec
  BY DEF PktRec, EspRecs
<1>2. (pkt \in Seq(PktRec))'
  BY <1>1
<1>3. (env \in Envs)'
  BY DEF OutShape
<1> QED
  BY <1>2, <1>3 DEF OutShape, Lists, Entries

(* The types of the variables. *)
LEMMA Types ==
  ASSUME OutShape
  PROVE  /\ ipsec \in [Lcores -> Entries] /\ pkt \in Seq(PktRec)
         /\ pc \in [Lcores -> Labels] /\ Len(pkt) <= env.max
         /\ ip \in [Lcores -> [Fam -> Lists]]
         /\ ol \in [Lcores -> Lists] /\ crypto \in [Lcores -> SUBSET Ids]
         /\ seq \in [Sas -> Nat] /\ tmp \in [Lcores -> Nat]
         /\ sent \subseteq Ids \X Fam /\ overlap \subseteq Sas
  BY DEF OutShape, Entries, Lists

(* The place a packet leaves ipsec for. *)
LEMMA PlaceFacts ==
  /\ Fam = {"v4", "v6"} /\ "free" \notin Fam /\ "ol" \notin Fam /\ "crypto" \notin Fam
  /\ "free" # "ol" /\ "free" # "crypto" /\ "ol" # "crypto" /\ "v4" # "v6"
  /\ \A v \in Fam : "free" # v /\ "ol" # v /\ "crypto" # v
  BY DEF Fam

(* A refused packet is freed: it leaves ipsec for no other place. *)
LEMMA XformFreeMoves ==
  ASSUME OutInv, NEW l \in Lcores, XformFree(l)
  PROVE  Moves(l) /\ OutShape'
<1> DEFINE c == Cur(l)
<1>1. /\ pc[l] = "xform" /\ ipsec[l] # <<>> /\ OutShape
  BY DEF XformFree, At, OutInv
<1>2. /\ c \in DOMAIN pkt /\ pkt[c] \in PktRec /\ Built(env, pkt[c])
      /\ Tail(ipsec[l]) \in Entries
  BY <1>1, CurFacts DEF OutInv, Entries
<1>3. /\ ipsec' = [ipsec EXCEPT ![l] = Tail(ipsec[l])] /\ env' = env /\ pc' = pc /\ pkt' = pkt /\ ip' = ip /\ ol' = ol
      /\ crypto' = crypto /\ seq' = seq /\ tmp' = tmp /\ sent' = sent /\ overlap' = overlap
  BY DEF XformFree, Pop
<1>4. /\ ipsec \in [Lcores -> Entries] /\ pkt \in Seq(PktRec)
      /\ pc \in [Lcores -> Labels] /\ Len(pkt) <= env.max
      /\ ip \in [Lcores -> [Fam -> Lists]]
      /\ ol \in [Lcores -> Lists] /\ crypto \in [Lcores -> SUBSET Ids]
      /\ seq \in [Sas -> Nat] /\ tmp \in [Lcores -> Nat]
      /\ sent \subseteq Ids \X Fam /\ overlap \subseteq Sas
  BY <1>1, Types
<1>5. ipsec' \in [Lcores -> Entries] /\ ipsec'[l] = Tail(ipsec[l]) /\ \A m \in Lcores \ {l} : ipsec'[m] = ipsec[m]
  BY <1>2, <1>3, <1>4
<1>6. OutShape'
  BY <1>1, <1>3, <1>4, <1>5, ShapeStep
<1>7. Only(l)
  BY <1>3, <1>5 DEF Only
<1>8. pkt' = [pkt EXCEPT ![c] = pkt[c]]
  BY <1>2, <1>3, <1>4
<1>9. /\ \A v \in Fam : Ran(ip'[l][v]) = Ran(ip[l][v]) \cup {i \in {c} : "free" = v}
      /\ Ran(ol'[l]) = Ran(ol[l]) \cup {i \in {c} : "free" = "ol"}
      /\ crypto'[l] = crypto[l] \cup {i \in {c} : "free" = "crypto"}
  BY <1>3, PlaceFacts
<1>10. Moves(l)
  BY <1>1, <1>2, <1>3, <1>5, <1>7, <1>8, <1>9, PlaceFacts, HeadLeaves
<1> QED
  BY <1>6, <1>10
-----------------------------------------------------------------------------
(* A protocol offload: the packet goes to its device or to ol. *)
LEMMA XformProtoMoves ==
  ASSUME OutInv, NEW l \in Lcores, XformProto(l)
  PROVE  Moves(l) /\ OutShape'
<1> DEFINE c == Cur(l)
           r == [pkt[c] EXCEPT !.sa = Sa(l)]
<1>1. /\ pc[l] = "xform" /\ ipsec[l] # <<>> /\ OutShape /\ env.lib = "off" /\ ~InEsp(pc[l])
  BY DEF XformProto, At, OutInv, InEsp
<1>2. /\ c \in DOMAIN pkt /\ c \in Ids /\ pkt[c] \in PktRec /\ Fresh(pkt[c])
      /\ Sa(l) \in Sas /\ Sa(l) = DueIn(env, pkt[c].w)
      /\ Tail(ipsec[l]) \in Entries
  BY <1>1, CurFacts DEF OutInv, Entries
<1>3. /\ ipsec' = [ipsec EXCEPT ![l] = Tail(ipsec[l])] /\ env' = env /\ pc' = pc
      /\ pkt' = [pkt EXCEPT ![c] = r] /\ ip' = ip
      /\ seq' = seq /\ tmp' = tmp /\ sent' = sent /\ overlap' = overlap
  BY DEF XformProto, Pop, Tag
<1>4. /\ ipsec \in [Lcores -> Entries] /\ pkt \in Seq(PktRec)
      /\ pc \in [Lcores -> Labels] /\ Len(pkt) <= env.max
      /\ ip \in [Lcores -> [Fam -> Lists]]
      /\ ol \in [Lcores -> Lists] /\ crypto \in [Lcores -> SUBSET Ids]
      /\ seq \in [Sas -> Nat] /\ tmp \in [Lcores -> Nat]
      /\ sent \subseteq Ids \X Fam /\ overlap \subseteq Sas
  BY <1>1, Types
<1>5. ipsec' \in [Lcores -> Entries] /\ ipsec'[l] = Tail(ipsec[l]) /\ \A m \in Lcores \ {l} : ipsec'[m] = ipsec[m]
  BY <1>2, <1>3, <1>4
<1>6. /\ r \in PktRec /\ r.w = pkt[c].w /\ r.sa = Sa(l) /\ r.esp = NoEsp /\ r.off = FALSE
      /\ r.w.kind = "clear"
  BY <1>2 DEF PktRec, Fresh
<1>7. Tagged(env, r) /\ Built(env, r)
  BY <1>2, <1>6 DEF Tagged, Built
<1>8. \/ /\ SaRec[Sa(l)].act = "la_proto" /\ crypto' = [crypto EXCEPT ![l] = crypto[l] \cup {c}]
         /\ ol' = ol
      \/ /\ SaRec[Sa(l)].act = "inl_proto" /\ ol' = [ol EXCEPT ![l] = Append(ol[l], c)]
         /\ crypto' = crypto
  BY DEF XformProto, Rec
<1> HIDE DEF c, r
<1>9. /\ pkt' \in Seq(PktRec) /\ Len(pkt') = Len(pkt)
  BY <1>1, <1>2, <1>3, <1>6, SetPkt
<1>10. crypto[l] \cup {c} \in SUBSET Ids /\ Append(ol[l], c) \in Lists
       /\ Ran(Append(ol[l], c)) = Ran(ol[l]) \cup {c}
  BY <1>2, <1>4, RanAppend DEF Lists, c
<1>11. ol' \in [Lcores -> Lists] /\ crypto' \in [Lcores -> SUBSET Ids]
       /\ \A m \in Lcores \ {l} : ol'[m] = ol[m] /\ crypto'[m] = crypto[m]
  <2>1. CASE crypto' = [crypto EXCEPT ![l] = crypto[l] \cup {c}] /\ ol' = ol
    BY <1>4, <1>10, <2>1
  <2>2. CASE ol' = [ol EXCEPT ![l] = Append(ol[l], c)] /\ crypto' = crypto
    BY <1>4, <1>10, <2>2
  <2> QED
    BY <1>8, <2>1, <2>2
<1>12. OutShape'
  BY <1>1, <1>3, <1>4, <1>5, <1>9, <1>11, ShapeStep
<1>13. Only(l)
  BY <1>3, <1>5, <1>11 DEF Only
<1>14. CASE SaRec[Sa(l)].act = "la_proto" /\ crypto' = [crypto EXCEPT ![l] = crypto[l] \cup {c}] /\ ol' = ol
  <2>1. /\ \A v \in Fam : Ran(ip'[l][v]) = Ran(ip[l][v]) \cup {i \in {c} : "crypto" = v}
        /\ Ran(ol'[l]) = Ran(ol[l]) \cup {i \in {c} : "crypto" = "ol"}
        /\ crypto'[l] = crypto[l] \cup {i \in {c} : "crypto" = "crypto"}
    BY <1>3, <1>4, <1>14, PlaceFacts
  <2>2. Encrypting(env, r)
    BY <1>1, <1>6, <1>7, <1>14 DEF Encrypting
  <2> QED
    BY <1>1, <1>3, <1>5, <1>6, <1>7, <1>12, <1>13, <2>1, <2>2, PlaceFacts, HeadLeaves DEF c
<1>15. CASE SaRec[Sa(l)].act = "inl_proto" /\ ol' = [ol EXCEPT ![l] = Append(ol[l], c)] /\ crypto' = crypto
  <2>1. /\ \A v \in Fam : Ran(ip'[l][v]) = Ran(ip[l][v]) \cup {i \in {c} : "ol" = v}
        /\ Ran(ol'[l]) = Ran(ol[l]) \cup {i \in {c} : "ol" = "ol"}
        /\ crypto'[l] = crypto[l] \cup {i \in {c} : "ol" = "crypto"}
    BY <1>3, <1>4, <1>10, <1>15, PlaceFacts
  <2>2. Inlining(env, r)
    BY <1>1, <1>6, <1>7, <1>15 DEF Inlining
  <2> QED
    BY <1>1, <1>3, <1>5, <1>6, <1>7, <1>12, <1>13, <2>1, <2>2, PlaceFacts, HeadLeaves DEF c
<1> QED
  BY <1>8, <1>14, <1>15
-----------------------------------------------------------------------------
(* A step inside esp_outbound. *)
LEMMA EspCur ==
  ASSUME OutInv, NEW l \in Lcores, InEsp(pc[l])
  PROVE  /\ OutShape /\ ipsec[l] # <<>> /\ pc[l] \in Inside /\ env.lib = "off"
         /\ Cur(l) \in DOMAIN pkt /\ Cur(l) \in Ids /\ pkt[Cur(l)] \in PktRec
         /\ InXform(env, pkt[Cur(l)]) /\ Built(env, pkt[Cur(l)]) /\ Sa(l) \in Sas
         /\ pkt[Cur(l)].sa = Sa(l) /\ SaOK(SaRec[Sa(l)])
         /\ Tail(ipsec[l]) \in Entries
<1>1. OutShape /\ Control(l) /\ pc[l] \in {"inc", "hdr", "iv", "icb"}
  BY DEF OutInv, InEsp
<1>2. pc[l] \in Inside /\ ipsec[l] # <<>> /\ env.lib = "off" /\ pc[l] # "spd"
  BY <1>1 DEF Control, Inside
<1>3. /\ Cur(l) \in DOMAIN pkt /\ Cur(l) \in Ids /\ pkt[Cur(l)] \in PktRec
      /\ InXform(env, pkt[Cur(l)]) /\ Sa(l) \in Sas /\ Sa(l) = DueIn(env, pkt[Cur(l)].w)
      /\ SaOK(SaRec[Sa(l)])
      /\ Tail(ipsec[l]) \in Entries
  BY <1>2, CurFacts DEF Entries
<1>4. pkt[Cur(l)].sa = Sa(l)
  BY <1>3 DEF InXform, Tagged
<1> QED
  BY <1>1, <1>2, <1>3, <1>4 DEF OutInv

(* esp_outbound builds its headers; the packet stays first of ipsec. *)
LEMMA XformEspMoves ==
  ASSUME OutInv, NEW l \in Lcores, XformEsp(l)
  PROVE  Moves(l) /\ OutShape'
<1> DEFINE c == Cur(l)
           r == [pkt[c] EXCEPT !.sa = Sa(l), !.esp = EspOut(SaRec[Sa(l)], pkt[c].w)]
<1>1. /\ pc[l] = "xform" /\ ipsec[l] # <<>> /\ OutShape /\ env.lib = "off" /\ ~InEsp(pc[l])
      /\ SaRec[Sa(l)].act \in {"none", "inl_crypto"} /\ ~TooBig(SaRec[Sa(l)], pkt[c].w)
  BY DEF XformEsp, At, OutInv, InEsp, Xforms, Refused, Rec, Wp
<1>2. /\ c \in DOMAIN pkt /\ c \in Ids /\ pkt[c] \in PktRec /\ Fresh(pkt[c])
      /\ Sa(l) \in Sas /\ Sa(l) = DueIn(env, pkt[c].w)
  BY <1>1, CurFacts DEF OutInv
<1>3. /\ ipsec' = ipsec /\ env' = env /\ pc' = [pc EXCEPT ![l] = "inc"]
      /\ pkt' = [pkt EXCEPT ![c] = r] /\ ip' = ip /\ ol' = ol /\ crypto' = crypto
      /\ seq' = seq /\ tmp' = [tmp EXCEPT ![l] = seq[Sa(l)]] /\ sent' = sent
      /\ overlap' \subseteq overlap \cup {Sa(l)}
  <2>1. pkt \in Seq(PktRec) /\ c \in DOMAIN [pkt EXCEPT ![c].sa = Sa(l)]
    BY <1>1, <1>2 DEF OutShape
  <2>2. pkt' = [pkt EXCEPT ![c] = r]
    BY <1>2, <2>1 DEF XformEsp, Tag, Rec, Wp
  <2> QED
    BY <2>2 DEF XformEsp, Goto, Enter
<1>4. /\ ipsec \in [Lcores -> Entries] /\ pkt \in Seq(PktRec)
      /\ pc \in [Lcores -> Labels] /\ Len(pkt) <= env.max
      /\ ip \in [Lcores -> [Fam -> Lists]]
      /\ ol \in [Lcores -> Lists] /\ crypto \in [Lcores -> SUBSET Ids]
      /\ seq \in [Sas -> Nat] /\ tmp \in [Lcores -> Nat]
      /\ sent \subseteq Ids \X Fam /\ overlap \subseteq Sas
  BY <1>1, Types
<1>5. /\ r \in PktRec /\ r.w = pkt[c].w /\ r.sa = Sa(l) /\ r.off = FALSE
      /\ r.esp = EspOut(SaRec[Sa(l)], pkt[c].w) /\ r.w.kind = "clear"
  <2>1. EspOut(SaRec[Sa(l)], pkt[c].w) \in EspRecs
    BY <1>2 DEF EspRecs, PktRec
  <2> QED
    BY <1>2, <2>1 DEF PktRec, Fresh
<1>6. InXform(env, r) /\ Built(env, r)
  BY <1>1, <1>2, <1>5 DEF InXform, Tagged, Built, EspMade
<1> HIDE DEF c, r
<1>7. /\ pkt' \in Seq(PktRec) /\ Len(pkt') = Len(pkt)
  BY <1>1, <1>2, <1>3, <1>5, SetPkt
<1>8. "inc" \in Labels /\ "inc" \in Inside /\ InEsp("inc") /\ "inc" # "icb"
  BY DEF Labels, Inside, InEsp
<1>9. OutShape'
  BY <1>1, <1>2, <1>3, <1>4, <1>7, <1>8, ShapeStep
<1>10. Only(l) /\ pc'[l] = "inc"
  BY <1>3, <1>4 DEF Only
<1> QED
  BY <1>1, <1>3, <1>5, <1>6, <1>8, <1>9, <1>10, HeadStays DEF c

(* The increment of sa->seq moves no packet. *)
LEMMA IncMoves ==
  ASSUME OutInv, NEW l \in Lcores, Inc(l)
  PROVE  Moves(l) /\ OutShape'
<1> DEFINE c == Cur(l)
<1>1. /\ pc[l] = "inc" /\ InEsp(pc[l])
  BY DEF Inc, InEsp
<1>2. /\ OutShape /\ ipsec[l] # <<>> /\ pc[l] \in Inside /\ env.lib = "off"
      /\ c \in DOMAIN pkt /\ pkt[c] \in PktRec
      /\ InXform(env, pkt[c]) /\ Built(env, pkt[c]) /\ Sa(l) \in Sas
  BY <1>1, EspCur
<1>3. /\ ipsec' = ipsec /\ env' = env /\ pc' = [pc EXCEPT ![l] = "hdr"]
      /\ pkt' = pkt /\ ip' = ip /\ ol' = ol /\ crypto' = crypto
      /\ seq' = [seq EXCEPT ![Sa(l)] = tmp[l] + 1] /\ tmp' = tmp /\ sent' = sent
      /\ overlap' = overlap
  BY DEF Inc, Goto, SeqStore, data
<1>4. /\ ipsec \in [Lcores -> Entries] /\ pkt \in Seq(PktRec)
      /\ pc \in [Lcores -> Labels] /\ Len(pkt) <= env.max
      /\ ip \in [Lcores -> [Fam -> Lists]]
      /\ ol \in [Lcores -> Lists] /\ crypto \in [Lcores -> SUBSET Ids]
      /\ seq \in [Sas -> Nat] /\ tmp \in [Lcores -> Nat]
      /\ sent \subseteq Ids \X Fam /\ overlap \subseteq Sas
  BY <1>2, Types
<1>5. pkt' = [pkt EXCEPT ![c] = pkt[c]]
  BY <1>2, <1>3, <1>4
<1> HIDE DEF c
<1>6. "hdr" \in Labels /\ "hdr" \in Inside /\ InEsp("hdr") /\ "hdr" # "icb"
  BY DEF Labels, Inside, InEsp
<1>7. seq' \in [Sas -> Nat]
  <2>1. tmp[l] + 1 \in Nat
    BY <1>4
  <2> QED
    BY <1>3, <1>4, <2>1
<1>8. OutShape'
  BY <1>2, <1>3, <1>4, <1>6, <1>7, ShapeStep
<1>9. Only(l) /\ pc'[l] = "hdr"
  BY <1>3, <1>4 DEF Only
<1> QED
  BY <1>2, <1>3, <1>5, <1>6, <1>8, <1>9, HeadStays DEF c

(* The sequence number is written into the header. *)
LEMMA HdrMoves ==
  ASSUME OutInv, NEW l \in Lcores, Hdr(l)
  PROVE  Moves(l) /\ OutShape'
<1> DEFINE c == Cur(l)
           r == [pkt[c] EXCEPT !.seq = EspSeq(Sa(l))]
<1>1. /\ pc[l] = "hdr" /\ InEsp(pc[l])
  BY DEF Hdr, InEsp
<1>2. /\ OutShape /\ ipsec[l] # <<>> /\ pc[l] \in Inside /\ env.lib = "off"
      /\ c \in DOMAIN pkt /\ pkt[c] \in PktRec
      /\ InXform(env, pkt[c]) /\ Built(env, pkt[c]) /\ Sa(l) \in Sas
  BY <1>1, EspCur
<1>3. /\ ipsec' = ipsec /\ env' = env /\ pc' = [pc EXCEPT ![l] = "iv"]
      /\ pkt' = [pkt EXCEPT ![c] = r] /\ ip' = ip /\ ol' = ol /\ crypto' = crypto
      /\ seq' = seq /\ tmp' = tmp /\ sent' = sent /\ overlap' = overlap
  BY DEF Hdr, Goto
<1>4. /\ ipsec \in [Lcores -> Entries] /\ pkt \in Seq(PktRec)
      /\ pc \in [Lcores -> Labels] /\ Len(pkt) <= env.max
      /\ ip \in [Lcores -> [Fam -> Lists]]
      /\ ol \in [Lcores -> Lists] /\ crypto \in [Lcores -> SUBSET Ids]
      /\ seq \in [Sas -> Nat] /\ tmp \in [Lcores -> Nat]
      /\ sent \subseteq Ids \X Fam /\ overlap \subseteq Sas
  BY <1>2, Types
<1>5. EspSeq(Sa(l)) \in 0 .. SEQ_MOD - 1
  BY <1>2, <1>4, OutAssumption DEF EspSeq
<1>6. r \in PktRec /\ r.w = pkt[c].w /\ InXform(env, r) /\ Built(env, r)
  BY <1>2, <1>5 DEF PktRec, InXform, Tagged, Built, EspMade
<1> HIDE DEF c, r
<1>7. /\ pkt' \in Seq(PktRec) /\ Len(pkt') = Len(pkt)
  BY <1>2, <1>3, <1>6, SetPkt
<1>8. "iv" \in Labels /\ "iv" \in Inside /\ InEsp("iv") /\ "iv" # "icb"
  BY DEF Labels, Inside, InEsp
<1>9. OutShape'
  BY <1>2, <1>3, <1>4, <1>7, <1>8, ShapeStep
<1>10. Only(l) /\ pc'[l] = "iv"
  BY <1>3, <1>4 DEF Only
<1> QED
  BY <1>2, <1>3, <1>6, <1>8, <1>9, <1>10, HeadStays DEF c

(* The IV is written; an inline packet joins ol, an unsupported one goes. *)
LEMMA IvMoves ==
  ASSUME OutInv, NEW l \in Lcores, Iv(l)
  PROVE  Moves(l) /\ OutShape'
<1> DEFINE c == Cur(l)
           x == IF CounterIv(Rec(l)) THEN seq[Sa(l)] ELSE 0
           r == [pkt[c] EXCEPT !.iv = x]
<1>1. /\ pc[l] = "iv" /\ InEsp(pc[l])
  BY DEF Iv, InEsp
<1>2. /\ OutShape /\ ipsec[l] # <<>> /\ pc[l] \in Inside /\ env.lib = "off"
      /\ c \in DOMAIN pkt /\ c \in Ids /\ pkt[c] \in PktRec
      /\ InXform(env, pkt[c]) /\ Built(env, pkt[c]) /\ Sa(l) \in Sas /\ pkt[c].sa = Sa(l)
      /\ Tail(ipsec[l]) \in Entries
  BY <1>1, EspCur
<1>3. /\ env' = env /\ pkt' = [pkt EXCEPT ![c] = r] /\ ip' = ip /\ crypto' = crypto
      /\ seq' = seq /\ tmp' = tmp /\ sent' = sent /\ overlap' = overlap
  BY DEF Iv
<1>4. /\ ipsec \in [Lcores -> Entries] /\ pkt \in Seq(PktRec)
      /\ pc \in [Lcores -> Labels] /\ Len(pkt) <= env.max
      /\ ip \in [Lcores -> [Fam -> Lists]]
      /\ ol \in [Lcores -> Lists] /\ crypto \in [Lcores -> SUBSET Ids]
      /\ seq \in [Sas -> Nat] /\ tmp \in [Lcores -> Nat]
      /\ sent \subseteq Ids \X Fam /\ overlap \subseteq Sas
  BY <1>2, Types
<1>5. x \in Nat
  BY <1>2, <1>4
<1>6. /\ r \in PktRec /\ r.w = pkt[c].w /\ r.sa = Sa(l) /\ r.esp = pkt[c].esp
      /\ InXform(env, r) /\ Built(env, r)
  BY <1>2, <1>5 DEF PktRec, InXform, Tagged, Built, EspMade
<1> HIDE DEF c, r, x
<1>7. /\ pkt' \in Seq(PktRec) /\ Len(pkt') = Len(pkt)
  BY <1>2, <1>3, <1>6, SetPkt
<1>8. /\ "icb" \in Labels /\ "icb" \in Inside /\ InEsp("icb") /\ "xform" \in Labels
  BY DEF Labels, Inside, InEsp
<1>9. CASE Supported(Rec(l)) /\ Rec(l).act # "inl_crypto"
  <2>1. pc' = [pc EXCEPT ![l] = "icb"] /\ ipsec' = ipsec /\ ol' = ol
    BY <1>9 DEF Iv, Goto
  <2>2. SaRec[Sa(l)].act = "none"
    BY <1>6, <1>9 DEF InXform, Rec
  <2>3. OutShape'
    BY <1>2, <1>3, <1>4, <1>7, <1>8, <2>1, ShapeStep
  <2>4. Only(l) /\ pc'[l] = "icb"
    BY <1>3, <1>4, <2>1 DEF Only
  <2> QED
    BY <1>2, <1>3, <1>6, <1>8, <2>1, <2>2, <2>3, <2>4, HeadStays DEF c
<1>10. CASE ~(Supported(Rec(l)) /\ Rec(l).act # "inl_crypto")
  <2>1. /\ pc' = [pc EXCEPT ![l] = "xform"] /\ ipsec' = [ipsec EXCEPT ![l] = Tail(ipsec[l])]
        /\ ol' = [ol EXCEPT ![l] = IF Supported(Rec(l)) THEN Append(ol[l], c) ELSE ol[l]]
    BY <1>10 DEF Iv, Goto, Pop, c
  <2>2. Append(ol[l], c) \in Lists /\ Ran(Append(ol[l], c)) = Ran(ol[l]) \cup {c}
    BY <1>2, <1>4, RanAppend DEF Lists
  <2>3. /\ ol' \in [Lcores -> Lists] /\ ipsec' \in [Lcores -> Entries]
        /\ pc' \in [Lcores -> Labels]
    BY <1>2, <1>4, <1>8, <2>1, <2>2
  <2>4. OutShape'
    BY <1>2, <1>3, <1>4, <1>7, <2>3, ShapeStep
  <2>5. Only(l) /\ pc'[l] = "xform" /\ ipsec'[l] = Tail(ipsec[l])
    BY <1>3, <1>4, <2>1 DEF Only
  <2>6. CASE Supported(Rec(l))
    <3>1. /\ \A v \in Fam : Ran(ip'[l][v]) = Ran(ip[l][v]) \cup {i \in {c} : "ol" = v}
          /\ Ran(ol'[l]) = Ran(ol[l]) \cup {i \in {c} : "ol" = "ol"}
          /\ crypto'[l] = crypto[l] \cup {i \in {c} : "ol" = "crypto"}
      BY <1>3, <1>4, <2>1, <2>2, <2>6, PlaceFacts
    <3>2. Inlining(env, r)
      BY <1>2, <1>6, <1>10, <2>6 DEF Inlining, InXform, Rec
    <3> QED
      BY <1>2, <1>3, <1>6, <2>4, <2>5, <3>1, <3>2, PlaceFacts, HeadLeaves DEF c
  <2>7. CASE ~Supported(Rec(l))
    <3>1. /\ \A v \in Fam : Ran(ip'[l][v]) = Ran(ip[l][v]) \cup {i \in {c} : "free" = v}
          /\ Ran(ol'[l]) = Ran(ol[l]) \cup {i \in {c} : "free" = "ol"}
          /\ crypto'[l] = crypto[l] \cup {i \in {c} : "free" = "crypto"}
      BY <1>3, <1>4, <2>1, <2>7, PlaceFacts
    <3> QED
      BY <1>2, <1>3, <1>6, <2>4, <2>5, <3>1, PlaceFacts, HeadLeaves DEF c
  <2> QED
    BY <2>6, <2>7
<1> QED
  BY <1>9, <1>10

(* The counter block is written and the packet goes to its device. *)
LEMMA IcbMoves ==
  ASSUME OutInv, NEW l \in Lcores, Icb(l)
  PROVE  Moves(l) /\ OutShape'
<1> DEFINE c == Cur(l)
           r == [pkt[c] EXCEPT !.icb = seq[Sa(l)]]
<1>1. /\ pc[l] = "icb" /\ InEsp(pc[l])
  BY DEF Icb, InEsp
<1>2. /\ OutShape /\ ipsec[l] # <<>> /\ pc[l] \in Inside /\ env.lib = "off"
      /\ c \in DOMAIN pkt /\ c \in Ids /\ pkt[c] \in PktRec
      /\ InXform(env, pkt[c]) /\ Built(env, pkt[c]) /\ Sa(l) \in Sas /\ pkt[c].sa = Sa(l)
      /\ Tail(ipsec[l]) \in Entries
  BY <1>1, EspCur
<1>3. /\ env' = env /\ pkt' = [pkt EXCEPT ![c] = r] /\ ip' = ip /\ ol' = ol
      /\ crypto' = [crypto EXCEPT ![l] = crypto[l] \cup {c}]
      /\ ipsec' = [ipsec EXCEPT ![l] = Tail(ipsec[l])] /\ pc' = [pc EXCEPT ![l] = "xform"]
      /\ seq' = seq /\ tmp' = tmp /\ sent' = sent /\ overlap' = overlap
  BY DEF Icb, Pop, Goto
<1>4. /\ ipsec \in [Lcores -> Entries] /\ pkt \in Seq(PktRec)
      /\ pc \in [Lcores -> Labels] /\ Len(pkt) <= env.max
      /\ ip \in [Lcores -> [Fam -> Lists]]
      /\ ol \in [Lcores -> Lists] /\ crypto \in [Lcores -> SUBSET Ids]
      /\ seq \in [Sas -> Nat] /\ tmp \in [Lcores -> Nat]
      /\ sent \subseteq Ids \X Fam /\ overlap \subseteq Sas
  BY <1>2, Types
<1>5. /\ r \in PktRec /\ r.sa = Sa(l) /\ InXform(env, r) /\ Built(env, r)
  BY <1>2, <1>4 DEF PktRec, InXform, Tagged, Built, EspMade
<1>6. SaRec[Sa(l)].act = "none"
  BY <1>1 DEF OutInv, Facts
<1>7. Encrypting(env, r)
  BY <1>5, <1>6 DEF Encrypting, InXform
<1> HIDE DEF c, r
<1>8. /\ pkt' \in Seq(PktRec) /\ Len(pkt') = Len(pkt)
  BY <1>2, <1>3, <1>5, SetPkt
<1>9. crypto[l] \cup {c} \in SUBSET Ids /\ "xform" \in Labels
  BY <1>2, <1>4 DEF Labels
<1>10. /\ crypto' \in [Lcores -> SUBSET Ids] /\ ipsec' \in [Lcores -> Entries]
       /\ pc' \in [Lcores -> Labels]
  BY <1>2, <1>3, <1>4, <1>9
<1>11. OutShape'
  BY <1>2, <1>3, <1>4, <1>8, <1>10, ShapeStep
<1>12. Only(l) /\ pc'[l] = "xform" /\ ipsec'[l] = Tail(ipsec[l])
  BY <1>3, <1>4 DEF Only
<1>13. /\ \A v \in Fam : Ran(ip'[l][v]) = Ran(ip[l][v]) \cup {i \in {c} : "crypto" = v}
       /\ Ran(ol'[l]) = Ran(ol[l]) \cup {i \in {c} : "crypto" = "ol"}
       /\ crypto'[l] = crypto[l] \cup {i \in {c} : "crypto" = "crypto"}
  BY <1>3, <1>4, PlaceFacts
<1> QED
  BY <1>2, <1>3, <1>5, <1>7, <1>11, <1>12, <1>13, PlaceFacts, HeadLeaves DEF c
-----------------------------------------------------------------------------
(* The library takes a number and moves no packet. *)
LEMMA LibTakeMoves ==
  ASSUME OutInv, NEW l \in Lcores, LibTake(l)
  PROVE  Moves(l) /\ OutShape'
<1> DEFINE c == Cur(l)
<1>1. /\ pc[l] = "xform" /\ ipsec[l] # <<>> /\ OutShape /\ env.lib # "off" /\ ~InEsp(pc[l])
      /\ seq[Sa(l)] + 1 < SEQ_MOD
  BY DEF LibTake, At, OutInv, InEsp
<1>2. /\ c \in DOMAIN pkt /\ pkt[c] \in PktRec /\ Fresh(pkt[c]) /\ Sa(l) \in Sas
      /\ Built(env, pkt[c])
  BY <1>1, CurFacts DEF OutInv
<1>4. /\ ipsec \in [Lcores -> Entries] /\ pkt \in Seq(PktRec)
      /\ pc \in [Lcores -> Labels] /\ Len(pkt) <= env.max
      /\ ip \in [Lcores -> [Fam -> Lists]]
      /\ ol \in [Lcores -> Lists] /\ crypto \in [Lcores -> SUBSET Ids]
      /\ seq \in [Sas -> Nat] /\ tmp \in [Lcores -> Nat]
      /\ sent \subseteq Ids \X Fam /\ overlap \subseteq Sas
  BY <1>1, Types
<1>5. /\ ipsec' = ipsec /\ env' = env /\ pc' = [pc EXCEPT ![l] = "lib"]
      /\ pkt' = pkt /\ ip' = ip /\ ol' = ol /\ crypto' = crypto
      /\ tmp' = [tmp EXCEPT ![l] = seq[Sa(l)]] /\ sent' = sent
  BY DEF LibTake, Goto, data
<1>6. seq' \in [Sas -> Nat] /\ overlap' \subseteq Sas
  <2>1. seq[Sa(l)] + 1 \in Nat
    BY <1>2, <1>4
  <2>2. CASE env.lib = "atomic"
    BY <1>4, <2>1, <2>2 DEF LibTake
  <2>3. CASE env.lib # "atomic"
    BY <1>2, <1>4, <2>3 DEF LibTake, Enter
  <2> QED
    BY <2>2, <2>3
<1>7. pkt' = [pkt EXCEPT ![c] = pkt[c]]
  BY <1>2, <1>4, <1>5
<1> HIDE DEF c
<1>8. "lib" \in Labels /\ "lib" \in Inside /\ ~InEsp("lib") /\ "lib" # "icb"
  BY DEF Labels, Inside, InEsp
<1>9. OutShape'
  BY <1>1, <1>2, <1>4, <1>5, <1>6, <1>8, ShapeStep
<1>10. Only(l) /\ pc'[l] = "lib" /\ tmp'[l] + 1 < SEQ_MOD
  BY <1>1, <1>4, <1>5 DEF Only
<1> QED
  BY <1>1, <1>2, <1>5, <1>7, <1>8, <1>9, <1>10, HeadStays DEF c

(* The library hands the packet to its device or to a list of traffic. *)
LEMMA LibPutMoves ==
  ASSUME OutInv, NEW l \in Lcores, LibPut(l)
  PROVE  Moves(l) /\ OutShape'
<1> DEFINE c == Cur(l)
           s == SaRec[Sa(l)]
           x == IF CounterIv(s) THEN tmp[l] + 1 ELSE 0
           y == IF s.act = "none" THEN tmp[l] + 1 ELSE 0
           o == s.act \in {"inl_crypto", "inl_proto"}
           t == [pkt EXCEPT ![c].sa = Sa(l)]
           r == [pkt[c] EXCEPT !.sa = Sa(l), !.esp = EspOut(s, pkt[c].w), !.seq = tmp[l] + 1,
                               !.iv = x, !.icb = y, !.off = o]
<1>1. /\ pc[l] = "lib" /\ ipsec[l] # <<>> /\ OutShape /\ env.lib # "off" /\ ~InEsp(pc[l])
      /\ pc[l] \in Inside /\ pc[l] # "spd" /\ tmp[l] + 1 < SEQ_MOD
  BY DEF LibPut, OutInv, InEsp, Control, Inside
<1>2. /\ c \in DOMAIN pkt /\ c \in Ids /\ pkt[c] \in PktRec /\ Fresh(pkt[c])
      /\ Sa(l) \in Sas /\ Sa(l) = DueIn(env, pkt[c].w) /\ SaOK(s) /\ PktOK(pkt[c].w)
      /\ Tail(ipsec[l]) \in Entries
  BY <1>1, CurFacts DEF OutInv, Entries
<1>4. /\ ipsec \in [Lcores -> Entries] /\ pkt \in Seq(PktRec)
      /\ pc \in [Lcores -> Labels] /\ Len(pkt) <= env.max
      /\ ip \in [Lcores -> [Fam -> Lists]]
      /\ ol \in [Lcores -> Lists] /\ crypto \in [Lcores -> SUBSET Ids]
      /\ seq \in [Sas -> Nat] /\ tmp \in [Lcores -> Nat]
      /\ sent \subseteq Ids \X Fam /\ overlap \subseteq Sas
  BY <1>1, Types
<1>5. pkt' = [pkt EXCEPT ![c] = r]
  <2>1. pkt' = [t EXCEPT ![c] = [t[c] EXCEPT !.esp = EspOut(s, pkt[c].w), !.seq = tmp[l] + 1,
                                             !.iv = x, !.icb = y, !.off = o]]
    BY DEF LibPut, Tag, Rec, Wp
  <2>2. t = [pkt EXCEPT ![c] = [pkt[c] EXCEPT !.sa = Sa(l)]] /\ t[c] = [pkt[c] EXCEPT !.sa = Sa(l)]
    BY <1>2, <1>4
  <2>3. r = [[pkt[c] EXCEPT !.sa = Sa(l)] EXCEPT !.esp = EspOut(s, pkt[c].w), !.seq = tmp[l] + 1,
                                                 !.iv = x, !.icb = y, !.off = o]
    OBVIOUS
  <2> HIDE DEF r, x, y, o, s
  <2>4. pkt' = [t EXCEPT ![c] = r]
    BY <2>1, <2>2, <2>3
  <2> QED
    BY <1>2, <1>4, <2>4
<1>6. /\ env' = env /\ ol' = ol /\ tmp' = tmp /\ sent' = sent /\ overlap' = overlap
      /\ ipsec' = [ipsec EXCEPT ![l] = Tail(ipsec[l])] /\ pc' = [pc EXCEPT ![l] = "xform"]
  BY DEF LibPut, Pop, Goto
<1>7. tmp[l] + 1 \in Nat /\ tmp[l] + 1 \in 0 .. SEQ_MOD - 1
  BY <1>1, <1>4, OutAssumption
<1>8. seq' \in [Sas -> Nat]
  BY <1>4, <1>7 DEF LibPut
<1>9. /\ r \in PktRec /\ r.w = pkt[c].w /\ r.sa = Sa(l) /\ r.w.kind = "clear"
      /\ r.esp = EspOut(s, r.w) /\ (r.off <=> s.act \in {"inl_crypto", "inl_proto"})
      /\ r.off \in BOOLEAN
  <2>1. EspOut(s, pkt[c].w) \in EspRecs
    BY <1>2 DEF EspRecs, PktRec
  <2>2. x \in Nat /\ y \in Nat /\ o \in BOOLEAN
    BY <1>7
  <2>3. pkt[c].w.kind = "clear"
    BY <1>2 DEF Fresh
  <2> HIDE DEF x, y, o, s
  <2>4. /\ r \in PktRec /\ r.w = pkt[c].w /\ r.sa = Sa(l) /\ r.esp = EspOut(s, pkt[c].w)
        /\ r.off = o
    BY <1>2, <1>7, <2>1, <2>2 DEF PktRec
  <2>5. r.off <=> s.act \in {"inl_crypto", "inl_proto"}
    BY <2>4 DEF o
  <2> HIDE DEF r
  <2> QED
    BY <2>2, <2>3, <2>4, <2>5
<1>10. Tagged(env, r) /\ EspMade(r) /\ Built(env, r)
  BY <1>1, <1>2, <1>9 DEF Tagged, EspMade, Built
<1>11. /\ r.esp # NoEsp /\ r.esp.v = OuterFam(s, r.w) /\ SaFam(s) \in Fam
       /\ OuterFam(s, r.w) \in Fam
  BY <1>2, <1>9, FamFacts
<1> HIDE DEF c, r
<1>12. /\ pkt' \in Seq(PktRec) /\ Len(pkt') = Len(pkt)
  BY <1>1, <1>2, <1>5, <1>6, <1>9, SetPkt
<1>13. "xform" \in Labels
  BY DEF Labels
<1>14. /\ pc' \in [Lcores -> Labels] /\ ipsec' \in [Lcores -> Entries]
       /\ pc'[l] = "xform" /\ ipsec'[l] = Tail(ipsec[l])
  BY <1>2, <1>4, <1>6, <1>13
<1>15. CASE s.act \in {"none", "la_proto"} /\ crypto' = [crypto EXCEPT ![l] = crypto[l] \cup {c}]
            /\ ip' = ip
  <2>1. Encrypting(env, r)
    BY <1>1, <1>9, <1>10, <1>15 DEF Encrypting
  <2>2. crypto[l] \cup {c} \in SUBSET Ids
    BY <1>2, <1>4
  <2>3. crypto' \in [Lcores -> SUBSET Ids]
    BY <1>4, <1>15, <2>2
  <2>4. OutShape'
    BY <1>1, <1>4, <1>6, <1>8, <1>12, <1>14, <1>15, <2>3, ShapeStep
  <2>5. Only(l)
    BY <1>4, <1>6, <1>15 DEF Only
  <2>6. /\ \A v \in Fam : Ran(ip'[l][v]) = Ran(ip[l][v]) \cup {i \in {c} : "crypto" = v}
        /\ Ran(ol'[l]) = Ran(ol[l]) \cup {i \in {c} : "crypto" = "ol"}
        /\ crypto'[l] = crypto[l] \cup {i \in {c} : "crypto" = "crypto"}
    BY <1>4, <1>6, <1>15, PlaceFacts
  <2> QED
    BY <1>1, <1>5, <1>6, <1>9, <1>10, <1>14, <2>1, <2>4, <2>5, <2>6, PlaceFacts, HeadLeaves DEF c
<1>16. CASE s.act \in {"inl_crypto", "inl_proto", "cpu"} /\ crypto' = crypto
            /\ ip' = [ip EXCEPT ![l][TrfFam(Rec(l), Wp(l))] = Append(@, c)]
  <2>1. PICK f \in Fam : f = SaFam(s)
    BY <1>11
  <2>2. TrfFam(Rec(l), Wp(l)) = f
    BY <2>1 DEF TrfFam, Rec
  <2>3. ip' = [ip EXCEPT ![l] = [ip[l] EXCEPT ![f] = Append(ip[l][f], c)]]
    BY <1>16, <2>2
  <2>4. Append(ip[l][f], c) \in Lists /\ Ran(Append(ip[l][f], c)) = Ran(ip[l][f]) \cup {c}
    BY <1>2, <1>4, RanAppend DEF Lists
  <2>5. [ip[l] EXCEPT ![f] = Append(ip[l][f], c)] \in [Fam -> Lists]
    BY <1>4, <2>4
  <2>6. ip' \in [Lcores -> [Fam -> Lists]]
    BY <1>4, <2>3, <2>5
  <2>7. OutShape'
    BY <1>1, <1>4, <1>6, <1>8, <1>12, <1>14, <1>16, <2>6, ShapeStep
  <2>8. Only(l)
    BY <1>4, <1>6, <1>16, <2>3 DEF Only
  <2>9. \A v \in Fam : Ran(ip'[l][v]) = Ran(ip[l][v]) \cup {i \in {c} : f = v}
    <3> SUFFICES ASSUME NEW v \in Fam
                 PROVE  Ran(ip'[l][v]) = Ran(ip[l][v]) \cup {i \in {c} : f = v}
      OBVIOUS
    <3>1. ip'[l] = [ip[l] EXCEPT ![f] = Append(ip[l][f], c)]
      BY <1>4, <2>3
    <3>2. CASE v = f
      BY <1>4, <2>4, <3>1, <3>2
    <3>3. CASE v # f
      BY <1>4, <3>1, <3>3
    <3> QED
      BY <3>2, <3>3
  <2>10. /\ Ran(ol'[l]) = Ran(ol[l]) \cup {i \in {c} : f = "ol"}
         /\ crypto'[l] = crypto[l] \cup {i \in {c} : f = "crypto"}
    BY <1>6, <1>16, PlaceFacts
  <2>11. Ready(env, r, f)
    <3> DEFINE d == DueIn(env, r.w)
    <3>1. d = Sa(l) /\ d # NoSa /\ d \in Sas /\ r.sa = d /\ r.w.kind # "esp" /\ SaRec[d] = s
      BY <1>2, <1>9, OutAssumption
    <3> HIDE DEF d, s
    <3>2. (SaRec[d].act = "inl_crypto" \/ SaRec[d].act = "cpu") =>
             r.esp # NoEsp /\ ((SaRec[d].act = "inl_crypto") <=> r.off)
      BY <1>9, <1>11, <3>1
    <3>3. Ver(r) = OuterFam(s, r.w)
      BY <1>11 DEF Ver
    <3>4. MixedIn(env, d, r.w) \/ f = Ver(r)
      BY <2>1, <3>1, <3>3 DEF MixedIn, OuterFam
    <3>5. SaRec[d].act \in {"inl_crypto", "inl_proto", "cpu"}
      BY <1>16, <3>1
    <3> QED
      BY <3>1, <3>2, <3>4, <3>5 DEF Ready, d
  <2>12. f \in {"free", "v4", "v6", "ol", "crypto"} /\ f # "ol" /\ f # "crypto"
    BY PlaceFacts
  <2> QED
    BY <1>1, <1>5, <1>6, <1>9, <1>10, <1>14, <2>7, <2>8, <2>9, <2>10, <2>11, <2>12, HeadLeaves, ZenonT(30) DEF c
<1> QED
  BY <1>15, <1>16 DEF LibPut, Rec, c
-----------------------------------------------------------------------------
(* The empty lists of a lcore. *)
LEMMA NoPktsFacts ==
  /\ NoPkts \in [Fam -> Lists] /\ Ran(NoPkts["v4"]) = {} /\ Ran(NoPkts["v6"]) = {}
  /\ \A v \in Fam : Ran(NoPkts[v]) = {}
  BY RanEmpty DEF NoPkts, Lists, Fam

(* ip_v reads the version of the packet. *)
LEMMA IpVIsVer == \A i : IpV(i) = Ver(pkt[i])
  BY DEF IpV, Ver

(* The version of a packet that is listed or queued is a family. *)
LEMMA VerFam ==
  ASSUME OutShape, NEW i \in DOMAIN pkt, Built(env, pkt[i])
  PROVE  Ver(pkt[i]) \in Fam
<1>1. /\ pkt[i] \in PktRec /\ PktOK(pkt[i].w) /\ \A s \in Sas : SaOK(SaRec[s])
  BY OutFacts
<1>2. pkt[i].w.v \in Fam /\ pkt[i].sa \in Sas \cup {NoSa}
  BY <1>1 DEF PktOK, Fam, PktRec
<1>3. pkt[i].esp # NoEsp => pkt[i].esp.v \in Fam
  BY <1>1, FamFacts DEF Built, EspMade
<1>4. pkt[i].sa # NoSa => OuterFam(SaRec[pkt[i].sa], pkt[i].w) \in Fam
  BY <1>1, <1>2, FamFacts
<1> QED
  BY <1>2, <1>3, <1>4 DEF Ver

(* A lcore that has received nothing goes on to drain. *)
LEMMA IdleMoves ==
  ASSUME OutInv, NEW l \in Lcores, Idle(l)
  PROVE  Moves(l) /\ OutShape'
<1>1. OutShape /\ pc[l] = "rx" /\ OncePlaced(l) /\ Control(l) /\ Facts(l) /\ Mine(l) \subseteq DOMAIN pkt
  BY DEF OutInv, Places, Idle
<1>4. /\ ipsec \in [Lcores -> Entries] /\ pkt \in Seq(PktRec)
      /\ pc \in [Lcores -> Labels] /\ Len(pkt) <= env.max
      /\ ip \in [Lcores -> [Fam -> Lists]]
      /\ ol \in [Lcores -> Lists] /\ crypto \in [Lcores -> SUBSET Ids]
      /\ seq \in [Sas -> Nat] /\ tmp \in [Lcores -> Nat]
      /\ sent \subseteq Ids \X Fam /\ overlap \subseteq Sas
  BY <1>1, Types
<1>5. /\ env' = env /\ pkt' = pkt /\ ip' = ip /\ ipsec' = ipsec /\ ol' = ol /\ crypto' = crypto
      /\ seq' = seq /\ tmp' = tmp /\ sent' = sent /\ overlap' = overlap
      /\ pc' = [pc EXCEPT ![l] = "drain"]
  BY DEF Idle, data, Goto
<1>6. pc'[l] = "drain" /\ Only(l)
  BY <1>4, <1>5 DEF Only
<1>7. OutShape'
  BY <1>1, <1>4, <1>5, ShapeStep DEF Labels
<1>8. Listed(l)' = Listed(l) /\ Mine(l)' = Mine(l)
  BY <1>5 DEF Listed, Mine
<1>9. OncePlaced(l)' /\ Control(l)'
  BY <1>1, <1>5, <1>6, <1>8 DEF OncePlaced, Control, Inside
<1>10. Facts(l)'
  BY <1>1, <1>5, <1>6 DEF Facts, InEsp
<1>11. \A i \in DOMAIN pkt' : Built(env, pkt'[i])
  BY <1>5 DEF OutInv
<1> QED
  BY <1>1, <1>5, <1>6, <1>7, <1>8, <1>9, <1>10, <1>11, OutFacts DEF Moves

(* What is routed leaves both lists and was not sent before. *)
LEMMA RouteMoves ==
  ASSUME OutInv, NEW l \in Lcores, Route(l)
  PROVE  Moves(l) /\ OutShape'
<1>1. OutShape /\ pc[l] = "route" /\ OncePlaced(l) /\ Control(l) /\ Facts(l) /\ Mine(l) \subseteq DOMAIN pkt
  BY DEF OutInv, Places, Route
<1>4. /\ ipsec \in [Lcores -> Entries] /\ pkt \in Seq(PktRec)
      /\ pc \in [Lcores -> Labels] /\ Len(pkt) <= env.max
      /\ ip \in [Lcores -> [Fam -> Lists]]
      /\ ol \in [Lcores -> Lists] /\ crypto \in [Lcores -> SUBSET Ids]
      /\ seq \in [Sas -> Nat] /\ tmp \in [Lcores -> Nat]
      /\ sent \subseteq Ids \X Fam /\ overlap \subseteq Sas
  BY <1>1, Types
<1>5. /\ env' = env /\ pkt' = pkt /\ ipsec' = ipsec /\ ol' = ol /\ crypto' = crypto
      /\ seq' = seq /\ tmp' = tmp /\ overlap' = overlap
      /\ pc' = [pc EXCEPT ![l] = "drain"] /\ ip' = [ip EXCEPT ![l] = NoPkts]
  BY DEF Route, Goto
<1>6. pc'[l] = "drain" /\ Only(l) /\ ip'[l] = NoPkts
  BY <1>4, <1>5 DEF Only
<1>7. /\ sent \subseteq sent'
      /\ \A x \in sent' : x \notin sent => \E v \in Fam : \E k \in DOMAIN ip[l][v] : x = <<ip[l][v][k], v>>
  BY DEF Route
<1>8. \A x \in sent' : x \notin sent =>
        x[2] \in Fam /\ x[1] \in Ran(ip[l][x[2]]) /\ x = <<x[1], x[2]>>
  BY <1>7 DEF Ran
<1>9. \A v \in Fam : Ran(ip[l][v]) \subseteq Ids /\ Ran(ip[l][v]) \subseteq Listed(l)
  BY <1>4 DEF Ran, Lists, Listed, Fam
<1>10. sent' \subseteq Ids \X Fam
  BY <1>4, <1>8, <1>9
<1>11. ip' \in [Lcores -> [Fam -> Lists]] /\ pc' \in [Lcores -> Labels]
  BY <1>4, <1>5, NoPktsFacts DEF Labels
<1>12. OutShape'
  BY <1>1, <1>4, <1>5, <1>10, <1>11, ShapeStep
<1>13. Listed(l)' = {}
  BY <1>6, NoPktsFacts DEF Listed
<1>14. Mine(l)' = Firsts(ipsec[l]) \cup Ran(ol[l]) \cup crypto[l]
  BY <1>5, <1>13 DEF Mine
<1>15. ipsec[l] = <<>> /\ ol[l] = <<>>
  BY <1>1 DEF Control
<1>16. OncePlaced(l)'
  BY <1>1, <1>5, <1>6, <1>13, <1>15, RanEmpty, NoPktsFacts DEF OncePlaced, Apart
<1>17. Control(l)'
  BY <1>5, <1>6, <1>15 DEF Control, Inside
<1>18. Facts(l)'
  BY <1>1, <1>5, <1>6, <1>15, NoPktsFacts, RanEmpty DEF Facts, InEsp
<1>19. \A i \in DOMAIN pkt' : Built(env, pkt'[i])
  BY <1>5 DEF OutInv
<1>20. \A x \in sent' : x \notin sent =>
         x[1] \in Mine(l) /\ x[1] \notin Mine(l)' /\ Ready(env, pkt'[x[1]], x[2])
  <2> SUFFICES ASSUME NEW x \in sent', x \notin sent
               PROVE  x[1] \in Mine(l) /\ x[1] \notin Mine(l)' /\ Ready(env, pkt'[x[1]], x[2])
    OBVIOUS
  <2>1. x[2] \in Fam /\ x[1] \in Ran(ip[l][x[2]]) /\ x[1] \in Listed(l)
    BY <1>8, <1>9
  <2>2. Ready(env, pkt[x[1]], x[2])
    BY <1>1, <2>1 DEF Facts
  <2> QED
    BY <1>1, <1>5, <1>14, <1>15, <2>1, <2>2, RanEmpty DEF Mine, OncePlaced, Apart
<1>21. \A x, y \in sent' : x \notin sent /\ y \notin sent /\ x[1] = y[1] => x = y
  <2> SUFFICES ASSUME NEW x \in sent', NEW y \in sent', x \notin sent, y \notin sent, x[1] = y[1]
               PROVE  x[2] = y[2]
    BY <1>8
  <2> QED
    BY <1>1, <1>8 DEF OncePlaced, Apart, Fam
<1>22. Mine(l)' \subseteq Mine(l)
  BY <1>14 DEF Mine
<1> QED
  BY <1>1, <1>5, <1>6, <1>7, <1>12, <1>16, <1>17, <1>18, <1>19, <1>20, <1>21, <1>22, OutFacts DEF Moves

(* What a device returns. *)
LEMMA DrainReady ==
  ASSUME OutInv, NEW i \in DOMAIN pkt, Encrypting(env, pkt[i])
  PROVE  DrainFam(i) \in Fam /\ Ready(env, pkt[i], DrainFam(i))
<1> DEFINE p == pkt[i]
           s == SaRec[p.sa]
<1>1. /\ OutShape /\ Built(env, p)
  BY DEF OutInv
<1>2. /\ p.w.kind = "clear" /\ p.sa = DueIn(env, p.w) /\ p.sa \in Sas /\ p.sa # NoSa /\ p.off = FALSE
  BY OutAssumption DEF Encrypting, Tagged
<1>3. SaOK(s) /\ PktOK(p.w)
  BY <1>1, <1>2, OutFacts
<1>4. EspOut(s, p.w).v = OuterFam(s, p.w) /\ EspOut(s, p.w) # NoEsp /\ SaFam(s) \in Fam
  BY <1>3, FamFacts
<1>5. Ver(p) \in Fam /\ IpV(i) = Ver(p)
  BY <1>1, VerFam, IpVIsVer
<1>6. DrainFam(i) = (IF env.lib = "off" THEN Ver(p) ELSE SaFam(s))
  BY <1>5 DEF DrainFam, TrfFam
<1>7. env.lib # "off" => Ver(p) = OuterFam(s, p.w)
  BY <1>4 DEF Ver, Encrypting, EspMade
<1>8. MixedIn(env, p.sa, p.w) \/ DrainFam(i) = Ver(p)
  BY <1>2, <1>6, <1>7 DEF MixedIn, OuterFam
<1>9. s.act \in {"none", "la_proto"} /\ (s.act = "none" => p.esp # NoEsp)
  BY <1>4 DEF Encrypting, EspMade
<1> QED
  BY <1>2, <1>4, <1>5, <1>6, <1>8, <1>9 DEF Ready

(* What a device returns is routed or freed, and leaves the device. *)
LEMMA DrainMoves ==
  ASSUME OutInv, NEW l \in Lcores, Drain(l)
  PROVE  Moves(l) /\ OutShape'
<1>1. OutShape /\ pc[l] = "drain" /\ OncePlaced(l) /\ Control(l) /\ Facts(l) /\ Mine(l) \subseteq DOMAIN pkt
  BY DEF OutInv, Places, Drain
<1>4. /\ ipsec \in [Lcores -> Entries] /\ pkt \in Seq(PktRec)
      /\ pc \in [Lcores -> Labels] /\ Len(pkt) <= env.max
      /\ ip \in [Lcores -> [Fam -> Lists]]
      /\ ol \in [Lcores -> Lists] /\ crypto \in [Lcores -> SUBSET Ids]
      /\ seq \in [Sas -> Nat] /\ tmp \in [Lcores -> Nat]
      /\ sent \subseteq Ids \X Fam /\ overlap \subseteq Sas
  BY <1>1, Types
<1>5. /\ env' = env /\ pkt' = pkt /\ ip' = ip /\ ipsec' = ipsec /\ ol' = ol
      /\ seq' = seq /\ tmp' = tmp /\ overlap' = overlap /\ pc' = [pc EXCEPT ![l] = "rx"]
  BY DEF Drain, Goto
<1>6. PICK D \in SUBSET crypto[l] : \E ok \in SUBSET D :
        /\ crypto' = [crypto EXCEPT ![l] = crypto[l] \ D]
        /\ sent' = sent \cup {<<i, DrainFam(i)>> : i \in ok}
  BY DEF Drain
<1>7. PICK ok \in SUBSET D : sent' = sent \cup {<<i, DrainFam(i)>> : i \in ok}
  BY <1>6
<1>8. crypto' = [crypto EXCEPT ![l] = crypto[l] \ D]
  BY <1>6
<1>9. pc'[l] = "rx" /\ Only(l) /\ crypto'[l] = crypto[l] \ D
  BY <1>4, <1>5, <1>8 DEF Only
<1>10. \A i \in ok : i \in crypto[l] /\ i \in Ids /\ i \in Mine(l) /\ i \in DOMAIN pkt
  BY <1>1, <1>4, <1>7 DEF Mine
<1>11. \A i \in ok : DrainFam(i) \in Fam /\ Ready(env, pkt[i], DrainFam(i))
  BY <1>1, <1>10, DrainReady DEF Facts
<1>12. sent' \subseteq Ids \X Fam
  BY <1>4, <1>7, <1>10, <1>11
<1>13. crypto' \in [Lcores -> SUBSET Ids] /\ pc' \in [Lcores -> Labels]
  <2>1. crypto[l] \ D \in SUBSET Ids
    BY <1>4
  <2> QED
    BY <1>4, <1>5, <1>8, <2>1 DEF Labels
<1>14. OutShape'
  BY <1>1, <1>4, <1>5, <1>12, <1>13, ShapeStep
<1>15. Listed(l)' = Listed(l)
  BY <1>5 DEF Listed
<1>16. Mine(l)' = Listed(l) \cup Firsts(ipsec[l]) \cup Ran(ol[l]) \cup (crypto[l] \ D)
  BY <1>5, <1>9, <1>15 DEF Mine
<1>17. OncePlaced(l)'
  BY <1>1, <1>5, <1>9, <1>15 DEF OncePlaced, Apart
<1>18. Control(l)'
  BY <1>1, <1>5, <1>9 DEF Control, Inside
<1>19. Facts(l)'
  BY <1>1, <1>5, <1>9 DEF Facts, InEsp
<1>20. \A i \in DOMAIN pkt' : Built(env, pkt'[i])
  BY <1>5 DEF OutInv
<1>21. \A x \in sent' : x \notin sent => \E i \in ok : x = <<i, DrainFam(i)>>
  BY <1>7
<1>22. \A x \in sent' : x \notin sent =>
         x[1] \in Mine(l) /\ x[1] \notin Mine(l)' /\ Ready(env, pkt'[x[1]], x[2])
  <2> SUFFICES ASSUME NEW i \in ok
               PROVE  i \in Mine(l) /\ i \notin Mine(l)' /\ Ready(env, pkt'[i], DrainFam(i))
    BY <1>21
  <2>1. i \in D /\ i \in crypto[l]
    BY <1>7, <1>10
  <2>2. i \notin Listed(l) \cup Firsts(ipsec[l]) \cup Ran(ol[l])
    BY <1>1, <2>1 DEF OncePlaced, Apart
  <2> QED
    BY <1>5, <1>10, <1>11, <1>16, <2>1, <2>2
<1>23. \A x, y \in sent' : x \notin sent /\ y \notin sent /\ x[1] = y[1] => x = y
  BY <1>21
<1>24. Mine(l)' \subseteq Mine(l)
  BY <1>16 DEF Mine
<1>25. sent \subseteq sent'
  BY <1>7
<1> QED
  BY <1>1, <1>5, <1>9, <1>14, <1>17, <1>18, <1>19, <1>20, <1>22, <1>23, <1>24, <1>25, OutFacts DEF Moves
-----------------------------------------------------------------------------
(* Both lists of a lcore are replaced. *)
LEMMA TwoLists ==
  ASSUME OutShape, NEW l \in Lcores, NEW s4 \in Lists, NEW s6 \in Lists,
         ip' = [ip EXCEPT ![l] = [ip[l] EXCEPT !["v4"] = s4, !["v6"] = s6]]
  PROVE  /\ ip' \in [Lcores -> [Fam -> Lists]]
         /\ ip'[l]["v4"] = s4 /\ ip'[l]["v6"] = s6
         /\ \A m \in Lcores \ {l} : ip'[m] = ip[m]
<1>1. ip \in [Lcores -> [Fam -> Lists]]
  BY Types
<1> DEFINE q == [ip[l] EXCEPT !["v4"] = s4, !["v6"] = s6]
<1>2. q \in [Fam -> Lists] /\ q["v4"] = s4 /\ q["v6"] = s6
  BY <1>1 DEF Fam
<1>3. ip' = [ip EXCEPT ![l] = q]
  OBVIOUS
<1> HIDE DEF q
<1> QED
  BY <1>1, <1>2, <1>3

(* The policy lookup splits both lists into passed and protected packets. *)
LEMMA SpdMoves ==
  ASSUME OutInv, NEW l \in Lcores, Spd(l)
  PROVE  Moves(l) /\ OutShape'
<1>1. OutShape /\ pc[l] = "spd" /\ OncePlaced(l) /\ Control(l) /\ Facts(l) /\ Mine(l) \subseteq DOMAIN pkt
  BY DEF OutInv, Places, Spd
<1>4. /\ ipsec \in [Lcores -> Entries] /\ pkt \in Seq(PktRec)
      /\ pc \in [Lcores -> Labels] /\ Len(pkt) <= env.max
      /\ ip \in [Lcores -> [Fam -> Lists]]
      /\ ol \in [Lcores -> Lists] /\ crypto \in [Lcores -> SUBSET Ids]
      /\ seq \in [Sas -> Nat] /\ tmp \in [Lcores -> Nat]
      /\ sent \subseteq Ids \X Fam /\ overlap \subseteq Sas
  BY <1>1, Types
<1>5. /\ env' = env /\ pkt' = pkt /\ ol' = ol /\ crypto' = crypto /\ sent' = sent
      /\ seq' = seq /\ tmp' = tmp /\ overlap' = overlap /\ pc' = [pc EXCEPT ![l] = "xform"]
  BY DEF Spd, Goto
<1> DEFINE both == ip[l]["v4"] \o ip[l]["v6"]
<1>6. PICK P \in Kept(both, ToProtect(l)) :
        ipsec' = [ipsec EXCEPT ![l] = [k \in DOMAIN P |-> <<P[k], SaFor(P[k])>>]]
  BY DEF Spd
<1>7. PICK s4 \in Kept(ip[l]["v4"], ToPass(l, "v4")), s6 \in Kept(ip[l]["v6"], ToPass(l, "v6")) :
        ip' = [ip EXCEPT ![l] = [ip[l] EXCEPT !["v4"] = s4, !["v6"] = s6]]
  BY DEF Spd
<1>8. ip[l]["v4"] \in Seq(Ids) /\ ip[l]["v6"] \in Seq(Ids) /\ "v4" \in Fam /\ "v6" \in Fam
  BY <1>4 DEF Lists, Fam
<1>9. Ran(ip[l]["v4"]) \subseteq Ids /\ Ran(ip[l]["v6"]) \subseteq Ids
  BY <1>8 DEF Ran
<1>10. both \in Seq(Ids) /\ Ran(both) = Listed(l) /\ Ran(both) \subseteq Ids
  BY <1>8, <1>9, RanConcat DEF Listed
<1>11. P \in Seq(Ids) /\ Ran(P) = Listed(l) \cap ToProtect(l) /\ Once(P)
  BY <1>10, IdsFinite, KeptFacts
<1>12. s4 \in Lists /\ Ran(s4) = Ran(ip[l]["v4"]) \cap ToPass(l, "v4")
  BY <1>9, IdsFinite, KeptFacts DEF Lists
<1>13. s6 \in Lists /\ Ran(s6) = Ran(ip[l]["v6"]) \cap ToPass(l, "v6")
  BY <1>9, IdsFinite, KeptFacts DEF Lists
<1>14. /\ ip' \in [Lcores -> [Fam -> Lists]] /\ ip'[l]["v4"] = s4 /\ ip'[l]["v6"] = s6
       /\ \A m \in Lcores \ {l} : ip'[m] = ip[m]
  BY <1>1, <1>7, <1>12, <1>13, TwoLists
<1>15. \A v \in Fam : \A i \in Ran(ip[l][v]) : Fresh(pkt[i]) /\ pkt[i].w.v = v
  BY <1>1 DEF Facts
<1>16. \A i \in Ran(P) : Fresh(pkt[i]) /\ SaFor(i) = DueIn(env, pkt[i].w) /\ SaFor(i) \in Sas
  <2> SUFFICES ASSUME NEW i \in Ran(P)
               PROVE  Fresh(pkt[i]) /\ SaFor(i) = DueIn(env, pkt[i].w) /\ SaFor(i) \in Sas
    OBVIOUS
  <2>1. i \in Listed(l) /\ i \in ToProtect(l)
    BY <1>11
  <2>2. Fresh(pkt[i])
    BY <1>15, <2>1 DEF Listed, Fam
  <2>3. env.single \in Sas \cup {NoSa}
    BY <1>1, OutFacts DEF EnvOK
  <2>4. CASE env.single # NoSa
    BY <2>2, <2>3, <2>4 DEF SaFor, DueIn
  <2>5. CASE env.single = NoSa
    BY <2>1, <2>2, <2>5 DEF SaFor, DueIn, ToProtect, Protect, Rule
  <2> QED
    BY <2>4, <2>5
<1>17. ASSUME NEW v \in Fam, NEW i \in Ran(ip'[l][v])
       PROVE  i \in Ran(ip[l][v]) /\ i \notin ToProtect(l) /\ Ready(env, pkt[i], v)
  <2>1. i \in Ran(ip[l][v]) /\ i \in ToPass(l, v)
    BY <1>12, <1>13, <1>14 DEF Fam
  <2>2. Fresh(pkt[i]) /\ pkt[i].w.v = v
    BY <1>15, <2>1
  <2>3. env.single = NoSa /\ (v \notin env.sp \/ pkt[i].w.rule = BYPASS)
    BY <2>1 DEF ToPass, Passes, Rule
  <2>4. DueIn(env, pkt[i].w) = NoSa
    BY <2>2, <2>3, OutAssumption DEF DueIn
  <2>5. i \notin ToProtect(l)
    BY <2>2, <2>3, OutAssumption DEF ToProtect, Protect, Rule
  <2>6. Ver(pkt[i]) = v
    BY <2>2 DEF Ver, Fresh
  <2> QED
    BY <2>1, <2>2, <2>3, <2>4, <2>5, <2>6 DEF Ready, Fresh
<1> DEFINE g == [k \in DOMAIN P |-> SaFor(P[k])]
           q == [k \in DOMAIN P |-> <<P[k], g[k]>>]
<1>18. \A k \in DOMAIN P : P[k] \in Ran(P) /\ g[k] = SaFor(P[k])
  BY DEF Ran
<1>19. g \in [DOMAIN P -> Sas \cup {NoSa}]
  BY <1>16, <1>18
<1>20. ipsec' = [ipsec EXCEPT ![l] = q]
  BY <1>6
<1>21. /\ q \in Entries /\ Firsts(q) = Ran(P) /\ DOMAIN q = DOMAIN P
       /\ \A m, n \in DOMAIN q : q[m][1] = q[n][1] => m = n
       /\ \A n \in DOMAIN q : q[n][1] = P[n] /\ q[n][2] = g[n]
  <2>1. \A k \in DOMAIN P : P[k] \in Ids /\ g[k] \in Sas \cup {NoSa}
    BY <1>11, <1>19
  <2>2. q \in [DOMAIN P -> Ids \X (Sas \cup {NoSa})]
    BY <2>1
  <2>3. \A n \in DOMAIN P : q[n][1] = P[n] /\ q[n][2] = g[n]
    OBVIOUS
  <2> HIDE DEF g, q
  <2> QED
    <3>1. /\ q \in Seq(Ids \X (Sas \cup {NoSa})) /\ Firsts(q) = Ran(P)
          /\ \A m, n \in DOMAIN q : q[m][1] = q[n][1] => m = n
      BY <1>11, <2>2, <2>3, PairUp
    <3>2. DOMAIN q = DOMAIN P
      BY <2>2
    <3> QED
      BY <2>3, <3>1, <3>2 DEF Entries
<1> HIDE DEF g, q, both
<1>22. ipsec' \in [Lcores -> Entries] /\ ipsec'[l] = q /\ pc' \in [Lcores -> Labels] /\ pc'[l] = "xform"
       /\ \A m \in Lcores \ {l} : ipsec'[m] = ipsec[m]
  BY <1>4, <1>5, <1>20, <1>21 DEF Labels
<1>23. OutShape'
  BY <1>1, <1>4, <1>5, <1>14, <1>22, ShapeStep
<1>24. Only(l)
  BY <1>4, <1>5, <1>14, <1>22 DEF Only
<1>25. Listed(l)' \subseteq Listed(l) /\ Firsts(ipsec'[l]) \subseteq Listed(l)
  BY <1>11, <1>12, <1>13, <1>14, <1>21, <1>22 DEF Listed
<1>26. Mine(l)' \subseteq Mine(l)
  BY <1>5, <1>25 DEF Mine
<1>27. OncePlaced(l)'
  <2>1. \A m, n \in DOMAIN ipsec'[l] : ipsec'[l][m][1] = ipsec'[l][n][1] => m = n
    BY <1>21, <1>22
  <2>2. Apart(Ran(ip'[l]["v4"]), Ran(ip'[l]["v6"]))
    BY <1>1, <1>12, <1>13, <1>14 DEF OncePlaced, Apart
  <2>3. Apart(Listed(l)', Firsts(ipsec'[l]))
    BY <1>8, <1>11, <1>17, <1>21, <1>22 DEF Apart, Listed
  <2>4. ol[l] = <<>> /\ Ran(ol[l]) = {}
    BY <1>1, RanEmpty DEF Control
  <2>5. Apart(Listed(l), crypto[l])
    BY <1>1 DEF OncePlaced, Apart
  <2> QED
    BY <1>5, <1>25, <2>1, <2>2, <2>3, <2>4, <2>5 DEF OncePlaced, Apart
<1>28. Control(l)'
  BY <1>22 DEF Control, Inside
<1>29. Facts(l)'
  <2>1. \A v \in Fam : \A i \in Ran(ip'[l][v]) : Ready(env, pkt[i], v)
    BY <1>17
  <2>2. \A n \in DOMAIN ipsec'[l] : ToXform(env, pkt[ipsec'[l][n][1]], ipsec'[l][n][2], n = 1 /\ InEsp("xform"))
    <3> SUFFICES ASSUME NEW n \in DOMAIN q
                 PROVE  ToXform(env, pkt[q[n][1]], q[n][2], n = 1 /\ InEsp("xform"))
      BY <1>22
    <3>1. q[n][1] = P[n] /\ q[n][2] = SaFor(P[n]) /\ P[n] \in Ran(P)
      BY <1>18, <1>21
    <3> QED
      BY <1>16, <3>1 DEF ToXform, InEsp
  <2> QED
    BY <1>1, <1>5, <1>22, <2>1, <2>2 DEF Facts
<1>30. \A i \in DOMAIN pkt' : Built(env, pkt'[i])
  BY <1>5 DEF OutInv
<1> QED
  BY <1>1, <1>5, <1>23, <1>24, <1>26, <1>27, <1>28, <1>29, <1>30, OutFacts DEF Moves

(* XformEnd marks the packets of ol for the NIC. *)
LEMMA OffFacts ==
  ASSUME OutInv, NEW i \in DOMAIN pkt, Inlining(env, pkt[i]), NEW r, r = [pkt[i] EXCEPT !.off = TRUE]
  PROVE  /\ r \in PktRec /\ r.w = pkt[i].w /\ r.sa = pkt[i].sa /\ r.esp = pkt[i].esp /\ r.off = TRUE
         /\ Ver(r) = IpV(i) /\ Built(env, r) /\ Inlining(env, r)
<1>1. pkt[i] \in PktRec /\ Built(env, pkt[i])
  BY OutFacts DEF OutInv
<1>2. /\ r \in PktRec /\ r.w = pkt[i].w /\ r.sa = pkt[i].sa /\ r.esp = pkt[i].esp /\ r.off = TRUE
  BY <1>1 DEF PktRec
<1>3. Ver(r) = Ver(pkt[i])
  BY <1>2 DEF Ver
<1>4. Built(env, r) /\ Inlining(env, r)
  BY <1>1, <1>2 DEF Built, EspMade, Inlining, Tagged
<1> QED
  BY <1>2, <1>3, <1>4, IpVIsVer

(* What an inline SA sends, in the list of its family or of the first of its burst. *)
LEMMA InlinedReady ==
  ASSUME OutInv, NEW i \in DOMAIN pkt, Inlining(env, pkt[i]), NEW r, r = [pkt[i] EXCEPT !.off = TRUE],
         NEW j \in DOMAIN pkt, Inlining(env, pkt[j]), env.single # NoSa \/ i = j
  PROVE  Ready(env, r, IpV(j))
<1> DEFINE d == DueIn(env, pkt[i].w)
<1>1. OutShape
  BY DEF OutInv
<1>2. /\ r.w = pkt[i].w /\ r.sa = pkt[i].sa /\ r.esp = pkt[i].esp /\ r.off = TRUE
      /\ Ver(r) = IpV(i)
  BY OffFacts
<1>3. /\ pkt[i].sa = d /\ pkt[i].sa \in Sas /\ pkt[i].sa # NoSa /\ r.w.kind = "clear"
      /\ pkt[j].sa \in Sas /\ pkt[j].sa # NoSa
  BY <1>2, OutAssumption DEF Inlining, Tagged
<1>4. pkt[j].sa = pkt[i].sa
  BY DEF Inlining, Tagged, DueIn
<1>5. /\ SaOK(SaRec[d]) /\ PktOK(pkt[i].w) /\ PktOK(pkt[j].w)
  BY <1>1, <1>3, OutFacts
<1>6. SaRec[d].act = "inl_crypto" => r.esp = EspOut(SaRec[d], pkt[i].w) /\ r.esp # NoEsp
  BY <1>2, <1>3, <1>5, FamFacts DEF Inlining, EspMade
<1>7. SaRec[d].act \in {"inl_crypto", "inl_proto"}
  BY <1>3 DEF Inlining
<1>8. MixedIn(env, d, r.w) \/ IpV(j) = Ver(r)
  <2> SUFFICES ASSUME ~MixedIn(env, d, r.w), i # j PROVE IpV(j) = Ver(r)
    BY <1>2
  <2>1. env.single # NoSa
    OBVIOUS
  <2>2. ~IsTransport(SaRec[d]) /\ SaRec[d].act = "inl_crypto"
    BY <1>3, <1>7, <2>1 DEF MixedIn
  <2>3. /\ pkt[i].esp = EspOut(SaRec[d], pkt[i].w) /\ pkt[j].esp = EspOut(SaRec[d], pkt[j].w)
    BY <1>3, <1>4, <2>2 DEF Inlining, EspMade
  <2>4. pkt[i].esp.v = SaFam(SaRec[d]) /\ pkt[j].esp.v = SaFam(SaRec[d])
        /\ pkt[i].esp # NoEsp /\ pkt[j].esp # NoEsp
    BY <1>5, <2>2, <2>3, FamFacts DEF OuterFam
  <2> QED
    BY <1>2, <2>4 DEF IpV
<1> HIDE DEF d
<1>9. DueIn(env, r.w) = d
  BY <1>2 DEF d
<1> QED
  BY <1>2, <1>3, <1>6, <1>7, <1>8, <1>9 DEF Ready
-----------------------------------------------------------------------------
(* What XformEnd adds to the lists of a lcore, v's list becoming s[v]. *)
LEMMA EndLists ==
  ASSUME OutInv, NEW l \in Lcores, XformEnd(l)
  PROVE  /\ ip' \in [Lcores -> [Fam -> Lists]]
         /\ \A m \in Lcores \ {l} : ip'[m] = ip[m]
         /\ \A v \in Fam : Ran(ip'[l][v]) \subseteq Ran(ip[l][v]) \cup Ran(ol[l])
         /\ Apart(Ran(ip'[l]["v4"]), Ran(ip'[l]["v6"]))
         /\ \A v \in Fam : \A i \in Ran(ip'[l][v]) : i \in Ran(ol[l]) =>
              \E j \in Ran(ol[l]) : v = IpV(j) /\ (env.single # NoSa \/ i = j)
<1>1. OutShape /\ OncePlaced(l)
  BY DEF OutInv, Places
<1>4. /\ ipsec \in [Lcores -> Entries] /\ pkt \in Seq(PktRec)
      /\ pc \in [Lcores -> Labels] /\ Len(pkt) <= env.max
      /\ ip \in [Lcores -> [Fam -> Lists]]
      /\ ol \in [Lcores -> Lists] /\ crypto \in [Lcores -> SUBSET Ids]
      /\ seq \in [Sas -> Nat] /\ tmp \in [Lcores -> Nat]
      /\ sent \subseteq Ids \X Fam /\ overlap \subseteq Sas
  BY <1>1, Types
<1> DEFINE r == Inlined(l)
<1>5. ol[l] \in Seq(Ids) /\ r = [k \in DOMAIN ol[l] |-> ol[l][Len(ol[l]) + 1 - k]]
  BY <1>4 DEF Lists, Inlined
<1>6. r \in Lists /\ Ran(r) = Ran(ol[l]) /\ (ol[l] # <<>> => r[1] \in Ran(ol[l])) /\ Ran(r) \subseteq Ids
  <2> HIDE DEF r
  <2>1. r \in Seq(Ids) /\ Ran(r) = Ran(ol[l]) /\ (ol[l] # <<>> => r[1] \in Ran(ol[l]))
    BY <1>5, ReverseFacts
  <2>2. Ran(ol[l]) \subseteq Ids
    BY <1>5 DEF Ran
  <2> QED
    BY <2>1, <2>2 DEF Lists
<1>7. /\ Apart(Ran(ip[l]["v4"]), Ran(ip[l]["v6"]))
      /\ Apart(Ran(ip[l]["v4"]), Ran(ol[l])) /\ Apart(Ran(ip[l]["v6"]), Ran(ol[l]))
  BY <1>1 DEF OncePlaced, Apart, Listed
<1>8. ip[l]["v4"] \in Lists /\ ip[l]["v6"] \in Lists /\ Fam = {"v4", "v6"}
  BY <1>4 DEF Fam
<1>9. CASE env.single = NoSa \/ env.lib # "off"
  <2>1. PICK s4 \in Kept(Inlined(l), OfFam(Ran(ol[l]), "v4")), s6 \in Kept(Inlined(l), OfFam(Ran(ol[l]), "v6")) :
          ip' = [ip EXCEPT ![l] = [@ EXCEPT !["v4"] = ip[l]["v4"] \o s4,
                                       !["v6"] = ip[l]["v6"] \o s6]]
    BY <1>9 DEF XformEnd
  <2>2. s4 \in Seq(Ids) /\ Ran(s4) = Ran(r) \cap OfFam(Ran(ol[l]), "v4")
    BY <1>6, IdsFinite, KeptFacts
  <2>3. s6 \in Seq(Ids) /\ Ran(s6) = Ran(r) \cap OfFam(Ran(ol[l]), "v6")
    BY <1>6, IdsFinite, KeptFacts
  <2> HIDE DEF r
  <2>4. ip[l]["v4"] \o s4 \in Lists /\ Ran(ip[l]["v4"] \o s4) = Ran(ip[l]["v4"]) \cup Ran(s4)
    BY <1>8, <2>2, RanConcat DEF Lists
  <2>5. ip[l]["v6"] \o s6 \in Lists /\ Ran(ip[l]["v6"] \o s6) = Ran(ip[l]["v6"]) \cup Ran(s6)
    BY <1>8, <2>3, RanConcat DEF Lists
  <2>6. /\ ip' \in [Lcores -> [Fam -> Lists]]
        /\ ip'[l]["v4"] = ip[l]["v4"] \o s4 /\ ip'[l]["v6"] = ip[l]["v6"] \o s6
        /\ \A m \in Lcores \ {l} : ip'[m] = ip[m]
    <3> DEFINE t4 == ip[l]["v4"] \o s4
               t6 == ip[l]["v6"] \o s6
    <3>1. ip' = [ip EXCEPT ![l] = [ip[l] EXCEPT !["v4"] = t4, !["v6"] = t6]]
      BY <2>1
    <3>2. t4 \in Lists /\ t6 \in Lists
      BY <2>4, <2>5
    <3> HIDE DEF t4, t6
    <3>3. /\ ip' \in [Lcores -> [Fam -> Lists]] /\ ip'[l]["v4"] = t4 /\ ip'[l]["v6"] = t6
          /\ \A m \in Lcores \ {l} : ip'[m] = ip[m]
      BY <1>1, <3>1, <3>2, TwoLists
    <3> QED
      BY <3>3 DEF t4, t6
  <2>7. /\ Ran(ip'[l]["v4"]) = Ran(ip[l]["v4"]) \cup {i \in Ran(ol[l]) : IpV(i) = "v4"}
        /\ Ran(ip'[l]["v6"]) = Ran(ip[l]["v6"]) \cup {i \in Ran(ol[l]) : IpV(i) = "v6"}
    BY <1>6, <2>2, <2>3, <2>4, <2>5, <2>6 DEF OfFam
  <2>8. Apart(Ran(ip'[l]["v4"]), Ran(ip'[l]["v6"]))
    <3>1. \A i : i \in Ran(ip[l]["v4"]) => i \notin Ran(ip[l]["v6"]) /\ i \notin Ran(ol[l])
      BY <1>7 DEF Apart
    <3>2. \A i : i \in Ran(ip[l]["v6"]) => i \notin Ran(ol[l])
      BY <1>7 DEF Apart
    <3>3. "v4" # "v6"
      OBVIOUS
    <3> QED
      BY <2>7, <3>1, <3>2, <3>3 DEF Apart
  <2>9. \A v \in Fam : Ran(ip'[l][v]) \subseteq Ran(ip[l][v]) \cup Ran(ol[l])
    BY <1>8, <2>7
  <2>10. ASSUME NEW v \in Fam, NEW i \in Ran(ip'[l][v]), i \in Ran(ol[l])
         PROVE  v = IpV(i)
    <3>1. i \notin Ran(ip[l]["v4"]) /\ i \notin Ran(ip[l]["v6"])
      BY <1>7, <2>10 DEF Apart
    <3>2. CASE v = "v4"
      BY <2>7, <2>10, <3>1, <3>2
    <3>3. CASE v = "v6"
      BY <2>7, <2>10, <3>1, <3>3
    <3> QED
      BY <1>8, <3>2, <3>3
  <2> QED
    BY <2>6, <2>8, <2>9, <2>10
<1>10. CASE env.single # NoSa /\ env.lib = "off"
  <2>1. PICK f \in SingleFam(l) : ip' = [ip EXCEPT ![l] = [ip[l] EXCEPT ![f] = r]]
    BY <1>10 DEF XformEnd
  <2>2. ol[l] # <<>> => f = IpV(r[1]) /\ r[1] \in Ran(ol[l])
    BY <1>6, <2>1 DEF SingleFam
  <2>3. f \in Fam
    <3>1. CASE ol[l] = <<>>
      BY <2>1, <3>1 DEF SingleFam
    <3>2. CASE ol[l] # <<>>
      <4>1. r[1] \in DOMAIN pkt
        BY <2>2, <3>2 DEF OutInv, Places, Mine
      <4> QED
        BY <1>1, <2>2, <3>2, <4>1, VerFam, IpVIsVer DEF OutInv
    <3> QED
      BY <3>1, <3>2
  <2> HIDE DEF r
  <2> DEFINE q == [ip[l] EXCEPT ![f] = r]
  <2>4. /\ q \in [Fam -> Lists] /\ q[f] = r
        /\ \A v \in Fam : v # f => q[v] = ip[l][v]
    BY <1>4, <1>6, <2>3
  <2>5. ip' = [ip EXCEPT ![l] = q]
    BY <2>1
  <2> HIDE DEF q
  <2>6. /\ ip' \in [Lcores -> [Fam -> Lists]] /\ ip'[l] = q
        /\ \A m \in Lcores \ {l} : ip'[m] = ip[m]
    BY <1>4, <2>4, <2>5
  <2>7. \A v \in Fam : Ran(ip'[l][v]) = IF v = f THEN Ran(ol[l]) ELSE Ran(ip[l][v])
    BY <1>6, <2>4, <2>6
  <2>8. Apart(Ran(ip'[l]["v4"]), Ran(ip'[l]["v6"]))
    BY <1>7, <1>8, <2>3, <2>7 DEF Apart
  <2>9. \A v \in Fam : Ran(ip'[l][v]) \subseteq Ran(ip[l][v]) \cup Ran(ol[l])
    BY <2>7
  <2>10. ASSUME NEW v \in Fam, NEW i \in Ran(ip'[l][v]), i \in Ran(ol[l])
         PROVE  \E j \in Ran(ol[l]) : v = IpV(j)
    <3>1. v = f
      BY <1>7, <1>8, <2>7, <2>10 DEF Apart
    <3>2. ol[l] # <<>>
      BY <2>10, RanEmpty
    <3> QED
      BY <2>2, <3>1, <3>2
  <2> QED
    BY <1>10, <2>6, <2>8, <2>9, <2>10
<1> QED
  BY <1>9, <1>10

(* The packets of ol join the lists that are routed. *)
LEMMA XformEndMoves ==
  ASSUME OutInv, NEW l \in Lcores, XformEnd(l)
  PROVE  Moves(l) /\ OutShape'
<1>1. /\ OutShape /\ pc[l] = "xform" /\ ipsec[l] = <<>> /\ OncePlaced(l) /\ Control(l) /\ Facts(l)
      /\ Mine(l) \subseteq DOMAIN pkt
  BY DEF OutInv, Places, XformEnd
<1>4. /\ ipsec \in [Lcores -> Entries] /\ pkt \in Seq(PktRec)
      /\ pc \in [Lcores -> Labels] /\ Len(pkt) <= env.max
      /\ ip \in [Lcores -> [Fam -> Lists]]
      /\ ol \in [Lcores -> Lists] /\ crypto \in [Lcores -> SUBSET Ids]
      /\ seq \in [Sas -> Nat] /\ tmp \in [Lcores -> Nat]
      /\ sent \subseteq Ids \X Fam /\ overlap \subseteq Sas
  BY <1>1, Types
<1>5. /\ env' = env /\ ipsec' = ipsec /\ crypto' = crypto /\ seq' = seq /\ tmp' = tmp /\ sent' = sent
      /\ overlap' = overlap /\ pc' = [pc EXCEPT ![l] = "route"] /\ ol' = [ol EXCEPT ![l] = <<>>]
      /\ pkt' = [i \in DOMAIN pkt |->
           IF i \in Ran(ol[l]) THEN [pkt[i] EXCEPT !.off = TRUE] ELSE pkt[i]]
  BY DEF XformEnd, Goto
<1>6. /\ ip' \in [Lcores -> [Fam -> Lists]]
      /\ \A m \in Lcores \ {l} : ip'[m] = ip[m]
      /\ \A v \in Fam : Ran(ip'[l][v]) \subseteq Ran(ip[l][v]) \cup Ran(ol[l])
      /\ Apart(Ran(ip'[l]["v4"]), Ran(ip'[l]["v6"]))
      /\ \A v \in Fam : \A i \in Ran(ip'[l][v]) : i \in Ran(ol[l]) =>
           \E j \in Ran(ol[l]) : v = IpV(j) /\ (env.single # NoSa \/ i = j)
  BY EndLists
<1>7. \A i \in Ran(ol[l]) : i \in DOMAIN pkt /\ i \in Mine(l) /\ Inlining(env, pkt[i])
  BY <1>1 DEF Mine, Facts
<1>8. /\ \A i \in Ran(ol[l]) : pkt'[i] = [pkt[i] EXCEPT !.off = TRUE]
      /\ \A i \in DOMAIN pkt : i \notin Ran(ol[l]) => pkt'[i] = pkt[i]
      /\ DOMAIN pkt' = DOMAIN pkt
  BY <1>5, <1>7
<1>9. \A i \in Ran(ol[l]) : pkt'[i] \in PktRec /\ Built(env, pkt'[i])
  BY <1>7, <1>8, OffFacts
<1>10. \A i \in DOMAIN pkt : pkt[i] \in PktRec
  BY <1>4
<1>11. \A i \in DOMAIN pkt : pkt'[i] \in PktRec
  BY <1>8, <1>9, <1>10
<1>12. DOMAIN pkt = 1 .. Len(pkt) /\ Len(pkt) \in Nat
  BY <1>4
<1>13. pkt' \in [1 .. Len(pkt) -> PktRec]
  <2>1. pkt' = [i \in 1 .. Len(pkt) |-> pkt'[i]]
    BY <1>5, <1>12
  <2> QED
    BY <1>11, <1>12, <2>1
<1>14. pkt' \in Seq(PktRec) /\ Len(pkt') = Len(pkt)
  BY <1>12, <1>13
<1>15. /\ pc' \in [Lcores -> Labels] /\ ol' \in [Lcores -> Lists] /\ pc'[l] = "route" /\ ol'[l] = <<>>
  <2>1. <<>> \in Lists /\ "route" \in Labels
    BY DEF Lists, Labels
  <2> QED
    BY <1>4, <1>5, <2>1
<1>16. OutShape'
  BY <1>1, <1>4, <1>5, <1>6, <1>14, <1>15, ShapeStep
<1>17. Only(l)
  BY <1>4, <1>5, <1>6 DEF Only
<1>18. Listed(l)' \subseteq Listed(l) \cup Ran(ol[l])
  BY <1>6 DEF Listed, Fam
<1>19. Firsts(ipsec'[l]) = {} /\ Ran(ol'[l]) = {}
  BY <1>1, <1>5, <1>15, RanEmpty
<1>20. Mine(l)' \subseteq Mine(l)
  BY <1>5, <1>18, <1>19 DEF Mine
<1>21. OncePlaced(l)'
  <2>1. \A m, n \in DOMAIN ipsec'[l] : ipsec'[l][m][1] = ipsec'[l][n][1] => m = n
    BY <1>1, <1>5
  <2>2. Apart(Listed(l) \cup Ran(ol[l]), crypto[l])
    BY <1>1 DEF OncePlaced, Apart
  <2> QED
    BY <1>5, <1>6, <1>18, <1>19, <2>1, <2>2 DEF OncePlaced, Apart
<1>22. Control(l)'
  BY <1>1, <1>5, <1>15 DEF Control, Inside
<1>23. Facts(l)'
  <2>1. ASSUME NEW v \in Fam, NEW i \in Ran(ip'[l][v])
        PROVE  Ready(env, pkt'[i], v)
    <3>1. CASE i \in Ran(ol[l])
      <4>1. PICK j \in Ran(ol[l]) : v = IpV(j) /\ (env.single # NoSa \/ i = j)
        BY <1>6, <2>1, <3>1
      <4>2. Ready(env, pkt'[i], IpV(j))
        BY <1>7, <1>8, <3>1, <4>1, InlinedReady
      <4> QED
        BY <4>1, <4>2
    <3>2. CASE i \notin Ran(ol[l])
      <4>1. i \in Ran(ip[l][v]) /\ i \in DOMAIN pkt
        BY <1>1, <1>6, <2>1, <3>2 DEF Mine, Listed, Fam
      <4>2. Ready(env, pkt[i], v)
        BY <1>1, <4>1 DEF Facts
      <4> QED
        BY <1>8, <3>2, <4>1, <4>2
    <3> QED
      BY <3>1, <3>2
  <2>2. \A i \in crypto[l] : Encrypting(env, pkt'[i])
    <3>1. \A i \in crypto[l] : i \in DOMAIN pkt /\ i \notin Ran(ol[l])
      BY <1>1 DEF Mine, OncePlaced, Apart
    <3> QED
      BY <1>1, <1>8, <3>1 DEF Facts
  <2>3. \A n \in DOMAIN ipsec'[l] : ToXform(env, pkt'[ipsec'[l][n][1]], ipsec'[l][n][2], n = 1 /\ InEsp("route"))
    BY <1>1, <1>5
  <2> QED
    BY <1>5, <1>15, <1>19, <2>1, <2>2, <2>3 DEF Facts
<1>24. \A i \in DOMAIN pkt' : Built(env, pkt'[i])
  BY <1>8, <1>9 DEF OutInv
<1>25. \A i \in DOMAIN pkt : i \notin Mine(l) => pkt'[i] = pkt[i]
  BY <1>7, <1>8
<1> QED
  BY <1>1, <1>5, <1>12, <1>14, <1>16, <1>17, <1>20, <1>21, <1>22, <1>23, <1>24, <1>25 DEF Moves
-----------------------------------------------------------------------------
(* A packet that has just arrived. *)
LEMMA ArrivedFacts ==
  ASSUME OutShape, NEW w \in env.wire
  PROVE  /\ Arrived(w) \in PktRec /\ Built(env, Arrived(w))
         /\ w.kind = "clear" => Fresh(Arrived(w))
         /\ Arrived(w).w = w
<1>1. SEQ_MOD \in Nat \ {0}
  BY OutAssumption
<1>2. 0 \in 0 .. SEQ_MOD - 1 /\ NoEsp \in EspRecs
  BY <1>1 DEF EspRecs
<1> QED
  BY <1>2 DEF Arrived, PktRec, Built, Fresh

(* n packets arrive. *)
LEMMA Grows ==
  ASSUME OutShape, NEW n \in Nat, NEW b \in [1 .. n -> env.wire], Len(pkt) + n <= env.max,
         env' = env, pkt' = pkt \o [k \in 1 .. n |-> Arrived(b[k])]
  PROVE  /\ pkt' \in Seq(PktRec) /\ Len(pkt') = Len(pkt) + n
         /\ \A i \in DOMAIN pkt : pkt'[i] = pkt[i]
         /\ \A k \in 1 .. n : /\ Len(pkt) + k \in DOMAIN pkt' \ DOMAIN pkt
                              /\ pkt'[Len(pkt) + k] = Arrived(b[k])
         /\ \A i \in DOMAIN pkt' : Built(env, pkt[i]) \/ i \notin DOMAIN pkt => Built(env, pkt'[i])
<1> DEFINE a == [k \in 1 .. n |-> Arrived(b[k])]
<1>1. pkt \in Seq(PktRec) /\ Len(pkt) \in Nat
  BY Types
<1>2. \A k \in 1 .. n : Arrived(b[k]) \in PktRec /\ Built(env, Arrived(b[k]))
  BY ArrivedFacts
<1>3. a \in [1 .. n -> PktRec] /\ \A k \in 1 .. n : a[k] = Arrived(b[k])
  BY <1>2
<1> HIDE DEF a
<1>4. a \in Seq(PktRec) /\ Len(a) = n
  BY <1>3
<1>5. pkt' = pkt \o a
  BY DEF a
<1>6. /\ pkt' \in Seq(PktRec) /\ Len(pkt') = Len(pkt) + n
      /\ \A i \in 1 .. Len(pkt) : pkt'[i] = pkt[i]
      /\ \A i \in 1 .. Len(pkt) + n : i > Len(pkt) => pkt'[i] = a[i - Len(pkt)]
  <2>1. /\ pkt \o a \in Seq(PktRec) /\ Len(pkt \o a) = Len(pkt) + Len(a)
        /\ \A i \in 1 .. Len(pkt) : (pkt \o a)[i] = pkt[i]
        /\ \A i \in 1 .. Len(pkt) + Len(a) : i > Len(pkt) => (pkt \o a)[i] = a[i - Len(pkt)]
    BY <1>1, <1>4, ConcatFacts
  <2> QED
    BY <1>4, <1>5, <2>1
<1>7. DOMAIN pkt = 1 .. Len(pkt) /\ DOMAIN pkt' = 1 .. Len(pkt) + n
  BY <1>1, <1>6
<1>8. ASSUME NEW k \in 1 .. n
      PROVE  Len(pkt) + k \in DOMAIN pkt' \ DOMAIN pkt /\ pkt'[Len(pkt) + k] = Arrived(b[k])
  <2>1. Len(pkt) + k \in 1 .. Len(pkt) + n /\ Len(pkt) + k > Len(pkt) /\ (Len(pkt) + k) - Len(pkt) = k
    BY <1>1
  <2>2. pkt'[Len(pkt) + k] = a[k]
    BY <1>6, <2>1
  <2> QED
    BY <1>1, <1>3, <1>7, <2>1, <2>2
<1>9. \A i \in DOMAIN pkt' : i \notin DOMAIN pkt => \E k \in 1 .. n : i = Len(pkt) + k
  <2> SUFFICES ASSUME NEW i \in DOMAIN pkt', i \notin DOMAIN pkt PROVE \E k \in 1 .. n : i = Len(pkt) + k
    OBVIOUS
  <2>1. i - Len(pkt) \in 1 .. n /\ i = Len(pkt) + (i - Len(pkt))
    BY <1>1, <1>7
  <2> QED
    BY <2>1
<1>10. \A i \in DOMAIN pkt' : Built(env, pkt[i]) \/ i \notin DOMAIN pkt => Built(env, pkt'[i])
  <2> SUFFICES ASSUME NEW i \in DOMAIN pkt', Built(env, pkt[i]) \/ i \notin DOMAIN pkt
               PROVE  Built(env, pkt'[i])
    OBVIOUS
  <2>1. CASE i \in DOMAIN pkt
    BY <1>6, <1>7, <2>1
  <2>2. CASE i \notin DOMAIN pkt
    BY <1>2, <1>8, <1>9, <2>2
  <2> QED
    BY <2>1, <2>2
<1> QED
  BY <1>6, <1>7, <1>8, <1>10

(* A burst: new packets, each in the list of its kind. *)
LEMMA RxMoves ==
  ASSUME OutInv, NEW l \in Lcores, Rx(l)
  PROVE  Moves(l) /\ OutShape'
<1>1. /\ OutShape /\ pc[l] = "rx" /\ OncePlaced(l) /\ Control(l) /\ Facts(l) /\ Mine(l) \subseteq DOMAIN pkt
      /\ \A i \in DOMAIN pkt : Built(env, pkt[i])
  BY DEF OutInv, Places, Rx
<1>2. ip[l] = NoPkts /\ ipsec[l] = <<>> /\ ol[l] = <<>>
  BY <1>1 DEF Control
<1>3. /\ env' = env /\ ol' = ol /\ crypto' = crypto /\ sent' = sent
      /\ seq' = seq /\ tmp' = tmp /\ overlap' = overlap /\ pc' = [pc EXCEPT ![l] = "spd"]
  BY DEF Rx, Goto
<1>4. /\ ipsec \in [Lcores -> Entries] /\ pkt \in Seq(PktRec)
      /\ pc \in [Lcores -> Labels] /\ Len(pkt) <= env.max
      /\ ip \in [Lcores -> [Fam -> Lists]]
      /\ ol \in [Lcores -> Lists] /\ crypto \in [Lcores -> SUBSET Ids]
      /\ seq \in [Sas -> Nat] /\ tmp \in [Lcores -> Nat]
      /\ sent \subseteq Ids \X Fam /\ overlap \subseteq Sas
  BY <1>1, Types
<1>5. PICK n \in 1 .. MAX_PKT_BURST : \E b \in [1 .. n -> env.wire] :
       LET new == [k \in 1 .. n |-> Len(pkt) + k]
           Esp == {new[k] : k \in {x \in 1 .. n : b[x].kind = "esp"}}
           Clear(v) == {new[k] : k \in {x \in 1 .. n : b[x].kind = "clear" /\ b[x].v = v}}
       IN  /\ Len(pkt) + n <= env.max
           /\ pkt' = pkt \o [k \in 1 .. n |-> Arrived(b[k])]
           /\ \E s4 \in Kept(new, Clear("v4")), s6 \in Kept(new, Clear("v6")) :
                ip' = [ip EXCEPT ![l] = [@ EXCEPT !["v4"] = s4, !["v6"] = s6]]
           /\ \E e \in Kept(new, Esp) :
                ipsec' = [ipsec EXCEPT ![l] = [k \in DOMAIN e |-> <<e[k], NoSa>>]]
  BY DEF Rx
<1> DEFINE new == [k \in 1 .. n |-> Len(pkt) + k]
<1>6. PICK b \in [1 .. n -> env.wire] :
        LET Esp == {new[k] : k \in {x \in 1 .. n : b[x].kind = "esp"}}
            Clear(v) == {new[k] : k \in {x \in 1 .. n : b[x].kind = "clear" /\ b[x].v = v}}
        IN  /\ Len(pkt) + n <= env.max
            /\ pkt' = pkt \o [k \in 1 .. n |-> Arrived(b[k])]
            /\ \E s4 \in Kept(new, Clear("v4")), s6 \in Kept(new, Clear("v6")) :
                 ip' = [ip EXCEPT ![l] = [@ EXCEPT !["v4"] = s4, !["v6"] = s6]]
            /\ \E e \in Kept(new, Esp) :
                 ipsec' = [ipsec EXCEPT ![l] = [k \in DOMAIN e |-> <<e[k], NoSa>>]]
  BY <1>5
<1> DEFINE E == {new[k] : k \in {x \in 1 .. n : b[x].kind = "esp"}}
           C(v) == {new[k] : k \in {x \in 1 .. n : b[x].kind = "clear" /\ b[x].v = v}}
<1>7. Len(pkt) + n <= env.max /\ pkt' = pkt \o [k \in 1 .. n |-> Arrived(b[k])]
  BY <1>6
<1>8. PICK s4 \in Kept(new, C("v4")), s6 \in Kept(new, C("v6")) :
        ip' = [ip EXCEPT ![l] = [ip[l] EXCEPT !["v4"] = s4, !["v6"] = s6]]
  BY <1>6
<1>9. PICK e \in Kept(new, E) : ipsec' = [ipsec EXCEPT ![l] = [k \in DOMAIN e |-> <<e[k], NoSa>>]]
  BY <1>6
<1>10. n \in Nat /\ Len(pkt) \in Nat /\ env.max \in Nat /\ env.max <= MaxPkts /\ MaxPkts \in Nat
  BY <1>1, OutFacts, OutAssumption
<1>11. /\ pkt' \in Seq(PktRec) /\ Len(pkt') = Len(pkt) + n
       /\ \A i \in DOMAIN pkt : pkt'[i] = pkt[i]
       /\ \A k \in 1 .. n : /\ Len(pkt) + k \in DOMAIN pkt' \ DOMAIN pkt
                            /\ pkt'[Len(pkt) + k] = Arrived(b[k])
       /\ \A i \in DOMAIN pkt' : Built(env, pkt[i]) \/ i \notin DOMAIN pkt => Built(env, pkt'[i])
  BY <1>1, <1>3, <1>7, <1>10, Grows
<1>12. \A k \in 1 .. n : new[k] = Len(pkt) + k /\ new[k] \in Ids
  BY <1>7, <1>10 DEF Ids
<1>13. Ran(new) \subseteq Ids /\ \A i \in Ran(new) : \E k \in 1 .. n : i = Len(pkt) + k
  BY <1>12 DEF Ran
<1>14. \A j, k \in 1 .. n : new[j] = new[k] => j = k
  BY <1>10, <1>12
<1> HIDE DEF new
<1>15. /\ s4 \in Lists /\ Ran(s4) = Ran(new) \cap C("v4")
       /\ s6 \in Lists /\ Ran(s6) = Ran(new) \cap C("v6")
       /\ e \in Seq(Ids) /\ Ran(e) = Ran(new) \cap E /\ Once(e)
  <2> DEFINE A == C("v4")
             B == C("v6")
  <2>1. s4 \in Kept(new, A) /\ s6 \in Kept(new, B) /\ e \in Kept(new, E)
    OBVIOUS
  <2> HIDE DEF E, A, B
  <2>2. IsFiniteSet(Ids) /\ Ran(new) \subseteq Ids
    BY <1>13, IdsFinite
  <2>3. s4 \in Seq(Ids) /\ Ran(s4) = Ran(new) \cap A
    BY <2>1, <2>2, KeptFacts
  <2>4. s6 \in Seq(Ids) /\ Ran(s6) = Ran(new) \cap B
    BY <2>1, <2>2, KeptFacts
  <2>5. e \in Seq(Ids) /\ Ran(e) = Ran(new) \cap E /\ Once(e)
    BY <2>1, <2>2, KeptFacts
  <2> QED
    BY <2>3, <2>4, <2>5 DEF Lists, A, B
<1>16. /\ ip' \in [Lcores -> [Fam -> Lists]] /\ ip'[l]["v4"] = s4 /\ ip'[l]["v6"] = s6
       /\ \A m \in Lcores \ {l} : ip'[m] = ip[m]
  BY <1>1, <1>8, <1>15, TwoLists, ZenonT(30)
<1>17. ASSUME NEW v \in Fam, NEW i \in Ran(ip'[l][v])
       PROVE  \E k \in 1 .. n : i = new[k] /\ b[k].kind = "clear" /\ b[k].v = v
  <2>1. (v = "v4" => i \in C("v4")) /\ (v = "v6" => i \in C("v6"))
    <3>1. i \in Ran(ip'[l][v]) /\ ip'[l]["v4"] = s4 /\ ip'[l]["v6"] = s6
      BY <1>16
    <3>2. Ran(s4) \subseteq C("v4") /\ Ran(s6) \subseteq C("v6")
      BY <1>15
    <3> HIDE DEF C
    <3> QED
      BY <3>1, <3>2
  <2>2. i \in C(v)
    BY <2>1 DEF Fam
  <2> QED
    BY <2>2
<1>18. \A i \in Ran(e) : \E k \in 1 .. n : i = new[k] /\ b[k].kind = "esp"
  BY <1>15
<1> HIDE DEF E, C
<1> DEFINE q == [k \in DOMAIN e |-> <<e[k], NoSa>>]
<1>19. /\ q \in Entries /\ Firsts(q) = Ran(e)
       /\ \A m, j \in DOMAIN q : q[m][1] = q[j][1] => m = j
  <2>1. \A k \in DOMAIN e : e[k] \in Ids
    BY <1>15
  <2>2. q \in [DOMAIN e -> Ids \X (Sas \cup {NoSa})]
    BY <2>1
  <2>3. \A k \in DOMAIN e : q[k][1] = e[k]
    OBVIOUS
  <2> HIDE DEF q
  <2>4. /\ q \in Seq(Ids \X (Sas \cup {NoSa})) /\ Firsts(q) = Ran(e)
        /\ \A m, j \in DOMAIN q : q[m][1] = q[j][1] => m = j
    <3>1. e \in Seq(Ids) /\ Once(e)
      BY <1>15
    <3> QED
      BY <2>2, <2>3, <3>1, PairUp
  <2> QED
    BY <2>4 DEF Entries
<1>20. ipsec' = [ipsec EXCEPT ![l] = q]
  BY <1>9
<1> HIDE DEF q
<1>21. /\ ipsec' \in [Lcores -> Entries] /\ ipsec'[l] = q /\ pc' \in [Lcores -> Labels] /\ pc'[l] = "spd"
       /\ \A m \in Lcores \ {l} : ipsec'[m] = ipsec[m]
  BY <1>3, <1>4, <1>19, <1>20 DEF Labels
<1>22. OutShape'
  BY <1>1, <1>3, <1>4, <1>7, <1>11, <1>16, <1>21, ShapeStep
<1>23. Only(l)
  BY <1>3, <1>4, <1>16, <1>21 DEF Only
<1>24. \A k \in 1 .. n : new[k] \in DOMAIN pkt' \ DOMAIN pkt
  BY <1>11, <1>12
<1>25. Listed(l)' \subseteq DOMAIN pkt' \ DOMAIN pkt /\ Firsts(ipsec'[l]) \subseteq DOMAIN pkt' \ DOMAIN pkt
  BY <1>17, <1>18, <1>19, <1>21, <1>24 DEF Listed, Fam
<1>26. Mine(l)' \subseteq Mine(l) \cup (DOMAIN pkt' \ DOMAIN pkt)
  BY <1>3, <1>25 DEF Mine
<1>27. Ran(ol'[l]) = {}
  BY <1>2, <1>3, RanEmpty
<1>28. crypto[l] \subseteq DOMAIN pkt
  BY <1>1 DEF Mine
<1>29. OncePlaced(l)'
  <2>1. \A m, j \in DOMAIN ipsec'[l] : ipsec'[l][m][1] = ipsec'[l][j][1] => m = j
    BY <1>19, <1>21
  <2>2. ASSUME NEW i \in Ran(ip'[l]["v4"]), i \in Ran(ip'[l]["v6"]) PROVE FALSE
    <3>1. PICK k \in 1 .. n : i = new[k] /\ b[k].v = "v4"
      BY <1>17 DEF Fam
    <3>2. PICK j \in 1 .. n : i = new[j] /\ b[j].v = "v6"
      BY <1>17, <2>2 DEF Fam
    <3> QED
      BY <1>14, <3>1, <3>2
  <2>3. ASSUME NEW i \in Listed(l)', i \in Firsts(ipsec'[l]) PROVE FALSE
    <3>1. PICK k \in 1 .. n : i = new[k] /\ b[k].kind = "clear"
      BY <1>17 DEF Listed, Fam
    <3>2. PICK j \in 1 .. n : i = new[j] /\ b[j].kind = "esp"
      BY <1>18, <1>19, <1>21, <2>3
    <3> QED
      BY <1>14, <3>1, <3>2
  <2> QED
    BY <1>3, <1>25, <1>27, <1>28, <2>1, <2>2, <2>3 DEF OncePlaced, Apart
<1>30. Control(l)'
  BY <1>2, <1>3, <1>21 DEF Control, Inside
<1>31. Facts(l)'
  <2>1. ASSUME NEW v \in Fam, NEW i \in Ran(ip'[l][v])
        PROVE  Fresh(pkt'[i]) /\ pkt'[i].w.v = v
    <3>1. PICK k \in 1 .. n : i = new[k] /\ b[k].kind = "clear" /\ b[k].v = v
      BY <1>17, <2>1
    <3>2. pkt'[i] = Arrived(b[k]) /\ b[k] \in env.wire
      BY <1>11, <1>12, <3>1
    <3> QED
      BY <1>1, <3>1, <3>2, ArrivedFacts
  <2>2. \A i \in crypto[l] : Encrypting(env, pkt'[i])
    BY <1>1, <1>11, <1>28 DEF Facts
  <2> QED
    BY <1>3, <1>21, <1>27, <2>1, <2>2 DEF Facts
<1>32. \A i \in DOMAIN pkt' : Built(env, pkt'[i])
  BY <1>1, <1>11
<1>33. Len(pkt) <= Len(pkt')
  BY <1>10, <1>11
<1> QED
  BY <1>3, <1>11, <1>22, <1>23, <1>26, <1>29, <1>30, <1>31, <1>32, <1>33 DEF Moves
-----------------------------------------------------------------------------
(* The invariant holds at the start. *)
LEMMA OutInit == Init => OutInv
<1> SUFFICES ASSUME Init PROVE OutInv
  OBVIOUS
<1>1. EnvOK(env) /\ env.max \in Nat
  BY OutAssumption DEF Init, EnvOK
<1>2. OutShape
  <2>1. pkt \in Seq(PktRec) /\ Len(pkt) <= env.max
    BY <1>1 DEF Init
  <2>2. <<>> \in Seq(Ids) /\ <<>> \in Seq(Ids \X (Sas \cup {NoSa})) /\ NoPkts \in [Fam -> Seq(Ids)]
    BY NoPktsFacts DEF Lists
  <2>3. ip \in [Lcores -> [Fam -> Seq(Ids)]]
    BY <2>2 DEF Init
  <2> QED
    BY <2>1, <2>2, <2>3 DEF Init, OutShape, Labels
<1>3. ASSUME NEW l \in Lcores
      PROVE  /\ pc[l] = "rx" /\ ip[l] = NoPkts /\ ipsec[l] = <<>> /\ ol[l] = <<>> /\ crypto[l] = {}
             /\ Mine(l) = {}
  <2>1. pc[l] = "rx" /\ ip[l] = NoPkts /\ ipsec[l] = <<>> /\ ol[l] = <<>> /\ crypto[l] = {}
    BY DEF Init
  <2> QED
    BY <2>1, NoPktsFacts, RanEmpty DEF Mine, Listed
<1>4. \A l \in Lcores : Control(l)
  BY <1>3 DEF Control, Inside
<1>5. ASSUME NEW l \in Lcores PROVE OncePlaced(l)
  <2>1. Ran(ip[l]["v4"]) = {} /\ Ran(ip[l]["v6"]) = {} /\ Firsts(ipsec[l]) = {} /\ crypto[l] = {}
        /\ Ran(ol[l]) = {} /\ ipsec[l] = <<>> /\ Listed(l) = {}
    BY <1>3, NoPktsFacts, RanEmpty DEF Listed
  <2> QED
    BY <2>1 DEF OncePlaced, Apart
<1>6. ASSUME NEW l \in Lcores PROVE Facts(l)
  <2>1. (\A v \in Fam : Ran(ip[l][v]) = {}) /\ crypto[l] = {} /\ Ran(ol[l]) = {} /\ ipsec[l] = <<>> /\ pc[l] = "rx"
    BY <1>3, NoPktsFacts, RanEmpty
  <2> QED
    BY <2>1 DEF Facts
<1>7. Places
  BY <1>3, <1>5 DEF Places, Apart, Init
<1>8. sent = {} /\ DOMAIN pkt = {}
  BY DEF Init
<1> QED
  BY <1>2, <1>4, <1>6, <1>7, <1>8 DEF OutInv

(* Every step keeps it. *)
LEMMA OutStep == OutInv /\ [Next]_vars => OutInv'
<1> SUFFICES ASSUME OutInv, [Next]_vars PROVE OutInv'
  OBVIOUS
<1>1. CASE UNCHANGED vars
  <2>1. /\ env' = env /\ pc' = pc /\ pkt' = pkt /\ ip' = ip /\ ipsec' = ipsec /\ ol' = ol
        /\ crypto' = crypto /\ seq' = seq /\ tmp' = tmp /\ sent' = sent /\ overlap' = overlap
    BY <1>1 DEF vars, data
  <2>2. OutShape /\ OutShape'
    <3>1. OutShape
      BY DEF OutInv
    <3> QED
      BY <2>1, <3>1, Types, ShapeStep
  <2>3. Places'
    BY <2>1, ZenonT(30) DEF OutInv, Places, OncePlaced, Mine, Listed
  <2>4. \A l \in Lcores : Control(l)'
    BY <2>1 DEF OutInv, Control
  <2>5. \A l \in Lcores : Facts(l)'
    BY <2>1 DEF OutInv, Facts, Sa
  <2>6. (\A x \in sent' : Ready(env', pkt'[x[1]], x[2])) /\ (\A i \in DOMAIN pkt' : Built(env', pkt'[i]))
    BY <2>1 DEF OutInv
  <2> QED
    BY <2>2, <2>3, <2>4, <2>5, <2>6 DEF OutInv
<1>2. CASE Next
  <2>1. PICK l \in env.lcores :
          \/ Rx(l) \/ Spd(l) \/ XformFree(l) \/ XformProto(l) \/ XformEsp(l) \/ Inc(l) \/ Hdr(l)
          \/ Iv(l) \/ Icb(l) \/ LibTake(l) \/ LibPut(l) \/ XformEnd(l) \/ Route(l) \/ Drain(l)
          \/ Idle(l)
    BY <1>2 DEF Next
  <2>2. l \in Lcores
    BY OutFacts DEF OutInv
  <2>3. Moves(l) /\ OutShape'
    BY <2>1, <2>2, RxMoves, SpdMoves, XformFreeMoves, XformProtoMoves, XformEspMoves, IncMoves,
       HdrMoves, IvMoves, IcbMoves, LibTakeMoves, LibPutMoves, XformEndMoves, RouteMoves,
       DrainMoves, IdleMoves
  <2> QED
    BY <2>2, <2>3, MovesKeepInv
<1> QED
  BY <1>1, <1>2

(* Every packet is in one place at most, and is what that place requires:  *)
(* the stages hand it over complete, whoever else works meanwhile.         *)
THEOREM OutInvariant == OutSpec => []OutInv
<1> QED
  BY OutInit, OutStep, PTL DEF OutSpec

(* A packet that leaves a protected port does so once, protected by the SA *)
(* of its policy if it has one, through the table of its own family.       *)
THEOREM PolicyIsObeyed == OutSpec => []OutPolicy
<1>1. OutInv => OutPolicy
  <2> SUFFICES ASSUME OutInv, NEW x \in sent
               PROVE  LET p == pkt[x[1]]
                          d == Due(p.w)
                      IN  /\ p.w.kind # "esp"
                          /\ p.sa = d
                          /\ d = NoSa /\ p.w.v \in env.sp => p.w.rule = BYPASS
                          /\ \A y \in sent : y[1] = x[1] => y = x
                          /\ (d # NoSa /\ SaRec[d].act # "la_proto" /\ SaRec[d].act # "inl_proto") =>
                               p.esp # NoEsp /\ (SaRec[d].act = "inl_crypto") = p.off
                          /\ MixedFam(d, p.w) \/ x[2] = IpV(x[1])
    BY DEF OutPolicy
  <2> DEFINE p == pkt[x[1]]
             d == Due(p.w)
  <2>1. Ready(env, p, x[2]) /\ p \in PktRec
    BY OutFacts DEF OutInv, Places
  <2>2. d = DueIn(env, p.w)
    BY DEF Due, DueIn
  <2>3. MixedFam(d, p.w) <=> MixedIn(env, d, p.w)
    BY DEF MixedFam, MixedIn
  <2>4. IpV(x[1]) = Ver(p)
    BY IpVIsVer
  <2>5. \A y \in sent : y[1] = x[1] => y = x
    BY DEF OutInv, Places
  <2>6. p.off \in BOOLEAN
    BY <2>1 DEF PktRec
  <2> HIDE DEF p, d
  <2>7. ((SaRec[d].act = "inl_crypto") <=> p.off) => (SaRec[d].act = "inl_crypto") = p.off
    BY <2>6
  <2>8. /\ p.w.kind # "esp"
        /\ p.sa = d
        /\ d = NoSa /\ p.w.v \in env.sp => p.w.rule = BYPASS
        /\ (d # NoSa /\ SaRec[d].act # "la_proto" /\ SaRec[d].act # "inl_proto") =>
             p.esp # NoEsp /\ ((SaRec[d].act = "inl_crypto") <=> p.off)
        /\ MixedFam(d, p.w) \/ x[2] = IpV(x[1])
    BY <2>1, <2>2, <2>3, <2>4 DEF Ready
  <2> QED
    BY <2>5, <2>7, <2>8 DEF p, d
<1> QED
  BY <1>1, OutInvariant, PTL

(* The peer undoes what esp_outbound does to any packet, of any length and *)
(* with any SA sa.c can make.                                              *)
THEOREM PeerUndoes == OutSpec => []EspRoundTrip
<1>1. OutInv => EspRoundTrip
  <2> SUFFICES ASSUME OutInv, NEW i \in DOMAIN pkt, pkt[i].sa # NoSa, pkt[i].esp # NoEsp,
                      ~Wraps(SaRec[pkt[i].sa], pkt[i].w)
               PROVE  LET p == pkt[i]
                          s == SaRec[p.sa]
                      IN  /\ env.lib = "off" => p.esp.len <= IP_MAXPACKET
                          /\ InAccepts(s, p.esp)
                          /\ Filled(s, p.w) => PostAccepts(s, p.esp)
                          /\ EspIn(s, p.esp) = [v |-> p.w.v, len |-> p.w.len, nlp |-> p.w.nlp]
    BY DEF EspRoundTrip
  <2> DEFINE p == pkt[i]
             s == SaRec[p.sa]
  <2>1. /\ p.sa \in Sas /\ p.esp = EspOut(s, p.w) /\ (env.lib = "off" => ~TooBig(s, p.w))
        /\ PktOK(p.w)
    BY OutFacts DEF OutInv, Built, EspMade
  <2>2. SaOK(s)
    BY <2>1, OutFacts DEF OutInv
  <2>3. /\ ~TooBig(s, p.w) => EspOut(s, p.w).len <= IP_MAXPACKET
        /\ InAccepts(s, EspOut(s, p.w))
        /\ Filled(s, p.w) => PostAccepts(s, EspOut(s, p.w))
        /\ EspIn(s, EspOut(s, p.w)) = [v |-> p.w.v, len |-> p.w.len, nlp |-> p.w.nlp]
    BY <2>1, <2>2, RoundTrip
  <2> HIDE DEF p, s
  <2> QED
    BY <2>1, <2>3 DEF p, s
<1> QED
  BY <1>1, OutInvariant, PTL
-----------------------------------------------------------------------------
(* Counters.  Rel: the SAs whose packets carry one; Ctr: that of a packet. *)
Rel(s) == Supported(SaRec[s]) /\ (CounterIv(SaRec[s]) \/ SaRec[s].act = "none")
Ctr(p) == IF SaRec[p.sa].act = "none" THEN p.icb ELSE p.iv

GoodCtr(p, s, top) ==
  /\ Ctr(p) \in 1 .. top /\ p.seq = Ctr(p) % SEQ_MOD
  /\ CounterIv(SaRec[s]) => p.iv = Ctr(p)

Within(l, s) == pc[l] \in Inside /\ Sa(l) = s

(* What a lcore inside SA s knows of seq[s] between its accesses.          *)
Stage(l, s) ==
  /\ pc[l] = "inc" => tmp[l] = seq[s]
  /\ pc[l] \in {"hdr", "iv", "icb"} => seq[s] > 0 /\ \A i \in Protected(s) : Ctr(pkt[i]) < seq[s]
  /\ pc[l] \in {"iv", "icb"} => pkt[Cur(l)].seq = seq[s] % SEQ_MOD
  /\ pc[l] = "icb" => (CounterIv(SaRec[s]) => pkt[Cur(l)].iv = seq[s])
  /\ pc[l] = "lib" /\ env.lib = "plain" => tmp[l] = seq[s]
  /\ pc[l] = "lib" /\ env.lib = "atomic" =>
       tmp[l] + 1 <= seq[s] /\ \A i \in Protected(s) : Ctr(pkt[i]) # tmp[l] + 1

NonceInv(s) ==
  /\ \A i \in Protected(s) : GoodCtr(pkt[i], s, seq[s])
  /\ \A i, j \in Protected(s) : Ctr(pkt[i]) = Ctr(pkt[j]) => i = j
  /\ \A l \in Lcores : Within(l, s) => Stage(l, s)
  /\ \A l, m \in Lcores :
       Within(l, s) /\ Within(m, s) /\ l # m => env.lib = "atomic" /\ tmp[l] # tmp[m]

NInv == \A s \in Sas \ overlap : Rel(s) => NonceInv(s)

(* A step that does not touch SA s. *)
LEMMA Quiet ==
  ASSUME NEW s \in Sas, NonceInv(s), env' = env, seq'[s] = seq[s],
         \A i \in Protected(s)' : i \in Protected(s) /\ pkt'[i].sa = pkt[i].sa
            /\ pkt'[i].seq = pkt[i].seq /\ pkt'[i].iv = pkt[i].iv /\ pkt'[i].icb = pkt[i].icb,
         \A m \in Lcores : Within(m, s)' => Within(m, s) /\ pc'[m] = pc[m] /\ tmp'[m] = tmp[m]
            /\ pkt'[Cur(m)'].seq = pkt[Cur(m)].seq /\ pkt'[Cur(m)'].iv = pkt[Cur(m)].iv
  PROVE  NonceInv(s)'
<1>1. \A i \in Protected(s)' : Ctr(pkt'[i]) = Ctr(pkt[i]) /\ i \in Protected(s)
  BY DEF Ctr
<1>2. \A i \in Protected(s)' : GoodCtr(pkt'[i], s, seq'[s])
  BY <1>1 DEF NonceInv, GoodCtr
<1>3. \A i, j \in Protected(s)' : Ctr(pkt'[i]) = Ctr(pkt'[j]) => i = j
  BY <1>1 DEF NonceInv
<1>4. ASSUME NEW l \in Lcores, Within(l, s)'
      PROVE  Stage(l, s)'
  <2>1. /\ Within(l, s) /\ pc'[l] = pc[l] /\ tmp'[l] = tmp[l]
        /\ pkt'[Cur(l)'].seq = pkt[Cur(l)].seq /\ pkt'[Cur(l)'].iv = pkt[Cur(l)].iv
    BY <1>4
  <2>2. Stage(l, s)
    BY <2>1 DEF NonceInv
  <2> QED
    BY <1>1, <2>1, <2>2 DEF Stage
<1>5. ASSUME NEW l \in Lcores, NEW m \in Lcores, Within(l, s)', Within(m, s)', l # m
      PROVE  env'.lib = "atomic" /\ tmp'[l] # tmp'[m]
  BY <1>5 DEF NonceInv
<1> QED
  BY <1>2, <1>3, <1>4, <1>5 DEF NonceInv

(* Other lcores inside SAs. *)
LEMMA OthersWithin ==
  ASSUME OutInv, NEW l \in Lcores, Moves(l), NEW m \in Lcores, m # l, NEW s
  PROVE  /\ Within(m, s)' <=> Within(m, s)
         /\ pc'[m] = pc[m] /\ tmp'[m] = tmp[m] /\ ipsec'[m] = ipsec[m] /\ Cur(m)' = Cur(m)
         /\ pc[m] \in Inside => pkt'[Cur(m)] = pkt[Cur(m)] /\ Cur(m) \notin Mine(l)
<1>1. /\ pc'[m] = pc[m] /\ tmp'[m] = tmp[m] /\ ipsec'[m] = ipsec[m]
  BY DEF Moves, Only
<1>2. Cur(m)' = Cur(m) /\ Sa(m)' = Sa(m)
  BY <1>1 DEF Cur, Sa
<1>3. ASSUME pc[m] \in Inside
      PROVE  Cur(m) \in DOMAIN pkt /\ Cur(m) \notin Mine(l)
  <2>1. ipsec[m] # <<>> /\ pc[m] # "spd"
    BY <1>3 DEF OutInv, Control, Inside
  <2>2. Cur(m) \in Mine(m) /\ Cur(m) \in DOMAIN pkt
    BY <2>1, CurFacts
  <2> QED
    BY <2>2 DEF OutInv, Places, Apart
<1> QED
  BY <1>1, <1>2, <1>3 DEF Within, Moves

(* The protected packets of s after a step. *)
LEMMA StillProtected ==
  ASSUME OutInv, NEW l \in Lcores, Moves(l), NEW s, NEW i \in Protected(s)', i \in DOMAIN pkt,
         pkt[i].sa = pkt'[i].sa, pkt[i].esp = pkt'[i].esp, pc[l] \in Inside => i # Cur(l)
  PROVE  i \in Protected(s)
<1>1. /\ pkt'[i].sa = s /\ pkt'[i].esp # NoEsp /\ ~\E m \in Lcores : pc'[m] \in Inside /\ ipsec'[m][1][1] = i
  BY DEF Protected
<1>2. ~\E m \in Lcores : pc[m] \in Inside /\ ipsec[m][1][1] = i
  <2> SUFFICES ASSUME NEW m \in Lcores, pc[m] \in Inside, ipsec[m][1][1] = i PROVE FALSE
    OBVIOUS
  <2>1. CASE m = l
    BY <2>1 DEF Cur
  <2>2. CASE m # l
    <3>1. pc'[m] = pc[m] /\ ipsec'[m] = ipsec[m]
      BY <2>2 DEF Moves, Only
    <3> QED
      BY <1>1, <3>1
  <2> QED
    BY <2>1, <2>2
<1> QED
  BY <1>1, <1>2 DEF Protected

(* Steps outside of esp_outbound and the library. *)
LEMMA OutsideKeeps ==
  ASSUME OutInv, NEW l \in Lcores, Moves(l), pc[l] \notin Inside, pc'[l] \notin Inside,
         seq' = seq, overlap' = overlap,
         \A i \in DOMAIN pkt' : pkt'[i].esp # NoEsp =>
           i \in DOMAIN pkt /\ pkt'[i].sa = pkt[i].sa /\ pkt'[i].esp = pkt[i].esp
           /\ pkt'[i].seq = pkt[i].seq /\ pkt'[i].iv = pkt[i].iv /\ pkt'[i].icb = pkt[i].icb,
         NInv
  PROVE  NInv'
<1> SUFFICES ASSUME NEW s \in Sas \ overlap, Rel(s) PROVE NonceInv(s)'
  BY DEF NInv, Rel
<1>1. NonceInv(s) /\ env' = env
  BY DEF NInv, Moves, Only
<1>2. ASSUME NEW i \in Protected(s)'
      PROVE  i \in Protected(s) /\ pkt'[i].sa = pkt[i].sa
            /\ pkt'[i].seq = pkt[i].seq /\ pkt'[i].iv = pkt[i].iv /\ pkt'[i].icb = pkt[i].icb
  <2>1. i \in DOMAIN pkt' /\ pkt'[i].esp # NoEsp
    BY DEF Protected
  <2> QED
    BY <2>1, StillProtected
<1>3. ASSUME NEW m \in Lcores, Within(m, s)'
      PROVE  Within(m, s) /\ pc'[m] = pc[m] /\ tmp'[m] = tmp[m]
            /\ pkt'[Cur(m)'].seq = pkt[Cur(m)].seq /\ pkt'[Cur(m)'].iv = pkt[Cur(m)].iv
  <2>1. m # l
    BY <1>3 DEF Within
  <2> QED
    BY <1>3, <2>1, OthersWithin DEF Within
<1> QED
  BY <1>1, <1>2, <1>3, Quiet

(* A step of a lcore inside another SA. *)
LEMMA ElsewhereKeeps ==
  ASSUME OutInv, NEW l \in Lcores, Moves(l), NEW s \in Sas, Sa(l) # s, NonceInv(s),
         DOMAIN pkt' = DOMAIN pkt,
         \A i \in DOMAIN pkt : i # Cur(l) => pkt'[i] = pkt[i],
         pkt'[Cur(l)].esp # NoEsp => pkt'[Cur(l)].sa = Sa(l),
         pc'[l] \in Inside => Sa(l)' = Sa(l), seq'[s] = seq[s]
  PROVE  NonceInv(s)'
<1>1. env' = env
  BY DEF Moves, Only
<1>2. ASSUME NEW i \in Protected(s)'
      PROVE  i \in Protected(s) /\ pkt'[i].sa = pkt[i].sa
            /\ pkt'[i].seq = pkt[i].seq /\ pkt'[i].iv = pkt[i].iv /\ pkt'[i].icb = pkt[i].icb
  <2>1. i \in DOMAIN pkt /\ pkt'[i].esp # NoEsp /\ pkt'[i].sa = s
    BY DEF Protected
  <2>2. i # Cur(l)
    BY <2>1
  <2> QED
    BY <2>1, <2>2, StillProtected
<1>3. ASSUME NEW m \in Lcores, Within(m, s)'
      PROVE  Within(m, s) /\ pc'[m] = pc[m] /\ tmp'[m] = tmp[m]
            /\ pkt'[Cur(m)'].seq = pkt[Cur(m)].seq /\ pkt'[Cur(m)'].iv = pkt[Cur(m)].iv
  <2>1. m # l
    BY <1>3 DEF Within
  <2> QED
    BY <1>3, <2>1, OthersWithin DEF Within
<1> QED
  BY <1>1, <1>2, <1>3, Quiet

(* A step of lcore l inside s: the counter of its packet, if it is done,   *)
(* is a new one.                                                           *)
LEMMA HereKeeps ==
  ASSUME OutInv, NEW l \in Lcores, Moves(l), NEW s \in Sas, Sa(l) = s, NonceInv(s),
         DOMAIN pkt' = DOMAIN pkt, seq[s] \in Nat, seq'[s] \in Nat, seq[s] <= seq'[s],
         \A i \in DOMAIN pkt : i # Cur(l) => pkt'[i] = pkt[i],
         Cur(l) \in Protected(s)' =>
           /\ GoodCtr(pkt'[Cur(l)], s, seq'[s])
           /\ \A i \in Protected(s) : i # Cur(l) => Ctr(pkt[i]) # Ctr(pkt'[Cur(l)]),
         Within(l, s)' => Stage(l, s)',
         \A m \in Lcores \ {l} : Within(m, s) =>
           /\ env.lib = "atomic"
           /\ Cur(l) \in Protected(s)' => Ctr(pkt'[Cur(l)]) # tmp[m] + 1
           /\ Within(l, s)' => tmp'[l] # tmp[m]
  PROVE  NonceInv(s)'
<1> DEFINE c == Cur(l)
<1>1. env' = env
  BY DEF Moves, Only
<1>2. \A i \in Protected(s)' : i # c => i \in Protected(s) /\ pkt'[i] = pkt[i]
  <2> SUFFICES ASSUME NEW i \in Protected(s)', i # c PROVE i \in Protected(s) /\ pkt'[i] = pkt[i]
    OBVIOUS
  <2>1. i \in DOMAIN pkt
    BY DEF Protected
  <2> QED
    BY <2>1, StillProtected
<1>3. \A i \in Protected(s)' : GoodCtr(pkt'[i], s, seq'[s])
  <2> SUFFICES ASSUME NEW i \in Protected(s)', i # c PROVE GoodCtr(pkt'[i], s, seq'[s])
    OBVIOUS
  <2>1. GoodCtr(pkt'[i], s, seq[s])
    BY <1>2 DEF NonceInv
  <2> QED
    BY <2>1 DEF GoodCtr
<1>4. \A i, j \in Protected(s)' : Ctr(pkt'[i]) = Ctr(pkt'[j]) => i = j
  <2> SUFFICES ASSUME NEW i \in Protected(s)', NEW j \in Protected(s)', Ctr(pkt'[i]) = Ctr(pkt'[j]), i # j
               PROVE  FALSE
    OBVIOUS
  <2>1. CASE i = c
    BY <1>2, <2>1
  <2>2. CASE j = c
    BY <1>2, <2>2
  <2>3. CASE i # c /\ j # c
    BY <1>2, <2>3 DEF NonceInv
  <2> QED
    BY <2>1, <2>2, <2>3
<1>5. ASSUME NEW m \in Lcores, m # l, Within(m, s)'
      PROVE  /\ Within(m, s) /\ pc'[m] = pc[m] /\ tmp'[m] = tmp[m] /\ env.lib = "atomic"
             /\ pc[m] = "lib"
  <2>1. Within(m, s) /\ pc'[m] = pc[m] /\ tmp'[m] = tmp[m]
    BY <1>5, OthersWithin
  <2>2. env.lib = "atomic"
    BY <1>5, <2>1
  <2> QED
    BY <2>1, <2>2 DEF OutInv, Control, Within, Inside
<1>6. ASSUME NEW m \in Lcores, Within(m, s)'
      PROVE  Stage(m, s)'
  <2>1. CASE m = l
    BY <1>6, <2>1
  <2>2. CASE m # l
    <3>1. /\ Within(m, s) /\ pc'[m] = pc[m] /\ tmp'[m] = tmp[m] /\ env.lib = "atomic" /\ pc[m] = "lib"
      BY <1>5, <1>6, <2>2
    <3>2. tmp[m] + 1 <= seq[s] /\ \A i \in Protected(s) : Ctr(pkt[i]) # tmp[m] + 1
      BY <3>1 DEF NonceInv, Stage
    <3>3. tmp[m] \in Nat
      BY Types DEF OutInv
    <3>4. tmp'[m] + 1 <= seq'[s]
      BY <3>1, <3>2, <3>3
    <3>5. \A i \in Protected(s)' : Ctr(pkt'[i]) # tmp[m] + 1
      BY <1>2, <2>2, <3>1, <3>2
    <3> QED
      BY <1>1, <3>1, <3>4, <3>5 DEF Stage
  <2> QED
    BY <2>1, <2>2
<1>7. ASSUME NEW a \in Lcores, NEW b \in Lcores, Within(a, s)', Within(b, s)', a # b
      PROVE  env'.lib = "atomic" /\ tmp'[a] # tmp'[b]
  <2>1. CASE a # l /\ b # l
    BY <1>1, <1>5, <1>7, <2>1 DEF NonceInv
  <2>2. CASE a = l
    BY <1>1, <1>5, <1>7, <2>2
  <2>3. CASE b = l
    BY <1>1, <1>5, <1>7, <2>3
  <2> QED
    BY <2>1, <2>2, <2>3
<1> QED
  BY <1>3, <1>4, <1>6, <1>7 DEF NonceInv
-----------------------------------------------------------------------------
(* A number below 2^32 is its own remainder. *)
LEMMA SmallMod ==
  ASSUME NEW n \in Nat, NEW m \in Nat \ {0}, n < m
  PROVE  n % m = n
  OBVIOUS

(* Entering: no other lcore is inside an SA that stays out of overlap. *)
LEMMA EnterAlone ==
  ASSUME NEW l \in Lcores, Enter(l), Sa(l) \notin overlap', NEW m \in Lcores \ {l}
  PROVE  ~Within(m, Sa(l))
  BY DEF Enter, Within

(* The load of sa->seq. *)
LEMMA XformEspNonce ==
  ASSUME OutInv, NEW l \in Lcores, XformEsp(l), Moves(l), NInv
  PROVE  NInv'
<1> SUFFICES ASSUME NEW s \in Sas \ overlap', Rel(s) PROVE NonceInv(s)'
  BY DEF NInv, Rel
<1> DEFINE c == Cur(l)
<1>1. /\ pc[l] = "xform" /\ ipsec[l] # <<>> /\ pc[l] # "spd" /\ Enter(l) /\ seq' = seq /\ ipsec' = ipsec
      /\ tmp' = [tmp EXCEPT ![l] = seq[Sa(l)]] /\ pc' = [pc EXCEPT ![l] = "inc"]
      /\ pkt' = [[pkt EXCEPT ![c].sa = Sa(l)] EXCEPT ![c].esp = EspOut(Rec(l), Wp(l))]
  BY DEF XformEsp, At, Goto, Tag
<1>2. c \in DOMAIN pkt /\ pkt[c] \in PktRec /\ Sa(l) \in Sas
  BY <1>1, CurFacts
<1>3. pkt \in Seq(PktRec) /\ seq \in [Sas -> Nat] /\ tmp \in [Lcores -> Nat] /\ pc \in [Lcores -> Labels]
  BY Types DEF OutInv
<1>4. /\ DOMAIN pkt' = DOMAIN pkt /\ (\A i \in DOMAIN pkt : i # c => pkt'[i] = pkt[i])
      /\ pkt'[c].sa = Sa(l)
  BY <1>1, <1>2, <1>3 DEF PktRec
<1>5. Sa(l)' = Sa(l) /\ Cur(l)' = c /\ pc'[l] = "inc" /\ tmp'[l] = seq[Sa(l)]
  BY <1>1, <1>3 DEF Sa, Cur
<1> HIDE DEF c
<1>6. overlap \subseteq overlap' /\ NonceInv(s)
  BY <1>1 DEF Enter, NInv
<1>7. CASE Sa(l) # s
  BY <1>1, <1>4, <1>5, <1>6, <1>7, ElsewhereKeeps DEF c
<1>8. CASE Sa(l) = s
  <2>1. \A m \in Lcores \ {l} : ~Within(m, s)
    BY <1>1, <1>8, EnterAlone
  <2>2. c \notin Protected(s)'
    BY <1>5 DEF Protected, Cur, Inside
  <2>3. Stage(l, s)'
    BY <1>1, <1>5, <1>8 DEF Stage
  <2>4. seq[s] \in Nat /\ seq'[s] \in Nat /\ seq[s] <= seq'[s]
    BY <1>1, <1>3
  <2> QED
    BY <1>4, <1>6, <1>8, <2>1, <2>2, <2>3, <2>4, HereKeeps DEF c
<1> QED
  BY <1>7, <1>8

(* The steps of esp_outbound after that. *)
LEMMA EspNonce ==
  ASSUME OutInv, NEW l \in Lcores, Moves(l), InEsp(pc[l]), NInv, overlap' = overlap,
         DOMAIN pkt' = DOMAIN pkt,
         \A i \in DOMAIN pkt : i # Cur(l) => pkt'[i] = pkt[i],
         pkt'[Cur(l)].sa = Sa(l), pc'[l] \in Inside => ipsec'[l] = ipsec[l],
         \A t \in Sas : t # Sa(l) => seq'[t] = seq[t],
         \A s \in Sas \ overlap : Rel(s) /\ Sa(l) = s /\ NonceInv(s) =>
           /\ seq'[s] \in Nat /\ seq[s] <= seq'[s]
           /\ Cur(l) \in Protected(s)' =>
                /\ GoodCtr(pkt'[Cur(l)], s, seq'[s])
                /\ \A i \in Protected(s) : i # Cur(l) => Ctr(pkt[i]) # Ctr(pkt'[Cur(l)])
           /\ Within(l, s)' => Stage(l, s)'
  PROVE  NInv'
<1> SUFFICES ASSUME NEW s \in Sas \ overlap, Rel(s) PROVE NonceInv(s)'
  BY DEF NInv, Rel
<1>1. NonceInv(s) /\ seq[s] \in Nat
  BY Types DEF NInv, OutInv
<1>2. env.lib = "off" /\ pc[l] \in Inside
  BY EspCur
<1>3. pc'[l] \in Inside => Sa(l)' = Sa(l)
  BY DEF Sa
<1>4. CASE Sa(l) # s
  BY <1>1, <1>3, <1>4, ElsewhereKeeps
<1>5. CASE Sa(l) = s
  <2>1. \A m \in Lcores \ {l} : ~Within(m, s)
    BY <1>1, <1>2, <1>5 DEF NonceInv, Within
  <2> QED
    BY <1>1, <1>5, <2>1, HereKeeps
<1> QED
  BY <1>4, <1>5

(* The store of the incremented counter. *)
LEMMA IncNonce ==
  ASSUME OutInv, NEW l \in Lcores, Inc(l), Moves(l), NInv
  PROVE  NInv'
<1> DEFINE c == Cur(l)
<1>1. /\ pc[l] = "inc" /\ InEsp(pc[l]) /\ ipsec' = ipsec /\ pkt' = pkt /\ overlap' = overlap /\ env' = env
      /\ tmp' = tmp /\ pc' = [pc EXCEPT ![l] = "hdr"] /\ seq' = [seq EXCEPT ![Sa(l)] = tmp[l] + 1]
  BY DEF Inc, Goto, SeqStore, InEsp, data
<1>2. c \in DOMAIN pkt /\ pkt[c].sa = Sa(l) /\ Sa(l) \in Sas
  BY <1>1, EspCur
<1>3. seq \in [Sas -> Nat] /\ tmp \in [Lcores -> Nat] /\ pc \in [Lcores -> Labels]
  BY Types DEF OutInv
<1>4. pc'[l] = "hdr" /\ Cur(l)' = c /\ Sa(l)' = Sa(l)
  BY <1>1, <1>3 DEF Cur, Sa
<1>5. ASSUME NEW s \in Sas \ overlap, Rel(s), Sa(l) = s, NonceInv(s)
      PROVE  /\ c \notin Protected(s)' /\ Stage(l, s)' /\ seq'[s] \in Nat /\ seq[s] <= seq'[s]
  <2>1. tmp[l] = seq[s]
    BY <1>1, <1>5 DEF NonceInv, Within, Stage, Inside
  <2>2. seq'[s] = seq[s] + 1 /\ seq[s] \in Nat
    BY <1>1, <1>3, <1>5, <2>1
  <2>3. c \notin Protected(s)'
    BY <1>4 DEF Protected, Cur, Inside
  <2>4. \A i \in Protected(s)' : Ctr(pkt'[i]) < seq'[s]
    <3> SUFFICES ASSUME NEW i \in Protected(s)' PROVE Ctr(pkt[i]) < seq'[s]
      BY <1>1
    <3>1. i \in Protected(s)
      BY <1>1, <2>3, StillProtected DEF Protected
    <3>2. Ctr(pkt[i]) \in 1 .. seq[s]
      BY <1>5, <3>1 DEF NonceInv, GoodCtr
    <3> QED
      BY <2>2, <3>2
  <2> QED
    BY <1>4, <2>2, <2>3, <2>4 DEF Stage
<1>6. \A t \in Sas : t # Sa(l) => seq'[t] = seq[t]
  BY <1>1, <1>3
<1> QED
  BY <1>1, <1>2, <1>5, <1>6, EspNonce
-----------------------------------------------------------------------------
(* The number in the header is that of the counter. *)
LEMMA HdrNonce ==
  ASSUME OutInv, NEW l \in Lcores, Hdr(l), Moves(l), NInv
  PROVE  NInv'
<1> DEFINE c == Cur(l)
<1>1. /\ pc[l] = "hdr" /\ InEsp(pc[l]) /\ ipsec' = ipsec /\ overlap' = overlap /\ seq' = seq /\ env' = env
      /\ pc' = [pc EXCEPT ![l] = "iv"] /\ pkt' = [pkt EXCEPT ![c].seq = seq[Sa(l)] % SEQ_MOD]
  BY DEF Hdr, Goto, InEsp, EspSeq
<1>2. c \in DOMAIN pkt /\ pkt[c] \in PktRec /\ pkt[c].sa = Sa(l) /\ Sa(l) \in Sas
  BY <1>1, EspCur
<1>3. pkt \in Seq(PktRec) /\ seq \in [Sas -> Nat] /\ pc \in [Lcores -> Labels]
  BY Types DEF OutInv
<1>4. pc'[l] = "iv" /\ Cur(l)' = c /\ Sa(l)' = Sa(l)
  BY <1>1, <1>3 DEF Cur, Sa
<1>5. /\ DOMAIN pkt' = DOMAIN pkt /\ (\A i \in DOMAIN pkt : i # c => pkt'[i] = pkt[i])
      /\ pkt'[c].sa = Sa(l) /\ pkt'[c].seq = seq[Sa(l)] % SEQ_MOD
  BY <1>1, <1>2, <1>3 DEF PktRec
<1> HIDE DEF c
<1>6. ASSUME NEW s \in Sas \ overlap, Sa(l) = s, NonceInv(s)
      PROVE  c \notin Protected(s)' /\ Stage(l, s)' /\ seq'[s] \in Nat /\ seq[s] <= seq'[s]
  <2>1. seq[s] > 0 /\ \A i \in Protected(s) : Ctr(pkt[i]) < seq[s]
    BY <1>1, <1>6 DEF NonceInv, Within, Stage, Inside
  <2>2. c \notin Protected(s)'
    BY <1>4 DEF Protected, Cur, Inside
  <2>3. \A i \in Protected(s)' : i \in Protected(s) /\ pkt'[i] = pkt[i]
    BY <1>5, <2>2, StillProtected DEF Protected, c
  <2>4. \A i \in Protected(s)' : Ctr(pkt'[i]) < seq'[s]
    BY <1>1, <2>1, <2>3
  <2>5. pkt'[Cur(l)'].seq = seq'[s] % SEQ_MOD
    BY <1>1, <1>4, <1>5, <1>6
  <2>6. seq'[s] > 0 /\ seq'[s] \in Nat /\ seq[s] <= seq'[s]
    BY <1>1, <1>3, <2>1
  <2> QED
    BY <1>4, <2>2, <2>4, <2>5, <2>6 DEF Stage
<1> QED
  BY <1>1, <1>5, <1>6, EspNonce DEF c

(* So is the explicit IV. *)
LEMMA IvNonce ==
  ASSUME OutInv, NEW l \in Lcores, Iv(l), Moves(l), NInv
  PROVE  NInv'
<1> DEFINE c == Cur(l)
           x == IF CounterIv(Rec(l)) THEN seq[Sa(l)] ELSE 0
           stays == Supported(Rec(l)) /\ Rec(l).act # "inl_crypto"
<1>1. /\ pc[l] = "iv" /\ InEsp(pc[l]) /\ overlap' = overlap /\ seq' = seq /\ env' = env
      /\ pkt' = [pkt EXCEPT ![c].iv = x]
  BY DEF Iv, InEsp
<1>2. /\ c \in DOMAIN pkt /\ pkt[c] \in PktRec /\ pkt[c].sa = Sa(l) /\ Sa(l) \in Sas
      /\ InXform(env, pkt[c])
  BY <1>1, EspCur
<1>3. pkt \in Seq(PktRec) /\ seq \in [Sas -> Nat] /\ pc \in [Lcores -> Labels]
  BY Types DEF OutInv
<1>4. IF stays THEN pc'[l] = "icb" /\ ipsec' = ipsec ELSE pc'[l] = "xform"
  BY <1>3 DEF Iv, Goto
<1>5. /\ DOMAIN pkt' = DOMAIN pkt /\ (\A i \in DOMAIN pkt : i # c => pkt'[i] = pkt[i])
      /\ pkt'[c].sa = Sa(l) /\ pkt'[c].seq = pkt[c].seq /\ pkt'[c].iv = x
  BY <1>1, <1>2, <1>3 DEF PktRec
<1>6. pc'[l] \in Inside => ipsec'[l] = ipsec[l] /\ Cur(l)' = c /\ Sa(l)' = Sa(l) /\ stays
  BY <1>4 DEF Cur, Sa, Inside
<1> HIDE DEF c
<1>7. ASSUME NEW s \in Sas \ overlap, Rel(s), Sa(l) = s, NonceInv(s)
      PROVE  /\ seq'[s] \in Nat /\ seq[s] <= seq'[s]
             /\ c \in Protected(s)' =>
                  /\ GoodCtr(pkt'[c], s, seq'[s])
                  /\ \A i \in Protected(s) : i # c => Ctr(pkt[i]) # Ctr(pkt'[c])
             /\ Within(l, s)' => Stage(l, s)'
  <2>1. /\ seq[s] > 0 /\ \A i \in Protected(s) : Ctr(pkt[i]) < seq[s]
        /\ pkt[c].seq = seq[s] % SEQ_MOD
    BY <1>1, <1>7 DEF NonceInv, Within, Stage, Inside, c
  <2>2. seq'[s] = seq[s] /\ seq[s] \in Nat /\ Rec(l) = SaRec[s]
    BY <1>1, <1>3, <1>7 DEF Rec
  <2>3. \A i \in Protected(s)' : i # c => i \in Protected(s) /\ pkt'[i] = pkt[i]
    BY <1>5, StillProtected DEF Protected, c
  <2>4. CASE stays
    <3>1. pc'[l] = "icb" /\ Cur(l)' = c
      BY <1>4, <1>6, <2>4 DEF Inside
    <3>2. c \notin Protected(s)'
      BY <3>1 DEF Protected, Cur, Inside
    <3>3. \A i \in Protected(s)' : Ctr(pkt'[i]) < seq'[s]
      BY <2>1, <2>2, <2>3, <3>2
    <3>4. pkt'[Cur(l)'].seq = seq'[s] % SEQ_MOD /\ (CounterIv(SaRec[s]) => pkt'[Cur(l)'].iv = seq'[s])
      BY <1>5, <1>7, <2>1, <2>2, <3>1
    <3>5. Stage(l, s)'
      BY <2>1, <2>2, <3>1, <3>3, <3>4 DEF Stage
    <3> QED
      BY <2>2, <3>2, <3>5
  <2>5. CASE ~stays
    <3>1. pc'[l] = "xform" /\ ~Within(l, s)'
      BY <1>4, <2>5 DEF Within, Inside
    <3>2. SaRec[s].act # "none" /\ CounterIv(SaRec[s])
      BY <1>7, <2>2, <2>5 DEF Rel
    <3>3. Ctr(pkt'[c]) = seq[s] /\ pkt'[c].iv = seq[s]
      BY <1>5, <1>7, <2>2, <3>2 DEF Ctr
    <3>4. GoodCtr(pkt'[c], s, seq'[s])
      BY <1>5, <2>1, <2>2, <3>3 DEF GoodCtr
    <3>5. \A i \in Protected(s) : Ctr(pkt[i]) # Ctr(pkt'[c])
      <4> SUFFICES ASSUME NEW i \in Protected(s) PROVE Ctr(pkt[i]) # seq[s]
        BY <3>3
      <4>1. Ctr(pkt[i]) < seq[s] /\ Ctr(pkt[i]) \in 1 .. seq[s]
        BY <1>7, <2>1 DEF NonceInv, GoodCtr
      <4> QED
        BY <2>2, <4>1
    <3> QED
      BY <2>2, <3>1, <3>4, <3>5
  <2> QED
    BY <2>4, <2>5
<1> QED
  BY <1>1, <1>5, <1>6, <1>7, EspNonce DEF c

(* So is the counter block; the packet is protected now. *)
LEMMA IcbNonce ==
  ASSUME OutInv, NEW l \in Lcores, Icb(l), Moves(l), NInv
  PROVE  NInv'
<1> DEFINE c == Cur(l)
<1>1. /\ pc[l] = "icb" /\ InEsp(pc[l]) /\ overlap' = overlap /\ seq' = seq /\ env' = env
      /\ pkt' = [pkt EXCEPT ![c].icb = seq[Sa(l)]] /\ pc' = [pc EXCEPT ![l] = "xform"]
  BY DEF Icb, InEsp, Goto
<1>2. /\ c \in DOMAIN pkt /\ pkt[c] \in PktRec /\ pkt[c].sa = Sa(l) /\ Sa(l) \in Sas
  BY <1>1, EspCur
<1>3. pkt \in Seq(PktRec) /\ seq \in [Sas -> Nat] /\ pc \in [Lcores -> Labels]
  BY Types DEF OutInv
<1>4. pc'[l] = "xform" /\ pc'[l] \notin Inside /\ SaRec[Sa(l)].act = "none"
  BY <1>1, <1>3 DEF Inside, OutInv, Facts
<1>5. /\ DOMAIN pkt' = DOMAIN pkt /\ (\A i \in DOMAIN pkt : i # c => pkt'[i] = pkt[i])
      /\ pkt'[c].sa = Sa(l) /\ pkt'[c].seq = pkt[c].seq /\ pkt'[c].iv = pkt[c].iv
      /\ pkt'[c].icb = seq[Sa(l)]
  BY <1>1, <1>2, <1>3 DEF PktRec
<1> HIDE DEF c
<1>6. ASSUME NEW s \in Sas \ overlap, Sa(l) = s, NonceInv(s)
      PROVE  /\ seq'[s] \in Nat /\ seq[s] <= seq'[s]
             /\ GoodCtr(pkt'[c], s, seq'[s])
             /\ \A i \in Protected(s) : i # c => Ctr(pkt[i]) # Ctr(pkt'[c])
             /\ ~Within(l, s)'
  <2>1. /\ seq[s] > 0 /\ \A i \in Protected(s) : Ctr(pkt[i]) < seq[s]
        /\ pkt[c].seq = seq[s] % SEQ_MOD
        /\ CounterIv(SaRec[s]) => pkt[c].iv = seq[s]
    BY <1>1, <1>6 DEF NonceInv, Within, Stage, Inside, c
  <2>2. seq'[s] = seq[s] /\ seq[s] \in Nat
    BY <1>1, <1>3
  <2>3. Ctr(pkt'[c]) = seq[s]
    BY <1>4, <1>5, <1>6 DEF Ctr
  <2>4. GoodCtr(pkt'[c], s, seq'[s])
    BY <1>5, <2>1, <2>2, <2>3 DEF GoodCtr
  <2>5. \A i \in Protected(s) : Ctr(pkt[i]) # Ctr(pkt'[c])
    <3> SUFFICES ASSUME NEW i \in Protected(s) PROVE Ctr(pkt[i]) # seq[s]
      BY <2>3
    <3>1. Ctr(pkt[i]) < seq[s] /\ Ctr(pkt[i]) \in 1 .. seq[s]
      BY <1>6, <2>1 DEF NonceInv, GoodCtr
    <3> QED
      BY <2>2, <3>1
  <2>6. ~Within(l, s)'
    BY <1>4 DEF Within
  <2> QED
    BY <2>2, <2>4, <2>5, <2>6
<1> QED
  BY <1>1, <1>4, <1>5, <1>6, EspNonce DEF c

(* The library takes a number no protected packet has. *)
LEMMA LibTakeNonce ==
  ASSUME OutInv, NEW l \in Lcores, LibTake(l), Moves(l), NInv
  PROVE  NInv'
<1> SUFFICES ASSUME NEW s \in Sas \ overlap', Rel(s) PROVE NonceInv(s)'
  BY DEF NInv, Rel
<1> DEFINE c == Cur(l)
<1>1. /\ pc[l] = "xform" /\ ipsec[l] # <<>> /\ pc[l] # "spd" /\ ~InEsp(pc[l]) /\ ipsec' = ipsec /\ pkt' = pkt
      /\ tmp' = [tmp EXCEPT ![l] = seq[Sa(l)]] /\ pc' = [pc EXCEPT ![l] = "lib"] /\ env' = env
      /\ env.lib # "off"
  BY DEF LibTake, At, Goto, data, InEsp
<1>2. c \in DOMAIN pkt /\ Fresh(pkt[c]) /\ Sa(l) \in Sas
  BY <1>1, CurFacts
<1>3. seq \in [Sas -> Nat] /\ tmp \in [Lcores -> Nat] /\ pc \in [Lcores -> Labels]
      /\ env.lib \in {"plain", "atomic"}
  BY <1>1, Types, OutFacts DEF OutInv, EnvOK
<1>4. Sa(l)' = Sa(l) /\ Cur(l)' = c /\ pc'[l] = "lib" /\ tmp'[l] = seq[Sa(l)]
  BY <1>1, <1>3 DEF Sa, Cur
<1>5. IF env.lib = "atomic" THEN seq' = [seq EXCEPT ![Sa(l)] = seq[Sa(l)] + 1] /\ overlap' = overlap
                            ELSE seq' = seq /\ Enter(l)
  BY DEF LibTake
<1>6. overlap \subseteq overlap' /\ NonceInv(s)
  BY <1>5 DEF Enter, NInv
<1>7. CASE Sa(l) # s
  <2>1. seq'[s] = seq[s]
    BY <1>3, <1>5, <1>7
  <2> QED
    BY <1>1, <1>2, <1>4, <1>6, <1>7, <2>1, ElsewhereKeeps DEF Fresh
<1>8. CASE Sa(l) = s
  <2>1. c \notin Protected(s)'
    BY <1>4 DEF Protected, Cur, Inside
  <2>2. \A i \in Protected(s)' : i \in Protected(s) /\ pkt'[i] = pkt[i]
    BY <1>1, <2>1, StillProtected DEF Protected
  <2>3. \A i \in Protected(s) : Ctr(pkt[i]) \in 1 .. seq[s]
    BY <1>6 DEF NonceInv, GoodCtr
  <2>4. CASE env.lib = "atomic"
    <3>1. seq'[s] = seq[s] + 1 /\ seq[s] \in Nat
      BY <1>3, <1>5, <1>8, <2>4
    <3>2. \A i \in Protected(s)' : Ctr(pkt'[i]) # tmp'[l] + 1
      BY <1>4, <1>8, <2>2, <2>3, <3>1
    <3>3. Stage(l, s)'
      BY <1>1, <1>4, <1>8, <2>4, <3>1, <3>2 DEF Stage
    <3>4. ASSUME NEW m \in Lcores \ {l}, Within(m, s)
          PROVE  tmp'[l] # tmp[m]
      <4>1. pc[m] = "lib"
        BY <3>4, <1>1 DEF OutInv, Control, Within, Inside
      <4>2. tmp[m] + 1 <= seq[s] /\ tmp[m] \in Nat
        BY <1>3, <1>6, <2>4, <3>4, <4>1 DEF NonceInv, Stage
      <4> QED
        BY <1>4, <1>8, <3>1, <4>2
    <3>5. seq[s] \in Nat /\ seq'[s] \in Nat /\ seq[s] <= seq'[s]
      BY <3>1
    <3> QED
      BY <1>1, <1>6, <1>8, <2>1, <2>4, <3>3, <3>4, <3>5, HereKeeps
  <2>5. CASE env.lib # "atomic"
    <3>1. \A m \in Lcores \ {l} : ~Within(m, s)
      BY <1>5, <1>8, <2>5, EnterAlone
    <3>2. seq'[s] = seq[s] /\ seq[s] \in Nat
      BY <1>3, <1>5, <2>5
    <3>3. Stage(l, s)'
      BY <1>1, <1>4, <1>8, <2>5, <3>2 DEF Stage
    <3>4. seq[s] \in Nat /\ seq'[s] \in Nat /\ seq[s] <= seq'[s]
      BY <3>2
    <3> QED
      BY <1>1, <1>6, <1>8, <2>1, <3>1, <3>3, <3>4, HereKeeps
  <2> QED
    BY <2>4, <2>5
<1> QED
  BY <1>7, <1>8

(* It writes the number it took. *)
LEMMA LibPutNonce ==
  ASSUME OutInv, NEW l \in Lcores, LibPut(l), Moves(l), NInv
  PROVE  NInv'
<1> SUFFICES ASSUME NEW s \in Sas \ overlap', Rel(s) PROVE NonceInv(s)'
  BY DEF NInv, Rel
<1> DEFINE c == Cur(l)
           R == Rec(l)
           x == IF CounterIv(R) THEN tmp[l] + 1 ELSE 0
           y == IF R.act = "none" THEN tmp[l] + 1 ELSE 0
           t == [pkt EXCEPT ![c].sa = Sa(l)]
<1>1. /\ pc[l] = "lib" /\ ipsec[l] # <<>> /\ env.lib # "off" /\ ~InEsp(pc[l])
      /\ pc[l] \in Inside /\ pc[l] # "spd" /\ tmp[l] + 1 < SEQ_MOD
      /\ overlap' = overlap /\ env' = env /\ pc' = [pc EXCEPT ![l] = "xform"]
      /\ seq' = IF env.lib = "plain" THEN [seq EXCEPT ![Sa(l)] = tmp[l] + 1] ELSE seq
  BY DEF LibPut, OutInv, InEsp, Control, Inside, Goto
<1>2. c \in DOMAIN pkt /\ pkt[c] \in PktRec /\ Sa(l) \in Sas
  BY <1>1, CurFacts
<1>3. seq \in [Sas -> Nat] /\ tmp \in [Lcores -> Nat] /\ pc \in [Lcores -> Labels]
      /\ pkt \in Seq(PktRec) /\ env.lib \in {"plain", "atomic"} /\ SEQ_MOD \in Nat \ {0}
  BY <1>1, Types, OutFacts DEF OutInv, EnvOK
<1>4. /\ DOMAIN pkt' = DOMAIN pkt /\ (\A i \in DOMAIN pkt : i # c => pkt'[i] = pkt[i])
      /\ pkt'[c].sa = Sa(l) /\ pkt'[c].seq = tmp[l] + 1 /\ pkt'[c].iv = x /\ pkt'[c].icb = y
  <2>1. /\ t \in Seq(PktRec) /\ DOMAIN t = DOMAIN pkt /\ t[c] = [pkt[c] EXCEPT !.sa = Sa(l)]
        /\ t[c] \in PktRec /\ \A i \in DOMAIN pkt : i # c => t[i] = pkt[i]
    <3> DEFINE p == [pkt[c] EXCEPT !.sa = Sa(l)]
    <3>1. p \in PktRec
      BY <1>2 DEF PktRec
    <3>2. t = [pkt EXCEPT ![c] = p]
      OBVIOUS
    <3> HIDE DEF p, t
    <3>3. /\ t \in Seq(PktRec) /\ DOMAIN t = DOMAIN pkt /\ t[c] = p
          /\ \A i \in DOMAIN pkt : i # c => t[i] = pkt[i]
      BY <1>2, <1>3, <3>1, <3>2
    <3> QED
      BY <3>1, <3>3 DEF p
  <2>2. pkt' = [t EXCEPT ![c] = [t[c] EXCEPT !.esp = EspOut(R, Wp(l)), !.seq = tmp[l] + 1,
                                             !.iv = x, !.icb = y, !.off = R.act \in {"inl_crypto", "inl_proto"}]]
    BY DEF LibPut, Tag
  <2>3. t[c].sa = Sa(l)
    BY <1>2, <2>1 DEF PktRec
  <2> HIDE DEF t, x, y, R
  <2>4. pkt'[c] = [t[c] EXCEPT !.esp = EspOut(R, Wp(l)), !.seq = tmp[l] + 1,
                               !.iv = x, !.icb = y, !.off = R.act \in {"inl_crypto", "inl_proto"}]
    BY <1>2, <2>1, <2>2
  <2>5. pkt'[c].sa = Sa(l) /\ pkt'[c].seq = tmp[l] + 1 /\ pkt'[c].iv = x /\ pkt'[c].icb = y
    BY <2>1, <2>3, <2>4 DEF PktRec
  <2> QED
    BY <2>1, <2>2, <2>5
<1>5. pc'[l] = "xform" /\ pc'[l] \notin Inside
  BY <1>1, <1>3 DEF Inside
<1>6. NonceInv(s)
  BY <1>1 DEF NInv
<1> HIDE DEF c
<1>7. CASE Sa(l) # s
  <2>1. seq'[s] = seq[s]
    BY <1>1, <1>3, <1>7
  <2> QED
    BY <1>4, <1>5, <1>6, <1>7, <2>1, ElsewhereKeeps DEF c
<1>8. CASE Sa(l) = s
  <2>1. Stage(l, s) /\ tmp[l] \in Nat /\ seq[s] \in Nat
    BY <1>1, <1>3, <1>6, <1>8 DEF NonceInv, Within
  <2>2. R = SaRec[s]
    BY <1>8 DEF Rec
  <2>3. Ctr(pkt'[c]) = tmp[l] + 1 /\ (CounterIv(SaRec[s]) => pkt'[c].iv = tmp[l] + 1)
    BY <1>4, <1>8, <2>2 DEF Ctr, Rel
  <2>4. pkt'[c].seq = (tmp[l] + 1) % SEQ_MOD
    BY <1>1, <1>3, <1>4, <2>1, SmallMod
  <2>5. seq'[s] \in Nat /\ seq[s] <= seq'[s] /\ tmp[l] + 1 <= seq'[s]
    <3>1. CASE env.lib = "plain"
      BY <1>1, <1>3, <1>8, <2>1, <3>1 DEF Stage
    <3>2. CASE env.lib = "atomic"
      BY <1>1, <2>1, <3>2 DEF Stage
    <3> QED
      BY <1>3, <3>1, <3>2
  <2>6. GoodCtr(pkt'[c], s, seq'[s])
    BY <2>1, <2>3, <2>4, <2>5 DEF GoodCtr
  <2>7. \A i \in Protected(s) : Ctr(pkt[i]) # tmp[l] + 1
    <3> SUFFICES ASSUME NEW i \in Protected(s) PROVE Ctr(pkt[i]) # tmp[l] + 1
      OBVIOUS
    <3>1. Ctr(pkt[i]) \in 1 .. seq[s]
      BY <1>6 DEF NonceInv, GoodCtr
    <3>2. CASE env.lib = "plain"
      BY <1>1, <2>1, <3>1, <3>2 DEF Stage
    <3>3. CASE env.lib = "atomic"
      BY <1>1, <2>1, <3>3 DEF Stage
    <3> QED
      BY <1>3, <3>2, <3>3
  <2>8. ASSUME NEW m \in Lcores \ {l}, Within(m, s)
        PROVE  env.lib = "atomic" /\ Ctr(pkt'[c]) # tmp[m] + 1
    <3>1. env.lib = "atomic" /\ tmp[l] # tmp[m]
      BY <1>1, <1>6, <1>8, <2>8 DEF NonceInv, Within
    <3>2. tmp[m] \in Nat
      BY <1>3
    <3> QED
      BY <2>1, <2>3, <3>1, <3>2
  <2>9. ~Within(l, s)'
    BY <1>5 DEF Within
  <2> QED
    BY <1>4, <1>6, <1>8, <2>1, <2>3, <2>5, <2>6, <2>7, <2>8, <2>9, HereKeeps DEF c
<1> QED
  BY <1>7, <1>8
-----------------------------------------------------------------------------
(* The other steps give no packet a counter. *)
LEMMA OutsideNonce ==
  ASSUME OutInv, NEW l \in Lcores, Moves(l), NInv,
         Rx(l) \/ Spd(l) \/ XformFree(l) \/ XformProto(l) \/ XformEnd(l) \/ Route(l) \/ Drain(l) \/ Idle(l)
  PROVE  NInv'
<1>1. OutShape /\ pc \in [Lcores -> Labels] /\ pkt \in Seq(PktRec)
  BY Types DEF OutInv
<1>2. pc[l] \notin Inside /\ pc'[l] \notin Inside /\ seq' = seq /\ overlap' = overlap
  BY <1>1 DEF Rx, Spd, XformFree, XformProto, XformEnd, Route, Drain, Idle, At, Goto, Inside, data
<1>3. ASSUME NEW i \in DOMAIN pkt', pkt'[i].esp # NoEsp
      PROVE  /\ i \in DOMAIN pkt /\ pkt'[i].sa = pkt[i].sa /\ pkt'[i].esp = pkt[i].esp
             /\ pkt'[i].seq = pkt[i].seq /\ pkt'[i].iv = pkt[i].iv /\ pkt'[i].icb = pkt[i].icb
  <2>1. CASE Spd(l) \/ XformFree(l) \/ Route(l) \/ Drain(l) \/ Idle(l)
    <3>1. pkt' = pkt
      BY <2>1 DEF Spd, XformFree, Route, Drain, Idle, data
    <3> QED
      BY <3>1
  <2>2. CASE XformProto(l)
    <3>1. pc[l] = "xform" /\ ipsec[l] # <<>> /\ ~InEsp(pc[l]) /\ pc[l] # "spd"
      BY <2>2 DEF XformProto, At, InEsp
    <3>2. Cur(l) \in DOMAIN pkt /\ Fresh(pkt[Cur(l)]) /\ pkt[Cur(l)] \in PktRec
      BY <3>1, CurFacts
    <3>3. pkt' = [pkt EXCEPT ![Cur(l)].sa = Sa(l)]
      BY <2>2 DEF XformProto, Tag
    <3>4. pkt'[Cur(l)].esp = NoEsp /\ DOMAIN pkt' = DOMAIN pkt
          /\ \A j \in DOMAIN pkt : j # Cur(l) => pkt'[j] = pkt[j]
      BY <1>1, <3>2, <3>3 DEF Fresh, PktRec
    <3> QED
      BY <1>3, <3>4
  <2>3. CASE XformEnd(l)
    <3>1. pkt' = [j \in DOMAIN pkt |-> IF j \in Ran(ol[l]) THEN [pkt[j] EXCEPT !.off = TRUE] ELSE pkt[j]]
      BY <2>3 DEF XformEnd
    <3>2. i \in DOMAIN pkt /\ pkt[i] \in PktRec
      BY <1>1, <3>1
    <3> QED
      BY <3>1, <3>2 DEF PktRec
  <2>4. CASE Rx(l)
    <3>1. env' = env
      BY <2>4 DEF Rx
    <3>5a. PICK n \in 1 .. MAX_PKT_BURST : \E b \in [1 .. n -> env.wire] :
            Len(pkt) + n <= env.max /\ pkt' = pkt \o [k \in 1 .. n |-> Arrived(b[k])]
      BY <2>4 DEF Rx
    <3>2. PICK b \in [1 .. n -> env.wire] :
            Len(pkt) + n <= env.max /\ pkt' = pkt \o [k \in 1 .. n |-> Arrived(b[k])]
      BY <3>5a
    <3>3. n \in Nat /\ Len(pkt) \in Nat
      BY <1>1, OutAssumption
    <3>4. /\ Len(pkt') = Len(pkt) + n /\ pkt' \in Seq(PktRec)
          /\ \A j \in DOMAIN pkt : pkt'[j] = pkt[j]
          /\ \A k \in 1 .. n : pkt'[Len(pkt) + k] = Arrived(b[k])
      BY <1>1, <3>1, <3>2, <3>3, Grows
    <3>5. i \in DOMAIN pkt
      <4> SUFFICES ASSUME i \notin DOMAIN pkt PROVE FALSE
        OBVIOUS
      <4>1. i - Len(pkt) \in 1 .. n /\ Len(pkt) + (i - Len(pkt)) = i
        BY <1>1, <3>3, <3>4
      <4>2. pkt'[i] = Arrived(b[i - Len(pkt)])
        BY <3>4, <4>1
      <4> QED
        BY <1>3, <4>2 DEF Arrived
    <3> QED
      BY <3>4, <3>5
  <2> QED
    BY <2>1, <2>2, <2>3, <2>4
<1> QED
  BY <1>2, <1>3, OutsideKeeps

(* The inductive step of both invariants. *)
LEMMA NonceStep == OutInv /\ NInv /\ [Next]_vars => NInv'
<1> SUFFICES ASSUME OutInv, NInv, [Next]_vars PROVE NInv'
  OBVIOUS
<1>1. CASE UNCHANGED vars
  <2>1. /\ env' = env /\ pc' = pc /\ pkt' = pkt /\ ipsec' = ipsec
        /\ seq' = seq /\ tmp' = tmp /\ overlap' = overlap
    BY <1>1 DEF vars, data
  <2> SUFFICES ASSUME NEW s \in Sas \ overlap, Rel(s) PROVE NonceInv(s)'
    BY <2>1 DEF NInv, Rel
  <2>2. NonceInv(s)
    BY DEF NInv
  <2>3. \A i \in Protected(s)' : i \in Protected(s)
    BY <2>1 DEF Protected
  <2>4. \A m \in Lcores : Cur(m)' = Cur(m) /\ (Within(m, s)' <=> Within(m, s))
    BY <2>1 DEF Cur, Within, Sa
  <2> QED
    BY <2>1, <2>2, <2>3, <2>4, Quiet
<1>2. CASE Next
  <2>1. PICK l \in env.lcores :
          \/ Rx(l) \/ Spd(l) \/ XformFree(l) \/ XformProto(l) \/ XformEsp(l) \/ Inc(l) \/ Hdr(l)
          \/ Iv(l) \/ Icb(l) \/ LibTake(l) \/ LibPut(l) \/ XformEnd(l) \/ Route(l) \/ Drain(l)
          \/ Idle(l)
    BY <1>2 DEF Next
  <2>2. l \in Lcores
    BY OutFacts DEF OutInv
  <2>3. Moves(l)
    BY <2>1, <2>2, RxMoves, SpdMoves, XformFreeMoves, XformProtoMoves, XformEspMoves, IncMoves,
       HdrMoves, IvMoves, IcbMoves, LibTakeMoves, LibPutMoves, XformEndMoves, RouteMoves,
       DrainMoves, IdleMoves
  <2>4. CASE \/ Rx(l) \/ Spd(l) \/ XformFree(l) \/ XformProto(l) \/ XformEnd(l) \/ Route(l)
             \/ Drain(l) \/ Idle(l)
    BY <2>2, <2>3, <2>4, OutsideNonce
  <2>5. CASE \/ XformEsp(l) \/ Inc(l) \/ Hdr(l) \/ Iv(l) \/ Icb(l) \/ LibTake(l) \/ LibPut(l)
    BY <2>2, <2>3, <2>5, XformEspNonce, IncNonce, HdrNonce, IvNonce, IcbNonce, LibTakeNonce,
       LibPutNonce
  <2> QED
    BY <2>1, <2>4, <2>5
<1> QED
  BY <1>1, <1>2

(* No two packets of an SA are given one counter block, unless two lcores  *)
(* have been inside its esp_outbound, or its -l library, at once: whatever *)
(* the number of lcores, SAs and packets.                                  *)
THEOREM CountersAreUnique == OutSpec => []NonceUnique
<1>1. Init => NInv
  <2> SUFFICES ASSUME Init, NEW s \in Sas PROVE NonceInv(s)
    BY DEF NInv
  <2>1. Protected(s) = {} /\ \A l \in Lcores : pc[l] = "rx"
    BY DEF Init, Protected
  <2> QED
    BY <2>1 DEF NonceInv, Within, Inside
<1>2. OutInv /\ NInv => NonceUnique
  <2> SUFFICES ASSUME NInv, NEW s \in Sas \ overlap, Rel(s)
               PROVE  /\ \A i \in Protected(s) :
                           /\ Counter(i) > 0 /\ pkt[i].seq = Counter(i) % SEQ_MOD
                           /\ CounterIv(SaRec[s]) => pkt[i].iv = Counter(i)
                      /\ \A i, j \in Protected(s) : i # j => Counter(i) # Counter(j)
    BY DEF NonceUnique, Rel
  <2>1. \A i : Counter(i) = Ctr(pkt[i])
    BY DEF Counter, Ctr
  <2>2. NonceInv(s)
    BY DEF NInv
  <2>3. \A i \in Protected(s) : Ctr(pkt[i]) > 0
    BY <2>2 DEF NonceInv, GoodCtr
  <2> QED
    BY <2>1, <2>2, <2>3 DEF NonceInv, GoodCtr
<1> QED
  BY <1>1, <1>2, NonceStep, OutInvariant, PTL DEF OutSpec
-----------------------------------------------------------------------------
(* Bounds of the counters.  Pending: the packets for which lcore l may     *)
(* still take a number; each other one took one at most.                   *)
Took(l) == pc[l] \in {"hdr", "iv", "icb"} \/ (pc[l] = "lib" /\ env.lib = "atomic")

Pending(l) ==
  (IF pc[l] = "spd" THEN Listed(l) ELSE {})
    \cup (Firsts(ipsec[l]) \ (IF Took(l) THEN {Cur(l)} ELSE {}))

Used == {i \in DOMAIN pkt : \A l \in Lcores : i \notin Pending(l)}

Counted ==
  /\ \A s \in Sas : seq[s] <= Cardinality(Used)
  /\ \A l \in Lcores : tmp[l] <= Cardinality(Used)

(* A set of packets has at most MaxPkts members. *)
LEMMA UsedFinite ==
  ASSUME NEW S, S \subseteq Ids
  PROVE  IsFiniteSet(S) /\ Cardinality(S) \in Nat /\ Cardinality(S) <= MaxPkts
<1>1. IsFiniteSet(Ids) /\ MaxPkts \in Nat
  BY IdsFinite, OutAssumption
<1>2. Cardinality(Ids) = MaxPkts
  BY <1>1, FS_Interval DEF Ids
<1> QED
  BY <1>1, <1>2, FS_Subset, FS_CardinalityType

(* The packets a lcore is done with stay so. *)
LEMMA UsedGrows ==
  ASSUME OutInv, OutShape', NEW l \in Lcores, Moves(l),
         Pending(l)' \subseteq Pending(l) \cup (DOMAIN pkt' \ DOMAIN pkt)
  PROVE  /\ Cardinality(Used) \in Nat /\ Cardinality(Used') \in Nat
         /\ Cardinality(Used) <= Cardinality(Used')
         /\ \A c \in Pending(l) : c \in DOMAIN pkt /\ c \notin Pending(l)' =>
              Cardinality(Used) + 1 <= Cardinality(Used')
<1>1. OutShape /\ Places
  BY DEF OutInv
<1>2. IsFiniteSet(Used) /\ Cardinality(Used) \in Nat
  BY <1>1, UsedFinite, OutFacts DEF Used
<1>3. pkt' \in Seq(PktRec') /\ Len(pkt') <= env.max /\ env.max \in Nat /\ env.max <= MaxPkts
  BY <1>1, OutFacts DEF Moves, Only, OutShape
<1>4. DOMAIN pkt' = 1 .. Len(pkt') /\ Len(pkt') \in Nat /\ MaxPkts \in Nat
  BY <1>3, OutAssumption
<1>5. IsFiniteSet(Used') /\ Cardinality(Used') \in Nat
  <2>1. Used' \subseteq Ids
    BY <1>3, <1>4 DEF Used, Ids
  <2> QED
    BY <2>1, UsedFinite
<1>6. DOMAIN pkt \subseteq DOMAIN pkt'
  BY <1>1, <1>4, OutFacts DEF Moves
<1>7. \A m \in Lcores \ {l} : Pending(m)' = Pending(m)
  BY DEF Moves, Only, Pending, Took, Listed, Cur
<1>8. Used \subseteq Used'
  BY <1>6, <1>7 DEF Used
<1>9. ASSUME NEW c \in Pending(l), c \in DOMAIN pkt, c \notin Pending(l)'
      PROVE  Cardinality(Used) + 1 <= Cardinality(Used')
  <2>1. \A m \in Lcores : Pending(m) \subseteq Mine(m)
    BY DEF Pending, Mine
  <2>2. \A m \in Lcores \ {l} : c \notin Pending(m)
    BY <1>1, <1>9, <2>1 DEF Places, Apart
  <2>3. c \notin Used /\ c \in Used'
    BY <1>6, <1>7, <1>9, <2>2 DEF Used
  <2>4. Cardinality(Used \cup {c}) = Cardinality(Used) + 1 /\ IsFiniteSet(Used \cup {c})
    BY <1>2, <2>3, FS_AddElement
  <2>5. Used \cup {c} \subseteq Used'
    BY <1>8, <2>3
  <2> QED
    BY <1>5, <2>4, <2>5, FS_Subset
<1>10. Cardinality(Used) <= Cardinality(Used')
  BY <1>5, <1>8, FS_Subset
<1> QED
  BY <1>2, <1>5, <1>9, <1>10

(* Where a lcore takes no number. *)
LEMMA PendingStays ==
  ASSUME NEW l \in Lcores, pc'[l] # "spd", ipsec'[l] = ipsec[l], Took(l) => Took(l)'
  PROVE  Pending(l)' \subseteq Pending(l)
<1>1. Cur(l)' = Cur(l)
  BY DEF Cur
<1> QED
  BY <1>1 DEF Pending

(* The first packet of ipsec is done with. *)
LEMMA PendingPops ==
  ASSUME OutInv, NEW l \in Lcores, pc[l] \in {"xform"} \cup Inside, ipsec[l] # <<>>,
         pc'[l] = "xform", ipsec'[l] = Tail(ipsec[l])
  PROVE  Pending(l)' \subseteq Pending(l) /\ Cur(l) \notin Pending(l)'
<1>1. pc[l] # "spd"
  BY DEF Inside
<1>2. /\ Firsts(ipsec[l]) = Firsts(Tail(ipsec[l])) \cup {Cur(l)}
      /\ Cur(l) \notin Firsts(Tail(ipsec[l]))
  BY <1>1, CurFacts
<1>3. Pending(l)' \subseteq Firsts(Tail(ipsec[l]))
  BY DEF Pending
<1> QED
  BY <1>2, <1>3 DEF Pending
-----------------------------------------------------------------------------
(* Steps that store no counter take nothing from Used. *)
LEMMA PendingKeeps ==
  ASSUME OutInv, NEW l \in Lcores, Moves(l),
         \/ Rx(l) \/ Spd(l) \/ XformFree(l) \/ XformProto(l) \/ XformEsp(l) \/ Inc(l) \/ Hdr(l)
         \/ Iv(l) \/ Icb(l) \/ LibTake(l) \/ LibPut(l) \/ XformEnd(l) \/ Route(l) \/ Drain(l)
         \/ Idle(l)
  PROVE  Pending(l)' \subseteq Pending(l) \cup (DOMAIN pkt' \ DOMAIN pkt)
<1>1. pc \in [Lcores -> Labels] /\ ipsec \in [Lcores -> Entries] /\ Control(l) /\ env' = env
  BY Types DEF OutInv, Moves, Only
<1>2. /\ OncePlaced(l)' /\ Mine(l)' \subseteq Mine(l) \cup (DOMAIN pkt' \ DOMAIN pkt)
  BY DEF Moves
<1>3. CASE Rx(l)
  <2>1. pc[l] = "rx" /\ pc'[l] = "spd" /\ crypto' = crypto /\ ol' = ol
    BY <1>1, <1>3 DEF Rx, Goto
  <2>2. Mine(l) = crypto[l]
    BY <1>1, <2>1, NoPktsFacts, RanEmpty DEF Control, Mine, Listed
  <2>3. \A i \in Listed(l)' \cup Firsts(ipsec'[l]) : i \notin crypto'[l] /\ i \in Mine(l)'
    BY <1>2 DEF OncePlaced, Apart, Mine
  <2> QED
    BY <1>2, <2>1, <2>2, <2>3 DEF Pending
<1>4. CASE Spd(l)
  <2>1. pc[l] = "spd" /\ pc'[l] = "xform" /\ crypto' = crypto /\ ol' = ol /\ pkt' = pkt
    BY <1>1, <1>4 DEF Spd, Goto
  <2>2. Mine(l) = Listed(l) \cup Firsts(ipsec[l]) \cup crypto[l]
    BY <1>1, <2>1, RanEmpty DEF Control, Mine
  <2>3. \A i \in Firsts(ipsec'[l]) : i \notin crypto'[l] /\ i \in Mine(l)'
    BY <1>2 DEF OncePlaced, Apart, Mine
  <2>4. Pending(l) = Listed(l) \cup Firsts(ipsec[l])
    BY <2>1 DEF Pending, Took
  <2> QED
    BY <1>2, <2>1, <2>2, <2>3, <2>4 DEF Pending
<1>5. CASE XformFree(l) \/ XformProto(l)
  <2>1. pc[l] = "xform" /\ ipsec[l] # <<>> /\ pc' = pc /\ ipsec' = [ipsec EXCEPT ![l] = Tail(@)]
    BY <1>5 DEF XformFree, XformProto, At, Pop
  <2>2. ipsec'[l] = Tail(ipsec[l])
    BY <1>1, <2>1
  <2> QED
    BY <2>1, <2>2, PendingPops
<1>6. CASE Icb(l) \/ LibPut(l)
  <2>1. pc[l] \in Inside /\ pc' = [pc EXCEPT ![l] = "xform"] /\ ipsec' = [ipsec EXCEPT ![l] = Tail(@)]
    BY <1>6 DEF Icb, LibPut, Inside, Goto, Pop
  <2>2. ipsec'[l] = Tail(ipsec[l]) /\ pc'[l] = "xform" /\ ipsec[l] # <<>>
    BY <1>1, <2>1 DEF Control
  <2> QED
    BY <2>1, <2>2, PendingPops
<1>7. CASE XformEsp(l) \/ Inc(l) \/ Hdr(l) \/ LibTake(l) \/ XformEnd(l) \/ Route(l) \/ Drain(l) \/ Idle(l)
  <2>1. ipsec' = ipsec /\ \/ pc[l] \in {"xform", "route", "drain", "rx"} /\ pc'[l] \in {"inc", "lib", "route", "drain", "rx"}
                          \/ pc[l] \in {"inc", "hdr"} /\ pc'[l] \in {"hdr", "iv"}
    BY <1>1, <1>7, Zenon DEF XformEsp, Inc, Hdr, LibTake, XformEnd, Route, Drain, Idle, At, Goto, data
  <2>2. pc'[l] # "spd" /\ ipsec'[l] = ipsec[l] /\ (Took(l) => Took(l)')
    <3>1. ipsec'[l] = ipsec[l]
      BY <2>1, Zenon
    <3>2. CASE pc[l] \in {"xform", "route", "drain", "rx"} /\ pc'[l] \in {"inc", "lib", "route", "drain", "rx"}
      BY <3>1, <3>2, SMTT(30) DEF Took
    <3>3. CASE pc[l] \in {"inc", "hdr"} /\ pc'[l] \in {"hdr", "iv"}
      BY <3>1, <3>3, SMTT(30) DEF Took
    <3> QED
      BY <2>1, <3>2, <3>3, Zenon
  <2> QED
    BY SMTT(30), <2>2, PendingStays
<1>8. CASE Iv(l)
  <2>1. \/ pc' = [pc EXCEPT ![l] = "icb"] /\ ipsec' = ipsec
        \/ pc' = [pc EXCEPT ![l] = "xform"] /\ ipsec' = [ipsec EXCEPT ![l] = Tail(@)]
    BY <1>8 DEF Iv, Goto, Pop
  <2>2. pc[l] = "iv" /\ pc[l] \in Inside /\ ipsec[l] # <<>>
    BY <1>1, <1>8 DEF Iv, Inside, Control
  <2>3. CASE pc' = [pc EXCEPT ![l] = "icb"] /\ ipsec' = ipsec
    <3>1. pc'[l] = "icb" /\ ipsec'[l] = ipsec[l] /\ Took(l)'
      BY <1>1, <2>3 DEF Took
    <3> QED
      BY <3>1, PendingStays
  <2>4. CASE pc' = [pc EXCEPT ![l] = "xform"] /\ ipsec' = [ipsec EXCEPT ![l] = Tail(@)]
    <3>1. pc'[l] = "xform" /\ ipsec'[l] = Tail(ipsec[l])
      BY <1>1, <2>4
    <3> QED
      BY <2>2, <3>1, PendingPops
  <2> QED
    BY <2>1, <2>3, <2>4
<1> QED
  BY <1>3, <1>4, <1>5, <1>6, <1>7, <1>8

(* What a step does to the counters: it reads one, or raises one to at     *)
(* most one more than a value counted so far when its packet is done with. *)
LEMMA CounterSteps ==
  ASSUME OutInv, NEW l \in Lcores, Moves(l), Counted,
         NEW n \in Nat, n = Cardinality(Used),
         \/ Rx(l) \/ Spd(l) \/ XformFree(l) \/ XformProto(l) \/ XformEsp(l) \/ Inc(l) \/ Hdr(l)
         \/ Iv(l) \/ Icb(l) \/ LibTake(l) \/ LibPut(l) \/ XformEnd(l) \/ Route(l) \/ Drain(l)
         \/ Idle(l)
  PROVE  /\ \A m \in Lcores : tmp'[m] <= n
         /\ \/ \A s \in Sas : seq'[s] <= n
            \/ /\ \A s \in Sas : seq'[s] <= n + 1
               /\ Cur(l) \in Pending(l) /\ Cur(l) \notin Pending(l)' /\ Cur(l) \in DOMAIN pkt
<1>1. /\ pc \in [Lcores -> Labels] /\ seq \in [Sas -> Nat] /\ tmp \in [Lcores -> Nat]
      /\ ipsec \in [Lcores -> Entries] /\ Control(l) /\ env' = env
  BY Types DEF OutInv, Moves, Only
<1>2. (\A s \in Sas : seq[s] <= n /\ seq[s] <= n + 1 /\ seq[s] \in Nat)
      /\ \A m \in Lcores : tmp[m] <= n /\ tmp[m] \in Nat
  BY <1>1 DEF Counted
<1>3. CASE seq' = seq /\ tmp' = tmp
  BY <1>2, <1>3
<1>4. ASSUME pc[l] # "spd", ipsec[l] # <<>>
      PROVE  /\ Sa(l) \in Sas /\ Cur(l) \in DOMAIN pkt /\ Cur(l) \in Firsts(ipsec[l])
             /\ seq[Sa(l)] <= n /\ seq[Sa(l)] \in Nat
  BY <1>2, <1>4, CurFacts
<1>5. CASE XformEsp(l) \/ (LibTake(l) /\ env.lib # "atomic")
  <2>1. /\ pc[l] = "xform" /\ ipsec[l] # <<>>
        /\ seq' = seq /\ tmp' = [tmp EXCEPT ![l] = seq[Sa(l)]]
    BY <1>5 DEF XformEsp, LibTake, At
  <2>2. seq[Sa(l)] <= n
    BY <1>4, <2>1
  <2>3. \A m \in Lcores : tmp'[m] <= n
    BY <1>1, <1>2, <2>1, <2>2
  <2> QED
    BY <1>2, <2>1, <2>3
<1>6. CASE LibTake(l) /\ env.lib = "atomic"
  <2>1. /\ pc[l] = "xform" /\ ipsec[l] # <<>> /\ ipsec' = ipsec
        /\ seq' = [seq EXCEPT ![Sa(l)] = seq[Sa(l)] + 1] /\ tmp' = [tmp EXCEPT ![l] = seq[Sa(l)]]
        /\ pc'[l] = "lib"
    BY <1>1, <1>6 DEF LibTake, At, Goto, data
  <2>2. Sa(l) \in Sas /\ Cur(l) \in DOMAIN pkt /\ Cur(l) \in Firsts(ipsec[l])
        /\ seq[Sa(l)] <= n /\ seq[Sa(l)] \in Nat
    BY <1>4, <2>1
  <2>3. \A m \in Lcores : tmp'[m] <= n
    BY <1>1, <1>2, <2>1, <2>2
  <2>4. \A s \in Sas : seq'[s] <= n + 1
    BY <1>1, <1>2, <2>1, <2>2
  <2>5. ~Took(l) /\ Took(l)' /\ Cur(l)' = Cur(l)
    BY <1>1, <1>6, <2>1 DEF Took, Cur
  <2>6. Cur(l) \in Pending(l) /\ Cur(l) \notin Pending(l)'
    BY <2>1, <2>2, <2>5 DEF Pending
  <2> QED
    BY <2>2, <2>3, <2>4, <2>6
<1>7. CASE Inc(l)
  <2>1. /\ pc[l] = "inc" /\ ipsec[l] # <<>> /\ ipsec' = ipsec /\ tmp' = tmp
        /\ seq' = [seq EXCEPT ![Sa(l)] = tmp[l] + 1] /\ pc'[l] = "hdr"
    BY <1>1, <1>7 DEF Inc, SeqStore, Goto, data, Control, Inside
  <2>2. Sa(l) \in Sas /\ Cur(l) \in DOMAIN pkt /\ Cur(l) \in Firsts(ipsec[l])
    BY <1>4, <2>1
  <2>3. \A s \in Sas : seq'[s] <= n + 1
    BY <1>1, <1>2, <2>1, <2>2
  <2>4. ~Took(l) /\ Took(l)' /\ Cur(l)' = Cur(l)
    BY <2>1 DEF Took, Cur
  <2>5. Cur(l) \in Pending(l) /\ Cur(l) \notin Pending(l)'
    BY <2>1, <2>2, <2>4 DEF Pending
  <2> QED
    BY <1>2, <2>1, <2>2, <2>3, <2>5
<1>8. CASE LibPut(l) /\ env.lib = "plain"
  <2>1. /\ pc[l] = "lib" /\ pc[l] \in Inside /\ ipsec[l] # <<>> /\ tmp' = tmp
        /\ seq' = [seq EXCEPT ![Sa(l)] = tmp[l] + 1]
        /\ pc'[l] = "xform" /\ ipsec'[l] = Tail(ipsec[l])
    BY <1>1, <1>8 DEF LibPut, Goto, Pop, Control, Inside
  <2>2. Sa(l) \in Sas /\ Cur(l) \in DOMAIN pkt /\ Cur(l) \in Firsts(ipsec[l])
    BY <1>4, <2>1
  <2>3. \A s \in Sas : seq'[s] <= n + 1
    BY <1>1, <1>2, <2>1, <2>2
  <2>4. ~Took(l)
    BY <1>8, <2>1 DEF Took
  <2>5. Cur(l) \in Pending(l) /\ Cur(l) \notin Pending(l)'
    BY <2>1, <2>2, <2>4, PendingPops DEF Pending
  <2> QED
    BY <1>2, <2>1, <2>2, <2>3, <2>5
<1>9. CASE LibPut(l) /\ env.lib # "plain"
  <2>1. seq' = seq /\ tmp' = tmp
    BY <1>9, ZenonT(30) DEF LibPut
  <2> QED
    BY <1>3, <2>1
<1>10. CASE \/ Rx(l) \/ Spd(l) \/ XformFree(l) \/ XformProto(l) \/ Hdr(l) \/ Iv(l) \/ Icb(l)
            \/ XformEnd(l) \/ Route(l) \/ Drain(l) \/ Idle(l)
  <2>1. seq' = seq /\ tmp' = tmp
    BY <1>10, ZenonT(30) DEF Rx, Spd, XformFree, XformProto, Hdr, Iv, Icb, XformEnd, Route, Drain, Idle
  <2> QED
    BY <1>3, <2>1
<1> QED
  BY <1>5, <1>6, <1>7, <1>8, <1>9, <1>10

(* Every step keeps the counters within the packets done with. *)
LEMMA CountedStep == OutInv /\ OutInv' /\ Counted /\ [Next]_vars => Counted'
<1> SUFFICES ASSUME OutInv, OutInv', Counted, [Next]_vars PROVE Counted'
  OBVIOUS
<1>1. CASE UNCHANGED vars
  <2>1. /\ env' = env /\ pc' = pc /\ pkt' = pkt /\ ip' = ip /\ ipsec' = ipsec
        /\ seq' = seq /\ tmp' = tmp
    BY <1>1 DEF vars, data
  <2>2. Used' = Used
    BY <2>1 DEF Used, Pending, Took, Listed, Cur
  <2> QED
    BY <2>1, <2>2 DEF Counted
<1>2. CASE Next
  <2>1. PICK l \in env.lcores :
          \/ Rx(l) \/ Spd(l) \/ XformFree(l) \/ XformProto(l) \/ XformEsp(l) \/ Inc(l) \/ Hdr(l)
          \/ Iv(l) \/ Icb(l) \/ LibTake(l) \/ LibPut(l) \/ XformEnd(l) \/ Route(l) \/ Drain(l)
          \/ Idle(l)
    BY <1>2 DEF Next
  <2>2. l \in Lcores
    BY OutFacts DEF OutInv
  <2>3. Moves(l) /\ OutShape'
    BY <2>1, <2>2, RxMoves, SpdMoves, XformFreeMoves, XformProtoMoves, XformEspMoves, IncMoves,
       HdrMoves, IvMoves, IcbMoves, LibTakeMoves, LibPutMoves, XformEndMoves, RouteMoves,
       DrainMoves, IdleMoves
  <2>4. Pending(l)' \subseteq Pending(l) \cup (DOMAIN pkt' \ DOMAIN pkt)
    BY <2>1, <2>2, <2>3, PendingKeeps
  <2> DEFINE n == Cardinality(Used)
             k == Cardinality(Used')
  <2>5. /\ n \in Nat /\ k \in Nat /\ n <= k
        /\ \A c \in Pending(l) : c \in DOMAIN pkt /\ c \notin Pending(l)' => n + 1 <= k
    BY <2>2, <2>3, <2>4, UsedGrows
  <2>6. /\ \A m \in Lcores : tmp'[m] <= n
        /\ \/ \A s \in Sas : seq'[s] <= n
           \/ /\ \A s \in Sas : seq'[s] <= n + 1
              /\ Cur(l) \in Pending(l) /\ Cur(l) \notin Pending(l)' /\ Cur(l) \in DOMAIN pkt
    BY <2>1, <2>2, <2>3, <2>5, CounterSteps
  <2>7. seq' \in [Sas -> Nat] /\ tmp' \in [Lcores -> Nat]
    BY <2>3 DEF OutShape
  <2> HIDE DEF n, k
  <2>8. (\A m \in Lcores : tmp'[m] <= k) /\ \A s \in Sas : seq'[s] <= k
    <3>1. \A m \in Lcores : tmp'[m] <= k
      BY <2>5, <2>6, <2>7
    <3>2. \A s \in Sas : seq'[s] <= k
      BY <2>5, <2>6, <2>7
    <3> QED
      BY <3>1, <3>2
  <2> QED
    BY <2>8 DEF Counted, k
<1> QED
  BY <1>1, <1>2

(* The variables have their types; no SA counts further than the packets   *)
(* that arrived, in either mode and under every interleaving of increments.*)
THEOREM OutTypesCorrect == OutSpec => []OutTypeOK
<1>1. Init => Counted
  <2> SUFFICES ASSUME Init PROVE Counted
    OBVIOUS
  <2>1. DOMAIN pkt = {}
    BY DEF Init
  <2>2. Used = {}
    BY <2>1 DEF Used
  <2>3. Cardinality(Used) = 0
    BY <2>2, FS_EmptySet
  <2> QED
    BY <2>3 DEF Counted, Init
<1>2. OutInv /\ Counted => OutTypeOK
  <2> SUFFICES ASSUME OutInv, Counted PROVE OutTypeOK
    OBVIOUS
  <2>1. OutShape /\ Places /\ (\A l \in Lcores : Control(l)) /\ EnvOK(env)
    BY OutFacts DEF OutInv
  <2>2. /\ DOMAIN pkt \subseteq Ids
        /\ \A i \in DOMAIN pkt :
             /\ pkt[i].w \in env.wire /\ pkt[i].sa \in Sas \cup {NoSa}
             /\ pkt[i].seq \in 0 .. SEQ_MOD - 1 /\ pkt[i].off \in BOOLEAN
    BY <2>1, OutFacts DEF PktRec
  <2>3. Used \subseteq Ids /\ MaxPkts \in Nat
    BY <2>2, OutAssumption DEF Used
  <2>4. Cardinality(Used) \in Nat /\ Cardinality(Used) <= MaxPkts
    BY <2>3, UsedFinite
  <2>5. seq \in [Sas -> Nat] /\ tmp \in [Lcores -> Nat] /\ pc \in [Lcores -> Labels]
    BY <2>1, Types
  <2> DEFINE n == Cardinality(Used)
  <2>6. (\A s \in Sas : seq[s] <= n) /\ (\A l \in Lcores : tmp[l] <= n) /\ n \in Nat /\ n <= MaxPkts
    BY <2>4 DEF Counted
  <2> HIDE DEF n
  <2>7. seq \in [Sas -> 0 .. MaxPkts] /\ tmp \in [Lcores -> 0 .. MaxPkts]
    BY <2>3, <2>5, <2>6
  <2>8. ASSUME NEW l \in Lcores
        PROVE  /\ crypto[l] \subseteq DOMAIN pkt
               /\ \A v \in Fam : \A k \in DOMAIN ip[l][v] : ip[l][v][k] \in DOMAIN pkt
               /\ \A k \in DOMAIN ipsec[l] : ipsec[l][k][1] \in DOMAIN pkt
               /\ pc[l] \in Inside => ipsec[l] # <<>>
    <3>1. /\ Ran(ip[l]["v4"]) \subseteq DOMAIN pkt /\ Ran(ip[l]["v6"]) \subseteq DOMAIN pkt
          /\ Firsts(ipsec[l]) \subseteq DOMAIN pkt /\ crypto[l] \subseteq DOMAIN pkt
      BY <2>1 DEF Places, Mine, Listed
    <3>2. pc[l] \in Inside => ipsec[l] # <<>>
      BY <2>1 DEF Control
    <3> QED
      BY <3>1, <3>2 DEF Ran, Firsts, Fam
  <2> QED
    BY <2>1, <2>2, <2>5, <2>7, <2>8 DEF OutTypeOK, Labels
<1>3. OutInv /\ OutInv' /\ Counted /\ [Next]_vars => Counted'
  BY CountedStep
<1> QED
  BY <1>1, <1>2, <1>3, OutInvariant, PTL DEF OutSpec
=============================================================================
