--------------------------- MODULE MCInboundPath ----------------------------
(* Instances of InboundPath: two IPv4 tunnels whose SPIs share a cache     *)
(* entry, and a transport SA of both families.                             *)
EXTENDS InboundPath, TLC

CONSTANTS sA, sB, sT,  \* SAs with SPI 1, 3 and 2
          aA, aB       \* end points of sA and sB

MCSas    == {sA, sB, sT}
MCSpi    == (sA :> 1) @@ (sB :> 3) @@ (sT :> 2)
MCSaType == [s \in MCSas |-> IF s = sT THEN "TRANSPORT" ELSE "IP4_TUNNEL"]
MCSaAddr == [s \in MCSas |-> IF s = sB THEN aB ELSE aA]
MCSad ==
  [v \in {"v4", "v6"} |->
     [n \in 0 .. 3 |-> CASE n = 1 /\ v = "v4" -> sA
                         [] n = 3 /\ v = "v4" -> sB
                         [] n = 2 -> sT
                         [] OTHER -> NoSa]]
MCSpOn   == [v \in {"v4", "v6"} |-> TRUE]

Pkt(kind, v, spi, addr, rule) ==
  [kind |-> kind, v |-> v, spi |-> spi, addr |-> addr, udp |-> FALSE,
   off |-> FALSE, nicSa |-> sA, iv |-> v, rule |-> rule]
Udp(p)    == [p EXCEPT !.udp = TRUE]
Nic(p, s) == [p EXCEPT !.off = TRUE, !.nicSa = s]

EspA == Pkt("esp", "v4", 1, aA, sA)
EspB == Pkt("esp", "v4", 3, aB, sA)  \* what it carries belongs to sA
EspX == Pkt("esp", "v4", 1, aB, sA)  \* not from the peer of sA
EspT == Pkt("esp", "v6", 2, aA, sT)
Clr  == Pkt("clear", "v4", 0, aA, sA)

(* SPIs that share an entry, a foreign peer, an unknown SPI, ESP in UDP;   *)
(* clear text with and without a rule, traffic the NIC decrypted with the  *)
(* right and the wrong SA, and a packet that is not IP.                    *)
MCWire ==
  {EspA, EspB, EspX, EspT, Udp(EspA), Pkt("esp", "v4", 0, aA, BYPASS),
   Clr, Pkt("clear", "v4", 0, aA, BYPASS), Pkt("clear", "v6", 0, aA, DISCARD),
   Nic(Clr, sA), Nic(Clr, sB), Pkt("other", "v4", 0, aA, DISCARD)}

MCSymmetry == Permutations(Mbufs)
=============================================================================
