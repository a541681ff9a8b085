--------------------------- MODULE MCOutboundPath ---------------------------
(* Instances of OutboundPath: every kind of SA on two lcores in the three  *)
(* modes, with and without policies, and packets of all sizes, one by one. *)
EXTENDS OutboundPath, TLC

CONSTANTS sG, sI, sH, sT, sP, sL, sB, sC

MCSas == {sG, sI, sH, sT, sP, sL, sB, sC}

R(mode, act, alg, block, iv, digest, hw) ==
  [mode |-> mode, act |-> act, alg |-> alg, block |-> block, iv |-> iv,
   digest |-> digest, hw |-> hw]

MCSaRec ==
     (sG :> R("tun4", "none", "gcm", 4, 8, 16, FALSE))
  @@ (sI :> R("tun6", "inl_crypto", "gcm", 4, 8, 16, FALSE))
  @@ (sH :> R("tun4", "inl_crypto", "ctr", 4, 8, 12, TRUE))
  @@ (sT :> R("trs4", "none", "cbc", 16, 16, 12, FALSE))
  @@ (sP :> R("tun6", "inl_proto", "gcm", 4, 8, 16, FALSE))
  @@ (sL :> R("tun6", "la_proto", "gcm", 4, 8, 16, FALSE))
  @@ (sB :> R("tun4", "none", "chacha", 64, 12, 16, FALSE))
  @@ (sC :> R("tun6", "cpu", "gcm", 4, 8, 16, FALSE))

W(kind, v, rule, len, room) ==
  [kind |-> kind, v |-> v, rule |-> rule, hl |-> IF v = "v4" THEN 20 ELSE 40,
   len |-> len, nlp |-> "udp", room |-> room]
P(v, rule) == W("clear", v, rule, 100, 200)

CONSTANTS l1, l2

Env(lib, single, sp, wire) ==
  [lib |-> lib, single |-> single, sp |-> sp, wire |-> wire, lcores |-> {l1}, max |-> 3]
Libs == {"off", "plain", "atomic"}

(* Two lcores on the SAs of both families. *)
SharedEnvs ==
  {[Env(lib, NoSa, {"v4", "v6"}, {P("v4", sG), P("v6", s)}) EXCEPT !.lcores = {l1, l2}] :
     lib \in Libs, s \in {sI, sG}}

(* Everything a policy says, and IPsec traffic. *)
PolicyEnvs ==
  {Env(lib, NoSa, sp, {P("v4", sG), P("v6", sI), P("v4", BYPASS), P("v4", DISCARD),
                       W("esp", "v4", DISCARD, 120, 0)}) :
     lib \in {"off", "atomic"}, sp \in {{"v4", "v6"}, {"v4"}}}

(* Every other kind of SA, in legacy and library mode. *)
SaEnvs ==
  {Env(lib, NoSa, {"v4", "v6"}, {P("v4", sH), P(v, sT), P("v4", s)}) :
     lib \in {"off", "atomic"}, v \in {"v4", "v6"}, s \in {sP, sL, sB, sC}}

(* One SA for all; the first packet may be IPsec traffic, or refused.      *)
SingleEnvs ==
  {Env(lib, s, {}, {P("v4", DISCARD), P("v6", DISCARD), W("esp", "v4", DISCARD, 120, 0)}) :
     lib \in {"off", "atomic"}, s \in {sG, sI}}

(* Sizes: all alignments of the trailer, options, no room, the largest.    *)
SizeEnvs ==
  {[Env("off", s, {}, {w}) EXCEPT !.max = 1] :
     s \in {sG, sI, sH, sT, sB},
     w \in {W("clear", v, DISCARD, len, room) : v \in {"v4", "v6"}, room \in {12, 40},
                 len \in (41 .. 58) \cup (65440 .. 65535)}
           \cup {[W("clear", "v4", DISCARD, len, 40) EXCEPT !.hl = 24] : len \in 41 .. 58}}

MCEnvs == SharedEnvs \cup PolicyEnvs \cup SaEnvs \cup SingleEnvs \cup SizeEnvs

MCSymmetry == Permutations({l1, l2})
=============================================================================
