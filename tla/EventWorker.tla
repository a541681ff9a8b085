----------------------------- MODULE EventWorker ----------------------------
(***************************************************************************)
(* The event-mode workers: an event carries one mbuf or a vector of them,  *)
(* a worker checks every packet against the security policy, marks what    *)
(* has to be protected for the NIC, and hands the event to the TX adapter, *)
(* whose answer it ignores.  Event mode has inline protocol sessions only: *)
(* the NIC decrypts and encrypts.                                          *)
(*                                                                         *)
(* The dynamic field of an mbuf keeps the SA of an earlier packet: the NIC *)
(* writes it only for packets it decrypted.  dec is a ghost variable, the  *)
(* SA that did decrypt the contents.                                       *)
(***************************************************************************)
EXTENDS EventHelper

CONSTANTS
  TrafficEnvs,    \* bound: the machines with traffic
  Mbufs,          \* mbufs of the pool
  Wire,           \* packets that arrive, see WirePkts
  NoPkt,          \* what an mbuf in the pool carries
  NbSa,           \* nb_sa of both directions: SAs have the indices 0 .. NbSa - 1
  SpiIn,          \* spi of the inbound SAs
  SaPort,         \* portid of the outbound SAs
  Unprotected,    \* unprotected_port_mask
  SpOn,           \* <<direction, family>> with a security policy
  Route,          \* port that the routing tables give for a packet, or NoRoute
  VectorSize      \* bound: mbufs in a vector

Fam     == {"v4", "v6"}
NoSa    == -1       \* a null pointer
NoRoute == -1       \* RTE_MAX_ETHPORTS
DISCARD == 0
BYPASS  == -1       \* UINT32_MAX
Garbage == -2       \* a session pointer that was never written

(* port: where it arrives; kind: plain IP, ESP or other; off: what the NIC *)
(* did; nicSa: the SA it used; rule: what the ACL of its direction gives,  *)
(* an SA index plus one unless DISCARD or BYPASS.                          *)
WirePkts ==
  [port : Nat, kind : Fam \cup {"esp", "other"}, off : {"no", "ok", "failed"},
   nicSa : 0 .. NbSa - 1, rule : BYPASS .. NbSa]

ASSUME EvAssumption ==
  /\ TrafficEnvs \subseteq RunEnvs
  /\ Wire \subseteq WirePkts /\ NoPkt \notin Wire
  /\ NbSa \in Nat
  /\ SpiIn \in [0 .. NbSa - 1 -> Nat] /\ SaPort \in [0 .. NbSa - 1 -> Nat]
  /\ Unprotected \subseteq Nat
  /\ SpOn \subseteq {"in", "out"} \X Fam
  /\ Route \in [Wire -> Nat \cup {NoRoute}]
  /\ VectorSize \in Nat

VARIABLES
  data,   \* port_drv_mode_data.sess of each driver-mode worker
  wire,   \* what each mbuf carries
  dyn,    \* rte_security_dynfield of each mbuf
  dec,    \* ghost: the SA that decrypted the contents
  out,    \* m->port and the session of the packets given to the TX adapter
  txq     \* events the TX adapter holds

evvars == <<data, wire, dyn, dec, out, txq>>
vars   == <<helpervars, evvars>>

NoOut == [port |-> NoRoute, ses |-> NoSa]

EvInit ==
  /\ HelperInit
  /\ data = [l \in env.lcores |-> [p \in Ports |-> NoSa]]
  /\ wire = [m \in Mbufs |-> NoPkt]
  /\ dyn = [m \in Mbufs |-> NoSa] /\ dec = [m \in Mbufs |-> NoSa]
  /\ out = [m \in Mbufs |-> NoOut]
  /\ txq = {}
-----------------------------------------------------------------------------
(* prepare_out_sessions_tbl: the first session of a port. *)
FirstSession(p) ==
  LET S == {s \in 0 .. NbSa - 1 : SaPort[s] = p}
  IN  IF S = {} THEN NoSa ELSE Min(S)

(* The table is on the stack and only its first entry is zeroed; a later   *)
(* entry that is not zero by chance is kept.  Mutant: not even the first.  *)
ZeroedNone == {}

Zeroed == {0}

SessionTables ==
  {t \in [Ports -> (0 .. NbSa - 1) \cup {NoSa, Garbage}] :
     \A p \in Ports : t[p] = FirstSession(p) \/ (t[p] = Garbage /\ p \notin Zeroed)}

StartWorker(l) ==
  /\ FindWorker(l)
  /\ IF core'[l] = "work" /\ env.mode = "driver"
     THEN \E t \in SessionTables : data' = [data EXCEPT ![l] = t]
     ELSE UNCHANGED data
  /\ UNCHANGED <<wire, dyn, dec, out, txq>>

(* Packets of a port without internal port come through the RX adapter's   *)
(* service, run by an eth core.                                            *)
RxServed(p) ==
  p \in env.rxInt \/ \E c \in DOMAIN core : core[c] = "eth_loop" /\ "rx" \in Services(c)

(* check_sp, for one packet: an absent policy drops it. *)
CheckSp(d, p) == <<d, p.kind>> \in SpOn /\ p.rule # DISCARD

(* The SA of a packet of a single event is read only if the NIC says that  *)
(* it processed the packet.                                                *)
SaOf(p, f) == IF p.off = "ok" THEN f ELSE NoSa

(* SPI on the packet should match with the one in SA.  Mutant: any SA      *)
(* will do.                                                                *)
SpiMatchesAny(s, p) == s # NoSa

SpiMatches(s, p) == s # NoSa /\ SpiIn[s] = SpiIn[p.rule - 1]

(* process_ipsec_ev_inbound; f is the dynamic field. *)
Inbound(p, f) ==
  IF /\ p.kind \in Fam /\ p.off # "failed" /\ CheckSp("in", p)
     /\ p.rule = BYPASS \/ (p.rule - 1 < NbSa /\ SpiMatches(SaOf(p, f), p))
  THEN [port |-> Route[p], ses |-> NoSa] ELSE NoOut

(* Outbound protection with the SA of the policy.  Mutant: the packet is   *)
(* routed like one that is bypassed.                                       *)
ProtectRouted(p) == [port |-> Route[p], ses |-> p.rule - 1]

Protect(p) == [port |-> SaPort[p.rule - 1], ses |-> p.rule - 1]

(* process_ipsec_ev_outbound *)
Outbound(p) ==
  IF p.kind \in Fam /\ CheckSp("out", p) /\ (p.rule = BYPASS \/ p.rule - 1 < NbSa)
  THEN IF p.rule = BYPASS THEN [port |-> Route[p], ses |-> NoSa] ELSE Protect(p)
  ELSE NoOut

(* check_sp_sa_bulk: without a policy every packet passes; the dynamic     *)
(* field is read whatever the NIC says.                                    *)
InboundVec(p, f) ==
  IF /\ p.kind \in Fam /\ p.off # "failed"
     /\ \/ <<"in", p.kind>> \notin SpOn
        \/ p.rule # DISCARD /\ (p.rule = BYPASS \/ SpiMatches(f, p))
  THEN [port |-> Route[p], ses |-> NoSa] ELSE NoOut

(* check_sp_bulk and ipsec_ev_route_pkts *)
OutboundVec(p) ==
  IF p.kind \in Fam /\ <<"out", p.kind>> \notin SpOn
  THEN [port |-> Route[p], ses |-> NoSa]
  ELSE Outbound(p)

(* The driver-mode workers: back to the port it came from, with the        *)
(* session of that port on the protected side.                             *)
Driver(l, p) ==
  IF p.port \in Unprotected THEN [port |-> p.port, ses |-> NoSa]
  ELSE IF data[l][p.port] = NoSa THEN NoOut
  ELSE [port |-> p.port, ses |-> data[l][p.port]]

Outcome(l, p, f, vec) ==
  IF env.mode = "driver" THEN Driver(l, p)
  ELSE IF p.port \in Unprotected
  THEN IF vec THEN InboundVec(p, f) ELSE Inbound(p, f)
  ELSE IF vec THEN OutboundVec(p) ELSE Outbound(p)

(* ev_vector_attr_init and _update: the port of one packet, valid while    *)
(* all have it; a driver-mode worker leaves the attributes, which name the *)
(* port of all.  o: port and session of each mbuf.  Mutant: the attributes *)
(* stay valid.                                                             *)
AttrValidAlways(o, S) == TRUE

AttrValid(o, S) == \A m, n \in S : o[m].port = o[n].port

(* The packets that were not dropped: ret != 1, and the count returned for *)
(* a vector.  Mutant: dropped packets are enqueued too.                    *)
ForwardedAll(o) == DOMAIN o

Forwarded(o) == {m \in DOMAIN o : o[m].port # NoRoute}

(* A worker takes an event, a single mbuf or a vector of one port, and     *)
(* enqueues what is left to the TX adapter, which may refuse it: then the  *)
(* mbufs are lost.  The others go back to the pool.                        *)
Work(l) ==
  /\ core[l] = "work" /\ ~quit /\ env \in TrafficEnvs
  /\ \E b \in SUBSET {m \in Mbufs : wire[m] = NoPkt}, vec \in BOOLEAN :
     \E w \in [b -> Wire] :
       LET f    == [m \in b |-> IF w[m].off = "ok" THEN w[m].nicSa ELSE dyn[m]]
           o    == [m \in b |-> Outcome(l, w[m], f[m], vec)]
           keep == Forwarded(o)
       IN
       /\ b # {} /\ Cardinality(b) <= (IF vec THEN VectorSize ELSE 1)
       /\ \A m, n \in b : w[m].port = w[n].port
       /\ \A m \in b : /\ w[m].port \in env.enabled \cap ports
                       /\ RxServed(w[m].port)
       /\ dyn' = [m \in Mbufs |-> IF m \in b THEN f[m] ELSE dyn[m]]
       /\ dec' = [m \in Mbufs |-> IF m \in keep THEN SaOf(w[m], f[m]) ELSE dec[m]]
       /\ out' = [m \in Mbufs |-> IF m \in keep THEN o[m] ELSE out[m]]
       /\ wire' = [m \in Mbufs |-> IF m \in keep THEN w[m] ELSE wire[m]]
       /\ \/ UNCHANGED txq
          \/ /\ keep # {}
             /\ txq' = txq \cup
                  {[mbufs |-> keep, vec |-> vec, valid |-> vec /\ AttrValid(o, keep),
                    port |-> o[CHOOSE m \in keep : TRUE].port]}
  /\ UNCHANGED <<helpervars, data>>

(* The NIC sends an event of the TX adapter and frees its mbufs. *)
TxDone ==
  /\ \E e \in txq :
       /\ txq' = txq \ {e}
       /\ wire' = [m \in Mbufs |-> IF m \in e.mbufs THEN NoPkt ELSE wire[m]]
       /\ dec' = [m \in Mbufs |-> IF m \in e.mbufs THEN NoSa ELSE dec[m]]
       /\ out' = [m \in Mbufs |-> IF m \in e.mbufs THEN NoOut ELSE out[m]]
  /\ UNCHANGED <<helpervars, data, dyn>>

EvNext ==
  \/ HelperStep /\ UNCHANGED evvars
  \/ \E l \in DOMAIN core : StartWorker(l) \/ Work(l)
  \/ TxDone

(* Every lcore and main go on; the NIC and force_quit need not.            *)
EvFairness ==
  /\ WF_vars(Main /\ UNCHANGED evvars)
  /\ \A l \in UNION {e.lcores : e \in Envs} :
       WF_vars(l \in DOMAIN core /\ ((LcoreStep(l) /\ UNCHANGED evvars) \/ StartWorker(l)))

EvSpec == EvInit /\ [][EvNext]_vars /\ EvFairness
-----------------------------------------------------------------------------
(* Type invariant: an mbuf that carries a packet is in at most one event   *)
(* of the TX adapter, or lost; one in the pool is in none.                 *)
EvTypeOK ==
  /\ env \in Envs
  /\ step \in {"check", "validate", "stop", "eventdev", "rx", "tx", "start", "launch", "wait",
               "free_rx", "close_evdev", "free_tx", "done", "exit"}
  /\ core \in [env.lcores -> {"off", "kni", "eth_start", "eth_loop", "find", "work", "stop",
                              "returned"}]
  /\ ports \subseteq Ports /\ devs \subseteq {"rx", "tx", "evdev"}
  /\ \A e \in txq : \A m \in e.mbufs : wire[m] \in Wire /\ out[m].port # NoRoute
  /\ \A e1, e2 \in txq : e1 # e2 => e1.mbufs \cap e2.mbufs = {}
  /\ dyn \in [Mbufs -> NoSa .. NbSa - 1]
  /\ out \in [Mbufs -> [port : Nat \cup {NoRoute}, ses : Garbage .. NbSa - 1]]

(* The policy of the direction a packet takes, where there is one.         *)
Rule(m) ==
  LET d == IF wire[m].port \in Unprotected THEN "in" ELSE "out"
  IN  [dir |-> d, on |-> <<d, wire[m].kind>> \in SpOn, rule |-> wire[m].rule]

(* What the workers give to the TX adapter obeys the policy and leaves by  *)
(* its own port.  Application mode: nothing the policy discards; inbound   *)
(* under a protect rule only what the SA of the rule's SPI decrypted;      *)
(* outbound under a protect rule with the session and the port of the      *)
(* rule's SA, and bypassed traffic with none.  Driver mode: protected with *)
(* the first session of the port.  A vector whose attributes are valid     *)
(* holds packets of one port only.  Left out: packets of a vector that the *)
(* NIC did not decrypt (see SaFromThisPacket), and driver-mode ports after *)
(* the first, whose entry of the session table is not initialised.         *)
EvPolicy ==
  \A e \in txq : \A m \in e.mbufs :
    LET p == wire[m]
        r == Rule(m)
    IN
    /\ e.valid => e.port = out[m].port
    /\ env.mode = "app" /\ r.on =>
         /\ r.rule # DISCARD
         /\ r.dir = "in" /\ r.rule # BYPASS /\ ~(e.vec /\ p.off = "no") =>
              dec[m] # NoSa /\ SpiIn[dec[m]] = SpiIn[r.rule - 1]
         /\ r.dir = "out" =>
              IF r.rule = BYPASS THEN out[m] = [port |-> Route[p], ses |-> NoSa]
              ELSE out[m] = [port |-> SaPort[r.rule - 1], ses |-> r.rule - 1]
    /\ env.mode = "driver" =>
         out[m].ses = IF r.dir = "in" THEN NoSa
                      ELSE IF p.port = 0 THEN FirstSession(0) ELSE out[m].ses

(* check_sp_sa_bulk, "SPI on the packet should match with the one in SA":  *)
(* the SA it compares with is the SA of this packet, not of an earlier one *)
(* in the same mbuf.                                                       *)
SaFromThisPacket ==
  \A e \in txq : \A m \in e.mbufs :
    env.mode = "app" /\ Rule(m).on /\ Rule(m).dir = "in" /\ wire[m].rule # BYPASS =>
      dec[m] # NoSa /\ SpiIn[dec[m]] = SpiIn[wire[m].rule - 1]
=============================================================================
