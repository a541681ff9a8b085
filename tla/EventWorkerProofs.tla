------------------------- MODULE EventWorkerProofs --------------------------
(***************************************************************************)
(* Event mode, for every machine, set of SAs and policies, packets and     *)
(* vector size.                                                            *)
(*                                                                         *)
(* What the workers give to the TX adapter obeys the policy.  EvPolicy     *)
(* speaks of the mbufs of the events the TX adapter holds.  It is          *)
(* inductive once no two events share an mbuf, an mbuf in an event carries *)
(* a packet (a worker only receives into mbufs of the pool), and the first *)
(* entry of a worker's session table is the one that was set up.           *)
(*                                                                         *)
(* The types of the state, and the default configuration: em keeps what    *)
(* eh_validate_conf derived (deriving it again gives the same), and the    *)
(* links are those that the devices were set up with from it.              *)
(*                                                                         *)
(* The eth cores run until force_quit: eth_core_running is set while one   *)
(* of them runs and only lcores without work come to reset it (CoreInv).   *)
(***************************************************************************)
EXTENDS EventWorker, FiniteSetTheorems, WellFoundedInduction, TLAPS

(* What EvPolicy says of mbuf m of event e. *)
Obeys(e, m) ==
  LET p == wire[m]
      r == Rule(m)
  IN
  /\ e.valid => e.port = out[m].port
  /\ env.mode = "app" /\ r.on =>
       /\ r.rule # DISCARD
       /\ r.dir = "in" /\ r.rule # BYPASS /\ ~(e.vec /\ p.off = "no") =>
            dec[m] # NoSa /\ SpiIn[dec[m]] = SpiIn[r.rule - 1]
       /\ r.dir = "out" =>
            IF r.rule = BYPASS THEN out[m] = [port |-> Route[p], ses |-> NoSa]
            ELSE out[m] = [port |-> SaPort[r.rule - 1], ses |-> r.rule - 1]
  /\ env.mode = "driver" =>
       out[m].ses = IF r.dir = "in" THEN NoSa
                    ELSE IF p.port = 0 THEN FirstSession(0) ELSE out[m].ses

Machine ==
  /\ env \in Envs /\ 0 \in Ports
  /\ DOMAIN core = env.lcores /\ DOMAIN data = env.lcores
  /\ \A l \in DOMAIN data : data[l][0] \in {NoSa, FirstSession(0)}

Events ==
  /\ \A e \in txq : e.mbufs \subseteq Mbufs /\ \A m \in e.mbufs : wire[m] \in Wire
  /\ \A e1, e2 \in txq : e1 # e2 => e1.mbufs \cap e2.mbufs = {}

WorkerInv == Machine /\ Events /\ \A e \in txq : \A m \in e.mbufs : Obeys(e, m)
-----------------------------------------------------------------------------
LEMMA InitWorkerInv == EvInit => WorkerInv
<1> SUFFICES ASSUME EvInit PROVE WorkerInv
  OBVIOUS
<1>1. env \in Envs /\ txq = {} /\ DOMAIN core = env.lcores
  BY DEF EvInit, HelperInit
<1>2. EnvOK(env)
  BY <1>1, EnvAssumption
<1>3. 0 \in Ports
  BY <1>2 DEF EnvOK, Ports
<1>4. Machine
  BY <1>1, <1>3 DEF EvInit, Machine
<1> QED
  BY <1>1, <1>4 DEF WorkerInv, Events

(* The machine stays, and every lcore of it. *)
LEMMA HelperKeeps ==
  ASSUME HelperStep, DOMAIN core = env.lcores
  PROVE  env' = env /\ DOMAIN core' = env.lcores
<1>1. CASE DevFails \/ ForceQuit
  BY <1>1 DEF DevFails, ForceQuit, Exit, setup, lcorevars
<1>2. CASE CheckParams \/ Validate \/ StopPorts \/ InitEventdev
  BY <1>2 DEF CheckParams, Validate, StopPorts, InitEventdev, Exit, setup, lcorevars
<1>3. CASE InitRxAdapter \/ InitTxAdapter \/ StartDevs \/ WaitLcores
  BY <1>3 DEF InitRxAdapter, InitTxAdapter, StartDevs, WaitLcores, setup, lcorevars
<1>4. CASE Launch
  BY <1>4 DEF Launch, setup
<1>5. CASE Uninit
  BY <1>5 DEF Uninit, FreeAdapter, Exit, setup, lcorevars
<1>6. CASE \E l \in DOMAIN core : LcoreStep(l)
  <2>1. PICK l \in DOMAIN core : LcoreStep(l)
    BY <1>6
  <2>2. env' = env /\ \E c : core' = [core EXCEPT ![l] = c]
    BY <2>1 DEF LcoreStep, EthStart, EthFails, EthReturn, WorkerEnd, StopEthCores, Becomes, setup
  <2> QED
    BY <2>2
<1> QED
  BY <1>1, <1>2, <1>3, <1>4, <1>5, <1>6 DEF HelperStep, Main

(* What is said of an event depends on the packets in its mbufs only. *)
LEMMA ObeysKept ==
  ASSUME NEW e, NEW m, Obeys(e, m), env' = env,
         wire'[m] = wire[m], out'[m] = out[m], dec'[m] = dec[m]
  PROVE  Obeys(e, m)'
  BY DEF Obeys, Rule, FirstSession

LEMMA HelperStepWorker ==
  ASSUME WorkerInv, HelperStep, UNCHANGED evvars
  PROVE  WorkerInv'
<1>1. env' = env /\ DOMAIN core' = env.lcores
  BY HelperKeeps DEF WorkerInv, Machine
<1>2. Machine' /\ Events'
  BY <1>1 DEF WorkerInv, Machine, Events, evvars, Ports, FirstSession
<1>3. \A e \in txq : \A m \in e.mbufs : Obeys(e, m)'
  BY <1>1, ObeysKept DEF WorkerInv, evvars
<1> QED
  BY <1>2, <1>3 DEF WorkerInv, evvars

LEMMA StartWorkerStep ==
  ASSUME WorkerInv, NEW l \in DOMAIN core, StartWorker(l)
  PROVE  WorkerInv'
<1>1. /\ env' = env /\ \E c : core' = [core EXCEPT ![l] = c]
      /\ UNCHANGED <<wire, dyn, dec, out, txq>>
  BY DEF StartWorker, FindWorker, Becomes, setup
<1>2. DOMAIN core' = DOMAIN core
  BY <1>1
<1>3. \/ data' = data
      \/ \E t \in SessionTables : data' = [data EXCEPT ![l] = t]
  BY DEF StartWorker
<1>4. DOMAIN data' = DOMAIN data /\ \A x \in DOMAIN data : data'[x][0] \in {NoSa, FirstSession(0)}
  <2>1. CASE data' = data
    BY <2>1 DEF WorkerInv, Machine
  <2>2. CASE \E t \in SessionTables : data' = [data EXCEPT ![l] = t]
    <3>1. PICK t \in SessionTables : data' = [data EXCEPT ![l] = t]
      BY <2>2
    <3>2. t[0] = FirstSession(0)
      BY DEF SessionTables, Zeroed, WorkerInv, Machine
    <3> QED
      BY <3>1, <3>2 DEF WorkerInv, Machine
  <2> QED
    BY <1>3, <2>1, <2>2
<1>5. Machine' /\ Events'
  BY <1>1, <1>2, <1>4 DEF WorkerInv, Machine, Events, Ports, FirstSession
<1>6. \A e \in txq : \A m \in e.mbufs : Obeys(e, m)'
  BY <1>1, ObeysKept DEF WorkerInv
<1> QED
  BY <1>1, <1>5, <1>6 DEF WorkerInv

LEMMA TxDoneStep ==
  ASSUME WorkerInv, TxDone
  PROVE  WorkerInv'
<1>1. PICK e \in txq :
        /\ txq' = txq \ {e}
        /\ wire' = [m \in Mbufs |-> IF m \in e.mbufs THEN NoPkt ELSE wire[m]]
        /\ dec' = [m \in Mbufs |-> IF m \in e.mbufs THEN NoSa ELSE dec[m]]
        /\ out' = [m \in Mbufs |-> IF m \in e.mbufs THEN NoOut ELSE out[m]]
  BY DEF TxDone
<1>2. env' = env /\ core' = core /\ data' = data
  BY DEF TxDone, helpervars, setup, lcorevars
<1>3. \A x \in txq' : \A m \in x.mbufs :
        /\ m \in Mbufs /\ m \notin e.mbufs
        /\ wire'[m] = wire[m] /\ dec'[m] = dec[m] /\ out'[m] = out[m]
  BY <1>1 DEF WorkerInv, Events
<1>4. Machine' /\ Events'
  BY <1>1, <1>2, <1>3 DEF WorkerInv, Machine, Events, Ports, FirstSession
<1>5. \A x \in txq' : \A m \in x.mbufs : Obeys(x, m)'
  BY <1>1, <1>2, <1>3, ObeysKept DEF WorkerInv
<1> QED
  BY <1>4, <1>5 DEF WorkerInv

(* The part of Obeys that a worker decides: packet p, what the TX adapter  *)
(* is given for it, and the SA that decrypted it.                          *)
Permitted(p, o, sa, vec) ==
  LET d == IF p.port \in Unprotected THEN "in" ELSE "out"
  IN
  /\ env.mode = "app" /\ <<d, p.kind>> \in SpOn =>
       /\ p.rule # DISCARD
       /\ d = "in" /\ p.rule # BYPASS /\ ~(vec /\ p.off = "no") =>
            sa # NoSa /\ SpiIn[sa] = SpiIn[p.rule - 1]
       /\ d = "out" =>
            IF p.rule = BYPASS THEN o = [port |-> Route[p], ses |-> NoSa]
            ELSE o = [port |-> SaPort[p.rule - 1], ses |-> p.rule - 1]
  /\ env.mode = "driver" =>
       o.ses = IF d = "in" THEN NoSa
               ELSE IF p.port = 0 THEN FirstSession(0) ELSE o.ses

(* Every worker, in both modes, gives only permitted packets to the NIC.   *)
LEMMA OutcomePermitted ==
  ASSUME Machine, NEW l \in DOMAIN data, NEW p \in Wire, NEW f, NEW vec \in BOOLEAN,
         Outcome(l, p, f, vec).port # NoRoute
  PROVE  Permitted(p, Outcome(l, p, f, vec), SaOf(p, f), vec)
<1>1. p \in WirePkts
  BY EvAssumption
<1>2. p.off \in {"no", "ok", "failed"}
  BY <1>1 DEF WirePkts
<1>3. env.mode \in {"app", "driver"}
  BY EnvAssumption DEF Machine, EnvOK
<1>4. NoOut.port = NoRoute
  BY DEF NoOut
<1>5. CASE env.mode = "driver"
  <2>1. Outcome(l, p, f, vec) = Driver(l, p)
    BY <1>5 DEF Outcome
  <2>2. data[l][0] \in {NoSa, FirstSession(0)}
    BY DEF Machine
  <2>3. CASE p.port \in Unprotected
    BY <1>5, <2>1, <2>3 DEF Driver, Permitted
  <2>4. CASE p.port \notin Unprotected
    <3>1. Driver(l, p) = [port |-> p.port, ses |-> data[l][p.port]] /\ data[l][p.port] # NoSa
      BY <1>4, <2>1, <2>4 DEF Driver
    <3> QED
      BY <1>5, <2>1, <2>2, <2>4, <3>1 DEF Permitted
  <2> QED
    BY <2>3, <2>4
<1>6. CASE env.mode = "app" /\ p.port \in Unprotected
  <2>1. CASE vec
    <3>1. Outcome(l, p, f, vec) = InboundVec(p, f)
      BY <1>6, <2>1 DEF Outcome
    <3>2. /\ p.off # "failed"
          /\ \/ <<"in", p.kind>> \notin SpOn
             \/ p.rule # DISCARD /\ (p.rule = BYPASS \/ SpiMatches(f, p))
      BY <1>4, <3>1 DEF InboundVec
    <3> QED
      BY <1>2, <1>6, <2>1, <3>2 DEF SpiMatches, SaOf, Permitted
  <2>2. CASE ~vec
    <3>1. Outcome(l, p, f, vec) = Inbound(p, f)
      BY <1>6, <2>2 DEF Outcome
    <3>2. /\ CheckSp("in", p)
          /\ p.rule = BYPASS \/ SpiMatches(SaOf(p, f), p)
      BY <1>4, <3>1 DEF Inbound
    <3> QED
      BY <1>6, <2>2, <3>2 DEF SpiMatches, CheckSp, Permitted
  <2> QED
    BY <2>1, <2>2
<1>7. CASE env.mode = "app" /\ p.port \notin Unprotected
  <2>1. Outcome(l, p, f, vec) = IF vec THEN OutboundVec(p) ELSE Outbound(p)
    BY <1>7 DEF Outcome
  <2>2. ASSUME <<"out", p.kind>> \in SpOn
        PROVE  p.rule # DISCARD /\
               Outcome(l, p, f, vec) = IF p.rule = BYPASS THEN [port |-> Route[p], ses |-> NoSa]
                                       ELSE [port |-> SaPort[p.rule - 1], ses |-> p.rule - 1]
    <3>1. Outcome(l, p, f, vec) = Outbound(p)
      BY <2>1, <2>2 DEF OutboundVec
    <3> QED
      BY <1>4, <3>1 DEF Outbound, CheckSp, Protect
  <2> QED
    BY <1>7, <2>2 DEF Permitted
<1> QED
  BY <1>3, <1>5, <1>6, <1>7

(* Permitted is what Obeys asks of the packets of a new event. *)
LEMMA ObeysFromPermitted ==
  ASSUME NEW e, NEW m, env' = env, e.valid => e.port = out'[m].port,
         Permitted(wire'[m], out'[m], dec'[m], e.vec)
  PROVE  Obeys(e, m)'
  BY DEF Obeys, Permitted, Rule, FirstSession

(* What worker l does with the packets w in the mbufs b. *)
Enqueues(l, b, vec, w) ==
  LET f    == [m \in b |-> IF w[m].off = "ok" THEN w[m].nicSa ELSE dyn[m]]
      o    == [m \in b |-> Outcome(l, w[m], f[m], vec)]
      keep == Forwarded(o)
  IN
  /\ b # {} /\ Cardinality(b) <= (IF vec THEN VectorSize ELSE 1)
  /\ \A m, n \in b : w[m].port = w[n].port
  /\ \A m \in b : /\ w[m].port \in env.enabled \cap ports
                  /\ RxServed(w[m].port)
  /\ dyn' = [m \in Mbufs |-> IF m \in b THEN f[m] ELSE dyn[m]]
  /\ dec' = [m \in Mbufs |-> IF m \in keep THEN SaOf(w[m], f[m]) ELSE dec[m]]
  /\ out' = [m \in Mbufs |-> IF m \in keep THEN o[m] ELSE out[m]]
  /\ wire' = [m \in Mbufs |-> IF m \in keep THEN w[m] ELSE wire[m]]
  /\ \/ UNCHANGED txq
     \/ /\ keep # {}
        /\ txq' = txq \cup
             {[mbufs |-> keep, vec |-> vec, valid |-> vec /\ AttrValid(o, keep),
               port |-> o[CHOOSE m \in keep : TRUE].port]}

(* The same by its effect: f and o are what the worker finds and decides   *)
(* for each mbuf, keep those it forwards, new their event.                 *)
Forwards(l, b, vec, w, f, o, keep, new) ==
  /\ b \subseteq Mbufs /\ keep \subseteq b /\ vec \in BOOLEAN
  /\ \A m \in b : /\ wire[m] = NoPkt /\ w[m] \in Wire
                  /\ w[m].port \in env.enabled \cap ports
                  /\ f[m] = IF w[m].off = "ok" THEN w[m].nicSa ELSE dyn[m]
                  /\ o[m] = Outcome(l, w[m], f[m], vec)
  /\ \A m \in keep : o[m].port # NoRoute
  /\ dyn' = [m \in Mbufs |-> IF m \in b THEN f[m] ELSE dyn[m]]
  /\ dec' = [m \in Mbufs |-> IF m \in keep THEN SaOf(w[m], f[m]) ELSE dec[m]]
  /\ out' = [m \in Mbufs |-> IF m \in keep THEN o[m] ELSE out[m]]
  /\ wire' = [m \in Mbufs |-> IF m \in keep THEN w[m] ELSE wire[m]]
  /\ txq' \subseteq txq \cup {new}
  /\ new.mbufs = keep /\ new.vec = vec
  /\ new.valid => \A m \in keep : new.port = o[m].port

LEMMA EnqueuesForwards ==
  ASSUME NEW l, NEW b \in SUBSET {m \in Mbufs : wire[m] = NoPkt}, NEW vec \in BOOLEAN,
         NEW w \in [b -> Wire], Enqueues(l, b, vec, w)
  PROVE  \E f, o, keep, new : Forwards(l, b, vec, w, f, o, keep, new)
<1> DEFINE f    == [m \in b |-> IF w[m].off = "ok" THEN w[m].nicSa ELSE dyn[m]]
           o    == [m \in b |-> Outcome(l, w[m], f[m], vec)]
           keep == Forwarded(o)
           new  == [mbufs |-> keep, vec |-> vec, valid |-> vec /\ AttrValid(o, keep),
                    port |-> o[CHOOSE m \in keep : TRUE].port]
<1>1. /\ \A m \in b : w[m].port \in env.enabled \cap ports
      /\ dyn' = [m \in Mbufs |-> IF m \in b THEN f[m] ELSE dyn[m]]
      /\ dec' = [m \in Mbufs |-> IF m \in keep THEN SaOf(w[m], f[m]) ELSE dec[m]]
      /\ out' = [m \in Mbufs |-> IF m \in keep THEN o[m] ELSE out[m]]
      /\ wire' = [m \in Mbufs |-> IF m \in keep THEN w[m] ELSE wire[m]]
      /\ UNCHANGED txq \/ (keep # {} /\ txq' = txq \cup {new})
  BY Zenon DEF Enqueues
<1>2. keep \subseteq b /\ \A m \in keep : o[m].port # NoRoute
  BY Zenon DEF Forwarded
<1>3. \A m \in b : /\ wire[m] = NoPkt /\ w[m] \in Wire /\ m \in Mbufs
                   /\ f[m] = IF w[m].off = "ok" THEN w[m].nicSa ELSE dyn[m]
                   /\ o[m] = Outcome(l, w[m], f[m], vec)
  BY Zenon
<1>4. new.mbufs = keep /\ new.vec = vec /\ new.port = o[CHOOSE m \in keep : TRUE].port
      /\ (new.valid <=> vec /\ AttrValid(o, keep))
  BY Zenon
<1> HIDE DEF f, o, keep, new
<1>5. new.valid => \A m \in keep : new.port = o[m].port
  <2> SUFFICES ASSUME new.valid, NEW m \in keep PROVE new.port = o[m].port
    BY Zenon
  <2>1. (CHOOSE x \in keep : TRUE) \in keep
    BY Zenon
  <2> QED
    BY <1>4, <2>1, Zenon DEF AttrValid
<1>6. b \subseteq Mbufs /\ txq' \subseteq txq \cup {new}
  BY <1>1, Zenon
<1>7. Forwards(l, b, vec, w, f, o, keep, new)
  BY <1>1, <1>2, <1>3, <1>4, <1>5, <1>6, Zenon DEF Forwards
<1> QED
  BY <1>7, Zenon

LEMMA WorkForwards ==
  ASSUME NEW l, Work(l)
  PROVE  /\ \E b, vec, w, f, o, keep, new : Forwards(l, b, vec, w, f, o, keep, new)
         /\ UNCHANGED <<helpervars, data>>
<1>1. PICK b \in SUBSET {m \in Mbufs : wire[m] = NoPkt} :
        \E vec \in BOOLEAN : \E w \in [b -> Wire] : Enqueues(l, b, vec, w)
  BY Zenon DEF Work, Enqueues
<1>2. PICK vec \in BOOLEAN : \E w \in [b -> Wire] : Enqueues(l, b, vec, w)
  BY <1>1, Zenon
<1>3. PICK w \in [b -> Wire] : Enqueues(l, b, vec, w)
  BY <1>2, Zenon
<1>4. UNCHANGED <<helpervars, data>>
  BY Zenon DEF Work
<1> QED
  BY <1>3, <1>4, EnqueuesForwards, Zenon

LEMMA WorkStep ==
  ASSUME WorkerInv, NEW l \in DOMAIN core, Work(l)
  PROVE  WorkerInv'
<1>1. PICK b, vec, w, f, o, keep, new : Forwards(l, b, vec, w, f, o, keep, new)
  BY WorkForwards, Zenon
<1>2. env' = env /\ core' = core /\ data' = data
  BY WorkForwards DEF helpervars, setup, lcorevars
<1>3. keep \subseteq Mbufs /\ txq' \subseteq txq \cup {new} /\ new.mbufs = keep
  BY <1>1 DEF Forwards
<1>4. \A m \in keep : /\ wire[m] = NoPkt /\ w[m] \in Wire /\ o[m].port # NoRoute
                      /\ wire'[m] = w[m] /\ dec'[m] = SaOf(w[m], f[m]) /\ out'[m] = o[m]
  BY <1>1 DEF Forwards
<1>5. \A m \in Mbufs \ keep : wire'[m] = wire[m] /\ dec'[m] = dec[m] /\ out'[m] = out[m]
  BY <1>1 DEF Forwards
<1>6. \A x \in txq : \A m \in x.mbufs : m \in Mbufs \ keep
  BY <1>4, EvAssumption DEF WorkerInv, Events
<1>7. Machine'
  BY <1>2 DEF WorkerInv, Machine, Ports, FirstSession
<1>8. Events'
  <2>1. \A x \in txq : x.mbufs \subseteq Mbufs /\ \A m \in x.mbufs : wire'[m] \in Wire
    BY <1>5, <1>6 DEF WorkerInv, Events
  <2>2. new.mbufs \subseteq Mbufs /\ \A m \in new.mbufs : wire'[m] \in Wire
    BY <1>3, <1>4
  <2>3. \A x, y \in txq : x # y => x.mbufs \cap y.mbufs = {}
    BY DEF WorkerInv, Events
  <2>4. \A x \in txq : x.mbufs \cap new.mbufs = {}
    BY <1>3, <1>6
  <2>5. \A x, y \in txq' : x # y => x.mbufs \cap y.mbufs = {}
    BY <1>3, <2>3, <2>4
  <2> QED
    BY <1>3, <2>1, <2>2, <2>5 DEF Events
<1>9. \A x \in txq : \A m \in x.mbufs : Obeys(x, m)'
  BY <1>2, <1>5, <1>6, ObeysKept DEF WorkerInv
<1>10. \A m \in keep : Obeys(new, m)'
  <2> SUFFICES ASSUME NEW m \in keep PROVE Obeys(new, m)'
    OBVIOUS
  <2>1. /\ o[m] = Outcome(l, w[m], f[m], vec) /\ o[m].port # NoRoute /\ w[m] \in Wire
        /\ vec \in BOOLEAN /\ new.vec = vec /\ (new.valid => new.port = o[m].port)
    BY <1>1 DEF Forwards
  <2>2. Machine /\ l \in DOMAIN data
    BY DEF WorkerInv, Machine
  <2>3. Permitted(w[m], o[m], SaOf(w[m], f[m]), vec)
    BY <2>1, <2>2, OutcomePermitted
  <2> QED
    BY <1>2, <1>4, <2>1, <2>3, ObeysFromPermitted
<1>11. \A x \in txq' : \A m \in x.mbufs : Obeys(x, m)'
  BY <1>3, <1>9, <1>10
<1> QED
  BY <1>7, <1>8, <1>11 DEF WorkerInv

LEMMA NextWorkerInv == WorkerInv /\ [EvNext]_vars => WorkerInv'
<1> SUFFICES ASSUME WorkerInv, [EvNext]_vars PROVE WorkerInv'
  OBVIOUS
<1>1. CASE HelperStep /\ UNCHANGED evvars
  BY <1>1, HelperStepWorker
<1>2. CASE \E l \in DOMAIN core : StartWorker(l)
  BY <1>2, StartWorkerStep
<1>3. CASE \E l \in DOMAIN core : Work(l)
  BY <1>3, WorkStep
<1>4. CASE TxDone
  BY <1>4, TxDoneStep
<1>5. CASE UNCHANGED vars
  <2>1. env' = env /\ core' = core /\ UNCHANGED evvars
    BY <1>5 DEF vars, helpervars, setup, lcorevars
  <2>2. Machine' /\ Events'
    BY <2>1 DEF WorkerInv, Machine, Events, evvars, Ports, FirstSession
  <2>3. \A e \in txq : \A m \in e.mbufs : Obeys(e, m)'
    BY <2>1, ObeysKept DEF WorkerInv, evvars
  <2> QED
    BY <2>1, <2>2, <2>3 DEF WorkerInv, evvars
<1> QED
  BY <1>1, <1>2, <1>3, <1>4, <1>5 DEF EvNext

(* Every packet an event-mode worker gives to the TX adapter obeys the     *)
(* policy of its direction and leaves by the port of its SA, its route or, *)
(* in driver mode, its own, and the attributes of a vector hold for all    *)
(* its packets: process_ipsec_ev_inbound and _outbound, ev_vector_attr and *)
(* the driver-mode workers, for all tables, packets and vector sizes.      *)
THEOREM ForwardedObeys == EvSpec => []EvPolicy
<1>1. WorkerInv => EvPolicy
  BY DEF WorkerInv, Obeys, EvPolicy
<1> QED
  BY <1>1, InitWorkerInv, NextWorkerInv, PTL DEF EvSpec
-----------------------------------------------------------------------------
(* Every nonempty set of naturals has a least element. *)
LEMMA LeastNat ==
  ASSUME NEW S \in SUBSET Nat, S # {}
  PROVE  Min(S) \in S /\ \A y \in S : Min(S) <= y
<1>1. \E x \in S : \A y \in S : ~(<<y, x>> \in OpToRel(<, Nat))
  BY WFMin, NatLessThanWellFounded, Zenon
<1>2. \E x \in S : \A y \in S : x =< y
  <2>1. PICK x \in S : \A y \in S : ~(<<y, x>> \in OpToRel(<, Nat))
    BY <1>1
  <2>2. \A y \in S : ~(y < x)
    BY <2>1, Zenon DEF OpToRel
  <2> QED
    BY <2>2
<1> QED
  BY <1>2 DEF Min

(* The first session of a port is an SA, or none. *)
LEMMA FirstSessionType ==
  ASSUME NEW p
  PROVE  FirstSession(p) \in NoSa .. NbSa - 1
<1> DEFINE S == {s \in 0 .. NbSa - 1 : SaPort[s] = p}
<1>1. NbSa \in Nat /\ S \subseteq 0 .. NbSa - 1 /\ S \in SUBSET Nat
  BY EvAssumption
<1>2. FirstSession(p) = IF S = {} THEN NoSa ELSE Min(S)
  BY DEF FirstSession
<1>3. S # {} => Min(S) \in S
  BY <1>1, LeastNat
<1> QED
  BY <1>1, <1>2, <1>3 DEF NoSa

Steps == {"check", "validate", "stop", "eventdev", "rx", "tx", "start", "launch", "wait",
          "free_rx", "close_evdev", "free_tx", "done", "exit"}
Roles == {"off", "kni", "eth_start", "eth_loop", "find", "work", "stop", "returned"}
Outs  == [port : Nat \cup {NoRoute}, ses : Garbage .. NbSa - 1]

(* What only main and the lcores change. *)
HelperTypeOK ==
  /\ env \in Envs
  /\ step \in Steps
  /\ core \in [env.lcores -> Roles]
  /\ ports \subseteq Ports /\ devs \subseteq {"rx", "tx", "evdev"}

(* What the workers change. *)
WorkerTypeOK ==
  /\ data \in [env.lcores -> [Ports -> Garbage .. NbSa - 1]]
  /\ dyn \in [Mbufs -> NoSa .. NbSa - 1]
  /\ out \in [Mbufs -> Outs]
  /\ \A e \in txq : \A m \in e.mbufs : out[m].port # NoRoute

TypeInv == HelperTypeOK /\ WorkerTypeOK

LEMMA InitTypeInv == EvInit => TypeInv
<1> SUFFICES ASSUME EvInit PROVE TypeInv
  OBVIOUS
<1>1. NbSa \in Nat
  BY EvAssumption
<1>2. NoSa \in Garbage .. NbSa - 1 /\ NoSa \in NoSa .. NbSa - 1 /\ NoOut \in Outs
  BY <1>1 DEF NoSa, Garbage, NoOut, Outs, NoRoute
<1>3. HelperTypeOK
  BY DEF EvInit, HelperInit, HelperTypeOK, Steps, Roles
<1> QED
  BY <1>2, <1>3 DEF EvInit, HelperInit, TypeInv, WorkerTypeOK

LEMMA MainTypes ==
  ASSUME HelperTypeOK, Main \/ DevFails
  PROVE  HelperTypeOK'
<1>1. EnvOK(env)
  BY EnvAssumption DEF HelperTypeOK
<1>2. env.enabled \subseteq Ports
  BY <1>1 DEF EnvOK, Ports
<1>3. CASE DevFails
  BY <1>3 DEF DevFails, Exit, HelperTypeOK, Steps, setup, lcorevars, Ports
<1>4. CASE CheckParams \/ Validate \/ StopPorts
  BY <1>4 DEF CheckParams, Validate, StopPorts, Exit, HelperTypeOK, Steps, setup, lcorevars, Ports
<1>5. CASE InitEventdev \/ InitRxAdapter \/ InitTxAdapter
  BY <1>5 DEF InitEventdev, InitRxAdapter, InitTxAdapter, HelperTypeOK, Steps, lcorevars, Ports
<1>6. CASE StartDevs
  <2>1. env' = env /\ core' = core /\ step' = "launch"
        /\ devs' = devs \cup {"evdev"} /\ ports' = ports \cup env.enabled
    BY <1>6 DEF StartDevs, lcorevars
  <2> QED
    BY <1>2, <2>1 DEF HelperTypeOK, Steps, Ports
<1>7. CASE Launch
  <2>1. env' = env /\ ports' = ports /\ devs' = devs /\ step' = "wait"
    BY <1>7 DEF Launch, setup
  <2>2. core' \in [env.lcores -> Roles]
    BY <1>7 DEF Launch, Roles
  <2> QED
    BY <2>1, <2>2 DEF HelperTypeOK, Steps, Ports
<1>8. CASE WaitLcores
  BY <1>8 DEF WaitLcores, HelperTypeOK, Steps, setup, lcorevars, Ports
<1>9. CASE Uninit
  <2>1. /\ env' = env /\ core' = core /\ ports' = ports
        /\ step' \in Steps /\ devs' \subseteq devs
    BY <1>9 DEF Uninit, FreeAdapter, Exit, Steps, setup, lcorevars
  <2> QED
    BY <2>1 DEF HelperTypeOK, Ports
<1> QED
  BY <1>3, <1>4, <1>5, <1>6, <1>7, <1>8, <1>9 DEF Main

(* An lcore that takes a step gets another of the roles. *)
LEMMA LcoreTypes ==
  ASSUME HelperTypeOK, NEW l \in DOMAIN core, LcoreStep(l) \/ FindWorker(l)
  PROVE  HelperTypeOK'
<1>1. /\ UNCHANGED <<step, setup>>
      /\ \E c \in Roles : Becomes(l, c)
  <2>1. CASE EthStart(l)
    BY <2>1 DEF EthStart, Roles
  <2>2. CASE EthFails(l) \/ EthReturn(l) \/ WorkerEnd(l) \/ StopEthCores(l)
    BY <2>2 DEF EthFails, EthReturn, WorkerEnd, StopEthCores, Roles
  <2>3. CASE FindWorker(l)
    <3>1. UNCHANGED <<step, setup>> /\ (Becomes(l, "work") \/ Becomes(l, "stop"))
      BY <2>3 DEF FindWorker
    <3> QED
      BY <3>1 DEF Roles
  <2> QED
    BY <2>1, <2>2, <2>3 DEF LcoreStep
<1>2. PICK c \in Roles : core' = [core EXCEPT ![l] = c]
  BY <1>1 DEF Becomes
<1>3. env' = env /\ step' = step /\ ports' = ports /\ devs' = devs
  BY <1>1 DEF setup
<1>4. core' \in [env.lcores -> Roles]
  BY <1>2 DEF HelperTypeOK
<1> QED
  BY <1>3, <1>4 DEF HelperTypeOK, Ports

LEMMA HelperTypes ==
  ASSUME HelperTypeOK, HelperStep
  PROVE  HelperTypeOK' /\ env' = env
<1>1. HelperTypeOK'
  <2>1. CASE Main \/ DevFails
    BY <2>1, MainTypes
  <2>2. CASE ForceQuit
    BY <2>2 DEF ForceQuit, HelperTypeOK, setup, Ports
  <2>3. CASE \E l \in DOMAIN core : LcoreStep(l)
    BY <2>3, LcoreTypes
  <2> QED
    BY <2>1, <2>2, <2>3 DEF HelperStep
<1>2. DOMAIN core = env.lcores
  BY DEF HelperTypeOK
<1> QED
  BY <1>1, <1>2, HelperKeeps

(* What a worker decides of a packet of a started port: a port and a       *)
(* session, possibly one that was never written.                           *)
LEMMA OutcomeType ==
  ASSUME TypeInv, NEW l \in DOMAIN core, NEW p \in Wire, p.port \in Ports,
         NEW f, NEW vec \in BOOLEAN
  PROVE  Outcome(l, p, f, vec) \in Outs
<1>1. /\ NbSa \in Nat /\ Route[p] \in Nat \cup {NoRoute}
      /\ SaPort \in [0 .. NbSa - 1 -> Nat] /\ p \in WirePkts
  BY EvAssumption
<1>2. p.port \in Nat /\ p.rule \in BYPASS .. NbSa
  BY <1>1 DEF WirePkts
<1>3. \A x \in Nat \cup {NoRoute}, s \in Garbage .. NbSa - 1 : [port |-> x, ses |-> s] \in Outs
  BY DEF Outs
<1>4. NoSa \in Garbage .. NbSa - 1 /\ NoRoute \in Nat \cup {NoRoute}
  BY <1>1 DEF NoSa, Garbage
<1>5. NoOut \in Outs /\ [port |-> Route[p], ses |-> NoSa] \in Outs
  BY <1>1, <1>3, <1>4 DEF NoOut
<1>6. Driver(l, p) \in Outs
  <2>1. data[l][p.port] \in Garbage .. NbSa - 1
    BY DEF TypeInv, HelperTypeOK, WorkerTypeOK
  <2> QED
    BY <1>2, <1>3, <1>4, <1>5, <2>1 DEF Driver
<1>7. Inbound(p, f) \in Outs /\ InboundVec(p, f) \in Outs
  BY <1>5 DEF Inbound, InboundVec
<1>8. Outbound(p) \in Outs
  <2>1. ASSUME CheckSp("out", p), p.rule # BYPASS, p.rule - 1 < NbSa
        PROVE  Protect(p) \in Outs
    <3>1. p.rule - 1 \in 0 .. NbSa - 1
      BY <1>1, <1>2, <2>1, SMTT(30) DEF CheckSp, BYPASS, DISCARD
    <3>2. p.rule - 1 \in Garbage .. NbSa - 1 /\ SaPort[p.rule - 1] \in Nat
      BY <1>1, <3>1 DEF Garbage
    <3> QED
      BY <1>3, <3>2 DEF Protect
  <2> QED
    BY <1>5, <2>1 DEF Outbound
<1>9. OutboundVec(p) \in Outs
  BY <1>5, <1>8 DEF OutboundVec
<1> QED
  BY <1>6, <1>7, <1>8, <1>9 DEF Outcome

LEMMA WorkTypes ==
  ASSUME TypeInv, WorkerInv, NEW l \in DOMAIN core, Work(l)
  PROVE  TypeInv'
<1>1. PICK b, vec, w, f, o, keep, new : Forwards(l, b, vec, w, f, o, keep, new)
  BY WorkForwards, Zenon
<1>2. HelperTypeOK' /\ env' = env /\ data' = data
  BY WorkForwards DEF helpervars, setup, lcorevars, TypeInv, HelperTypeOK, Ports
<1>3. dyn' \in [Mbufs -> NoSa .. NbSa - 1]
  <2>1. \A m \in b : f[m] \in NoSa .. NbSa - 1
    <3> SUFFICES ASSUME NEW m \in b PROVE f[m] \in NoSa .. NbSa - 1
      OBVIOUS
    <3>1. /\ m \in Mbufs /\ w[m] \in Wire
          /\ f[m] = IF w[m].off = "ok" THEN w[m].nicSa ELSE dyn[m]
      BY <1>1 DEF Forwards
    <3>2. w[m] \in WirePkts /\ dyn[m] \in NoSa .. NbSa - 1 /\ NbSa \in Nat
      BY <3>1, EvAssumption DEF TypeInv, WorkerTypeOK
    <3>3. w[m].nicSa \in NoSa .. NbSa - 1
      BY <3>2 DEF WirePkts, NoSa
    <3> QED
      BY <3>1, <3>2, <3>3
  <2>2. dyn' = [m \in Mbufs |-> IF m \in b THEN f[m] ELSE dyn[m]]
    BY <1>1 DEF Forwards
  <2> QED
    BY <2>1, <2>2 DEF TypeInv, WorkerTypeOK
<1>4. out' \in [Mbufs -> Outs]
  <2>1. \A m \in keep : o[m] \in Outs
    <3> SUFFICES ASSUME NEW m \in keep PROVE o[m] \in Outs
      OBVIOUS
    <3>1. /\ w[m] \in Wire /\ w[m].port \in ports /\ vec \in BOOLEAN
          /\ o[m] = Outcome(l, w[m], f[m], vec)
      BY <1>1 DEF Forwards
    <3>2. w[m].port \in Ports
      BY <3>1 DEF TypeInv, HelperTypeOK
    <3> QED
      BY <3>1, <3>2, OutcomeType
  <2>2. out' = [m \in Mbufs |-> IF m \in keep THEN o[m] ELSE out[m]]
    BY <1>1 DEF Forwards
  <2> QED
    BY <2>1, <2>2 DEF TypeInv, WorkerTypeOK
<1>5. \A e \in txq' : \A m \in e.mbufs : out'[m].port # NoRoute
  <2>1. /\ txq' \subseteq txq \cup {new} /\ new.mbufs = keep /\ keep \subseteq Mbufs
        /\ out' = [m \in Mbufs |-> IF m \in keep THEN o[m] ELSE out[m]]
        /\ \A m \in keep : wire[m] = NoPkt /\ o[m].port # NoRoute
    BY <1>1 DEF Forwards
  <2>2. \A e \in txq : \A m \in e.mbufs : m \in Mbufs /\ wire[m] # NoPkt /\ out[m].port # NoRoute
    BY EvAssumption DEF TypeInv, WorkerTypeOK, WorkerInv, Events
  <2> QED
    BY <2>1, <2>2
<1> QED
  BY <1>2, <1>3, <1>4, <1>5 DEF TypeInv, WorkerTypeOK, Ports

LEMMA StartWorkerTypes ==
  ASSUME TypeInv, NEW l \in DOMAIN core, StartWorker(l)
  PROVE  TypeInv'
<1>1. FindWorker(l) /\ env' = env /\ UNCHANGED <<dyn, out, txq>>
  BY DEF StartWorker, FindWorker, setup
<1>2. HelperTypeOK'
  BY <1>1, LcoreTypes DEF TypeInv
<1>3. \A t \in SessionTables : t \in [Ports -> Garbage .. NbSa - 1]
  <2>1. (0 .. NbSa - 1) \cup {NoSa, Garbage} \subseteq Garbage .. NbSa - 1
    BY EvAssumption DEF NoSa, Garbage
  <2> QED
    BY <2>1 DEF SessionTables
<1>4. data' = data \/ \E t \in SessionTables : data' = [data EXCEPT ![l] = t]
  BY DEF StartWorker
<1>5. data' \in [env.lcores -> [Ports -> Garbage .. NbSa - 1]]
  BY <1>3, <1>4 DEF TypeInv, WorkerTypeOK
<1> QED
  BY <1>1, <1>2, <1>5 DEF TypeInv, WorkerTypeOK, Ports

LEMMA TxDoneTypes ==
  ASSUME TypeInv, WorkerInv, TxDone
  PROVE  TypeInv'
<1>1. PICK e \in txq :
        /\ txq' = txq \ {e}
        /\ out' = [m \in Mbufs |-> IF m \in e.mbufs THEN NoOut ELSE out[m]]
  BY DEF TxDone
<1>2. HelperTypeOK' /\ env' = env /\ data' = data /\ dyn' = dyn
  BY DEF TxDone, helpervars, setup, lcorevars, TypeInv, HelperTypeOK, Ports
<1>3. NoOut \in Outs
  BY EvAssumption DEF NoOut, Outs, NoSa, Garbage
<1>4. out' \in [Mbufs -> Outs]
  BY <1>1, <1>3 DEF TypeInv, WorkerTypeOK
<1>5. \A x \in txq' : \A m \in x.mbufs : m \in Mbufs /\ m \notin e.mbufs
  BY <1>1 DEF WorkerInv, Events
<1>6. \A x \in txq' : \A m \in x.mbufs : out'[m].port # NoRoute
  BY <1>1, <1>5 DEF TypeInv, WorkerTypeOK
<1> QED
  BY <1>2, <1>4, <1>6 DEF TypeInv, WorkerTypeOK, Ports

LEMMA NextTypeInv == TypeInv /\ WorkerInv /\ [EvNext]_vars => TypeInv'
<1> SUFFICES ASSUME TypeInv, WorkerInv, [EvNext]_vars PROVE TypeInv'
  OBVIOUS
<1>1. CASE HelperStep /\ UNCHANGED evvars
  <2>1. HelperTypeOK' /\ env' = env
    BY <1>1, HelperTypes DEF TypeInv
  <2> QED
    BY <1>1, <2>1 DEF TypeInv, WorkerTypeOK, evvars, Ports
<1>2. CASE \E l \in DOMAIN core : StartWorker(l)
  BY <1>2, StartWorkerTypes
<1>3. CASE \E l \in DOMAIN core : Work(l)
  BY <1>3, WorkTypes
<1>4. CASE TxDone
  BY <1>4, TxDoneTypes
<1>5. CASE UNCHANGED vars
  BY <1>5 DEF vars, helpervars, setup, lcorevars, evvars, TypeInv, HelperTypeOK, WorkerTypeOK, Ports
<1> QED
  BY <1>1, <1>2, <1>3, <1>4, <1>5 DEF EvNext

(* Every role, port, session and dynamic field the code reads is one of    *)
(* its kind (a session pointer may be one that was never written), and an  *)
(* mbuf in an event of the TX adapter carries a packet with a port to      *)
(* leave by and is in no other event: process_ipsec_ev_inbound and         *)
(* _outbound, prepare_out_sessions_tbl, the adapter taking and freeing     *)
(* events, and all steps of main and the lcores.                           *)
THEOREM EventTypes == EvSpec => []EvTypeOK
<1>1. EvInit => WorkerInv /\ TypeInv
  BY InitWorkerInv, InitTypeInv
<1>2. WorkerInv /\ TypeInv /\ [EvNext]_vars => (WorkerInv /\ TypeInv)'
  BY NextWorkerInv, NextTypeInv
<1>3. WorkerInv /\ TypeInv => EvTypeOK
  BY DEF WorkerInv, Events, TypeInv, HelperTypeOK, WorkerTypeOK, EvTypeOK, Steps, Roles, Outs
<1> QED
  BY <1>1, <1>2, <1>3, PTL DEF EvSpec
-----------------------------------------------------------------------------
LEMMA MinPair ==
  ASSUME NEW a \in Int, NEW b \in Int
  PROVE  Min({a, b}) = IF a <= b THEN a ELSE b
  BY DEF Min

(* A member of a finite set of naturals by the number of smaller ones, as  *)
(* eh_set_default_conf_link counts lcores: there is one for every number   *)
(* below the size of the set.                                              *)
LEMMA MemberByRank ==
  ASSUME NEW S \in SUBSET Nat, IsFiniteSet(S), NEW k \in Nat, k < Cardinality(S)
  PROVE  \E l \in S : Cardinality({x \in S : x < l}) = k
<1> DEFINE Below(l) == {x \in S : x < l}
           n        == Cardinality(S)
           rank     == [l \in S |-> Cardinality(Below(l))]
<1>1. n \in Nat
  BY FS_CardinalityType
<1>2. \A l \in S : IsFiniteSet(Below(l)) /\ rank[l] \in 0 .. n - 1
  <2> SUFFICES ASSUME NEW l \in S
               PROVE  IsFiniteSet(Below(l)) /\ Cardinality(Below(l)) \in 0 .. n - 1
    OBVIOUS
  <2>1. Below(l) \in SUBSET S /\ Below(l) # S
    OBVIOUS
  <2> HIDE DEF Below
  <2>2. /\ IsFiniteSet(Below(l)) /\ Cardinality(Below(l)) <= n
        /\ n = Cardinality(Below(l)) => S = Below(l)
    BY <2>1, FS_Subset
  <2>3. Cardinality(Below(l)) \in Nat
    BY <2>2, FS_CardinalityType
  <2> HIDE DEF n
  <2> QED
    BY <1>1, <2>1, <2>2, <2>3
<1>3. \A l, m \in S : l < m => rank[l] # rank[m]
  <2> SUFFICES ASSUME NEW l \in S, NEW m \in S, l < m
               PROVE  Cardinality(Below(l)) # Cardinality(Below(m))
    OBVIOUS
  <2>1. Below(l) \in SUBSET Below(m) /\ Below(l) # Below(m)
    <3>1. \A x \in S : x < l => x < m
      OBVIOUS
    <3>2. l \in Below(m) /\ l \notin Below(l)
      OBVIOUS
    <3> QED
      BY <3>1, <3>2
  <2>2. IsFiniteSet(Below(m))
    BY <1>2
  <2> HIDE DEF Below
  <2> QED
    BY <2>1, <2>2, FS_Subset
<1>4. \A l, m \in S : l # m => rank[l] # rank[m]
  <2> SUFFICES ASSUME NEW l \in S, NEW m \in S, l # m PROVE rank[l] # rank[m]
    OBVIOUS
  <2>1. l < m \/ m < l
    OBVIOUS
  <2> HIDE DEF rank
  <2> QED
    BY <1>3, <2>1
<1>5. rank \in Injection(S, 0 .. n - 1)
  <2>1. rank \in [S -> 0 .. n - 1]
    BY <1>2
  <2> HIDE DEF rank, n
  <2> QED
    BY <1>4, <2>1 DEF Injection, IsInjective
<1>6. IsFiniteSet(0 .. n - 1) /\ Cardinality(0 .. n - 1) = n
  <2> HIDE DEF n
  <2>1. 0 \in Int /\ n - 1 \in Int
    BY <1>1
  <2>2. /\ IsFiniteSet(0 .. n - 1)
        /\ Cardinality(0 .. n - 1) = IF 0 > n - 1 THEN 0 ELSE n - 1 - 0 + 1
    BY <2>1, FS_Interval
  <2> QED
    BY <1>1, <2>2
<1>7. rank \in Surjection(S, 0 .. n - 1)
  <2>1. n = Cardinality(S)
    OBVIOUS
  <2> HIDE DEF rank, n
  <2> QED
    BY <1>5, <1>6, <2>1, FS_Injection
<1>8. k \in 0 .. n - 1
  BY <1>1
<1>9. \E l \in S : rank[l] = k
  <2> HIDE DEF rank, n
  <2> QED
    BY <1>7, <1>8 DEF Surjection
<1> QED
  BY <1>9

(* The eth cores are enabled lcores, and one of them is there when some    *)
(* lcore follows lcore 0.                                                  *)
LEMMA EthCoresFacts ==
  ASSUME NEW e, EnvOK(e)
  PROVE  /\ EthCores(e) \subseteq e.lcores
         /\ NextLcore(e, 0, TRUE) # NoCore => EthCores(e) # {}
<1>1. ASSUME NEW c
      PROVE  NextLcore(e, c, TRUE) # NoCore => NextLcore(e, c, TRUE) \in e.lcores
  <2> DEFINE S == {l \in e.lcores : l > c /\ (TRUE => l # e.main)}
  <2>1. S \in SUBSET Nat /\ S \subseteq e.lcores
    BY DEF EnvOK
  <2>2. NextLcore(e, c, TRUE) = IF S = {} THEN NoCore ELSE Min(S)
    BY DEF NextLcore
  <2>3. S # {} => Min(S) \in S
    BY <2>1, LeastNat
  <2> QED
    BY <2>1, <2>2, <2>3
<1> DEFINE a == NextLcore(e, 0, TRUE)
           b == IF a = NoCore THEN NoCore ELSE NextLcore(e, a, TRUE)
<1>2. EthCores(e) = {a, b} \ {NoCore}
  BY DEF EthCores
<1>3. /\ a # NoCore => a \in e.lcores
      /\ b # NoCore => b \in e.lcores
  BY <1>1
<1> HIDE DEF a
<1> QED
  BY <1>2, <1>3 DEF a

(* What eh_validate_conf derives. *)
Derived == [ethCores |-> EthMask, nbQ |-> NbQueues, nbP |-> NbPorts,
            allInt |-> AllInternal, link |-> DefaultLinks, conn |-> DefaultConn,
            rxCore |-> RxCore, txCore |-> TxCore, txQueue |-> TxQueue]

LinksOf(c) == {c.link[k].port : k \in DOMAIN c.link} \X (0 .. c.nbQ - 1)

(* eh_initialize_eventdev and eh_tx_adapter_configure *)
LinkedAs(L) ==
  IF em.txCore = None THEN L
  ELSE {x \in L : x[2] # em.txQueue} \cup {<<TxPort, em.txQueue>>}

PathInv ==
  /\ env \in Envs
  /\ em.ethCores \subseteq EthCores(env)
  /\ ~AllInternal => em.ethCores = EthCores(env)
  /\ step \notin {"check", "validate", "exit"} => em = Derived
  /\ step \in {"rx", "tx"} => links = LinksOf(em)
  /\ step \in {"start", "launch", "wait"} => links = LinkedAs(LinksOf(em))

LEMMA InitPathInv == EvInit => PathInv
  BY DEF EvInit, HelperInit, PathInv

(* Deriving the configuration again gives the same. *)
LEMMA DerivedAgain ==
  ASSUME env' = env, em' = Derived
  PROVE  em' = Derived'
<1>1. em'.ethCores = EthMask
  BY DEF Derived
<1>2. EthMask' = EthMask /\ (AllInternal <=> AllInternal')
  BY <1>1 DEF EthMask, AllInternal, Ports
<1>3. NbQueues' = NbQueues /\ NbPorts' = NbPorts /\ ActiveCores' = ActiveCores
  BY <1>2 DEF NbQueues, NbPorts, ActiveCores
<1>4. DefaultLinks' = DefaultLinks
  BY <1>3 DEF DefaultLinks
<1>5. DefaultConn' = DefaultConn
  BY <1>2, <1>3 DEF DefaultConn, RxQueues
<1>7. RxCore' = RxCore
  BY <1>2 DEF RxCore, NextEthCore
<1>8. TxCore' = TxCore
  BY <1>2, <1>7 DEF TxCore, NextEthCore
<1>9. TxQueue' = TxQueue
  BY <1>3, <1>8 DEF TxQueue
<1>10. AllInternal' = AllInternal
  BY <1>2 DEF AllInternal, Ports
<1> QED
  BY <1>2, <1>3, <1>4, <1>5, <1>7, <1>8, <1>9, <1>10 DEF Derived

(* The configuration stays what it is where em does. *)
LEMMA DerivedKept ==
  ASSUME UNCHANGED <<env, em>>
  PROVE  Derived' = Derived /\ (AllInternal <=> AllInternal') /\ LinksOf(em)' = LinksOf(em)
         /\ \A L : LinkedAs(L)' = LinkedAs(L)
  BY DEF Derived, EthMask, AllInternal, Ports, NbQueues, NbPorts, ActiveCores, DefaultLinks,
         DefaultConn, RxQueues, RxCore, TxCore, TxQueue, NextEthCore, LinksOf, LinkedAs

(* A step that keeps env and em. *)
LEMMA PathKept ==
  ASSUME PathInv, UNCHANGED <<env, em>>,
         \/ step' = step /\ links' = links
         \/ /\ step' \in {"exit", "validate"} \/ (step' # "check" /\ em = Derived)
            /\ step' \in {"rx", "tx"} => links' = LinksOf(em)
            /\ step' \in {"start", "launch", "wait"} => links' = LinkedAs(LinksOf(em))
  PROVE  PathInv'
<1>1. /\ Derived' = Derived /\ (AllInternal <=> AllInternal')
      /\ LinksOf(em)' = LinksOf(em) /\ LinkedAs(LinksOf(em))' = LinkedAs(LinksOf(em))
  <2>1. LinksOf(em)' = LinksOf(em) /\ \A L : LinkedAs(L)' = LinkedAs(L)
    BY DerivedKept
  <2>2. LinkedAs(LinksOf(em))' = LinkedAs(LinksOf(em))
    BY DEF LinkedAs, LinksOf
  <2> QED
    BY <2>1, <2>2, DerivedKept
<1>2. env' = env /\ em' = em
  OBVIOUS
<1>3. EthCores(env)' = EthCores(env)
  BY <1>2
<1>4. /\ env' \in Envs /\ em'.ethCores \subseteq EthCores(env')
      /\ ~AllInternal' => em'.ethCores = EthCores(env')
  BY <1>1, <1>2 DEF PathInv
<1>5. CASE step' = step /\ links' = links
  <2>1. /\ step' \notin {"check", "validate", "exit"} => em' = Derived'
        /\ step' \in {"rx", "tx"} => links' = LinksOf(em)'
        /\ step' \in {"start", "launch", "wait"} => links' = LinkedAs(LinksOf(em))'
    BY <1>1, <1>2, <1>5 DEF PathInv
  <2> QED
    BY <1>4, <2>1 DEF PathInv
<1>6. CASE /\ step' \in {"exit", "validate"} \/ (step' # "check" /\ em = Derived)
           /\ step' \in {"rx", "tx"} => links' = LinksOf(em)
           /\ step' \in {"start", "launch", "wait"} => links' = LinkedAs(LinksOf(em))
  <2>1. /\ step' \notin {"check", "validate", "exit"} => em' = Derived'
        /\ step' \in {"rx", "tx"} => links' = LinksOf(em)'
        /\ step' \in {"start", "launch", "wait"} => links' = LinkedAs(LinksOf(em))'
    BY <1>1, <1>2, <1>6
  <2> QED
    BY <1>4, <2>1 DEF PathInv
<1> QED
  BY <1>5, <1>6

LEMMA ValidatePath ==
  ASSUME PathInv, Validate
  PROVE  PathInv'
<1>1. CASE env.maxP < 2 /\ Exit
  BY <1>1, PathKept DEF Exit, setup
<1>2. CASE env' = env /\ em' = Derived /\ step' = "stop"
  <2>1. em' = Derived'
    BY <1>2, DerivedAgain
  <2>2. AllInternal' <=> AllInternal
    BY <1>2 DEF AllInternal, Ports
  <2>3. em'.ethCores = IF AllInternal THEN {} ELSE em.ethCores
    BY <1>2 DEF Derived, EthMask
  <2>4. /\ em'.ethCores \subseteq EthCores(env')
        /\ ~AllInternal' => em'.ethCores = EthCores(env')
    BY <1>2, <2>2, <2>3 DEF PathInv
  <2> QED
    BY <1>2, <2>1, <2>4 DEF PathInv
<1> QED
  BY <1>1, <1>2 DEF Validate, Derived

LEMMA MainPath ==
  ASSUME PathInv, Main \/ DevFails
  PROVE  PathInv'
<1>1. CASE DevFails
  BY <1>1, PathKept DEF DevFails, Exit, setup
<1>2. CASE CheckParams
  BY <1>2, PathKept DEF CheckParams, Exit, setup
<1>3. CASE Validate
  BY <1>3, ValidatePath
<1>4. CASE StopPorts
  <2>1. UNCHANGED <<env, em>> /\ step' = "eventdev" /\ em = Derived
    BY <1>4 DEF StopPorts, PathInv
  <2> QED
    BY <2>1, PathKept
<1>5. CASE InitEventdev
  <2>1. /\ UNCHANGED <<env, em>> /\ step' = "rx" /\ em = Derived
        /\ links' = LinksOf(em)
    BY <1>5 DEF InitEventdev, PathInv, LinksOf
  <2> QED
    BY <2>1, PathKept
<1>6. CASE InitRxAdapter
  <2>1. /\ UNCHANGED <<env, em>> /\ step' = "tx" /\ em = Derived
        /\ links' = LinksOf(em)
    BY <1>6 DEF InitRxAdapter, PathInv
  <2> QED
    BY <2>1, PathKept
<1>7. CASE InitTxAdapter
  <2>1. /\ UNCHANGED <<env, em>> /\ step' = "start" /\ em = Derived
        /\ links' = LinkedAs(LinksOf(em))
    BY <1>7 DEF InitTxAdapter, PathInv, LinkedAs, TxLinks
  <2> QED
    BY <2>1, PathKept
<1>8. CASE StartDevs \/ Launch
  <2>1. /\ UNCHANGED <<env, em>> /\ step' \in {"launch", "wait"} /\ em = Derived
        /\ links' = LinkedAs(LinksOf(em))
    BY <1>8 DEF StartDevs, Launch, PathInv, setup
  <2> QED
    BY <2>1, PathKept
<1>9. CASE WaitLcores \/ Uninit
  <2>1. UNCHANGED <<env, em>> /\ step' \in {"free_rx", "close_evdev", "free_tx", "done", "exit"}
        /\ em = Derived
    <3>1. CASE WaitLcores
      BY <3>1 DEF WaitLcores, PathInv, setup
    <3>2. CASE Uninit
      BY <3>2 DEF Uninit, FreeAdapter, Exit, PathInv, setup
    <3> QED
      BY <1>9, <3>1, <3>2
  <2> QED
    BY <2>1, PathKept
<1> QED
  BY <1>1, <1>2, <1>3, <1>4, <1>5, <1>6, <1>7, <1>8, <1>9 DEF Main

LEMMA NextPathInv == PathInv /\ [EvNext]_vars => PathInv'
<1> SUFFICES ASSUME PathInv, [EvNext]_vars PROVE PathInv'
  OBVIOUS
<1>1. CASE Main \/ DevFails
  BY <1>1, MainPath
<1>2. ASSUME UNCHANGED <<step, setup>> PROVE PathInv'
  BY <1>2, PathKept DEF setup
<1>3. CASE ForceQuit
  BY <1>2, <1>3 DEF ForceQuit
<1>4. CASE \E l \in DOMAIN core : LcoreStep(l)
  BY <1>2, <1>4, Zenon DEF LcoreStep, EthStart, EthFails, EthReturn, WorkerEnd, StopEthCores
<1>5. CASE \E l \in DOMAIN core : StartWorker(l)
  BY <1>2, <1>5 DEF StartWorker, FindWorker
<1>6. CASE (\E l \in DOMAIN core : Work(l)) \/ TxDone \/ UNCHANGED vars
  <2>1. UNCHANGED helpervars
    BY <1>6, Zenon DEF Work, TxDone, vars
  <2> QED
    BY <1>2, <2>1 DEF helpervars
<1> QED
  BY <1>1, <1>3, <1>4, <1>5, <1>6 DEF EvNext, HelperStep

(* The numbers of queues, as far as the machines PathComplete is about. *)
LEMMA QueueFacts ==
  ASSUME EnvOK(env), env.maxQ > 1
  PROVE  /\ NbQueues \in Nat /\ RxQueues \in Nat \ {0} /\ RxQueues <= NbQueues
         /\ ~AllInternal => RxQueues = NbQueues - 1
<1>1. env.maxQ \in Nat /\ env.eth \in Nat \ {0}
  BY DEF EnvOK
<1>2. Min({env.maxQ, env.eth + 1}) = IF env.maxQ <= env.eth + 1 THEN env.maxQ ELSE env.eth + 1
  BY <1>1, MinPair
<1>3. Min({env.maxQ, env.eth + 1}) \in Nat /\ Min({env.maxQ, env.eth + 1}) > 1
  BY <1>1, <1>2
<1> QED
  BY <1>3 DEF NbQueues, RxQueues

LEMMA ConnFacts ==
  ASSUME EnvOK(env), env.maxQ > 1, NEW p \in env.enabled
  PROVE  /\ DefaultConn[p] \in 0 .. NbQueues - 1
         /\ TxCore # None => DefaultConn[p] # TxQueue
<1>1. /\ NbQueues \in Nat /\ RxQueues \in Nat \ {0} /\ RxQueues <= NbQueues
      /\ ~AllInternal => RxQueues = NbQueues - 1
  BY QueueFacts
<1>2. env.eth \in Nat /\ p \in 0 .. env.eth - 1
  BY DEF EnvOK
<1>3. DefaultConn[p] = IF env.eth > RxQueues THEN 0 ELSE p
  BY DEF DefaultConn
<1>4. DefaultConn[p] \in 0 .. RxQueues - 1
  BY <1>1, <1>2, <1>3
<1>5. TxCore # None => ~AllInternal /\ TxQueue = NbQueues - 1
  BY DEF TxCore, TxQueue, AllInternal, EnvOK, Ports
<1> QED
  BY <1>1, <1>4, <1>5

(* An adapter that needs a core gets one of the eth cores. *)
LEMMA AdapterCores ==
  ASSUME EnvOK(env), em.ethCores \subseteq EthCores(env),
         ~AllInternal => em.ethCores = EthCores(env), NextLcore(env, 0, TRUE) # NoCore
  PROVE  \A c \in {RxCore, TxCore} \ {None} : c \in EthMask /\ c \in env.lcores
<1>1. EthCores(env) \subseteq env.lcores /\ EthCores(env) # {}
  BY EthCoresFacts
<1>2. env.lcores \subseteq Nat
  BY DEF EnvOK
<1>3. EthMask \subseteq env.lcores /\ (~AllInternal => EthMask # {})
  BY <1>1 DEF EthMask
<1>4. ASSUME NEW c, EthMask # {} PROVE NextEthCore(c) \in EthMask
  <2> DEFINE up == {l \in EthMask : l > c}
             T  == IF up = {} THEN EthMask ELSE up
  <2>1. NextEthCore(c) = Min(T)
    BY <1>4 DEF NextEthCore
  <2>2. T \in SUBSET Nat /\ T # {} /\ T \subseteq EthMask
    BY <1>2, <1>3, <1>4
  <2> HIDE DEF T
  <2> QED
    BY <2>1, <2>2, LeastNat
<1>5. /\ RxCore # None => ~AllInternal
      /\ TxCore # None => ~AllInternal
  BY DEF RxCore, TxCore, AllInternal, EnvOK, Ports
<1>6. /\ RxCore # None => RxCore \in EthMask
      /\ TxCore # None => TxCore \in EthMask
  BY <1>3, <1>4, <1>5 DEF RxCore, TxCore
<1> QED
  BY <1>3, <1>6

(* No worker is put on an eth core. *)
LEMMA WorkerCores ==
  ASSUME EnvOK(env), NEW k \in DOMAIN DefaultLinks
  PROVE  DefaultLinks[k].lcore \notin EthMask
<1>1. env.lcores \in SUBSET Nat /\ IsFiniteSet(env.lcores) /\ env.maxP \in Nat
  BY DEF EnvOK
<1>2. ActiveCores \in SUBSET env.lcores /\ ActiveCores \in SUBSET Nat
  BY <1>1 DEF ActiveCores
<1>3. IsFiniteSet(ActiveCores)
  BY <1>1, <1>2, FS_Subset
<1>4. Cardinality(ActiveCores) \in Nat /\ Cardinality(env.lcores) \in Nat
  BY <1>1, <1>3, FS_CardinalityType
<1>5. NbPorts \in Nat
  <2>1. NbPorts = IF env.maxP <= Cardinality(env.lcores) THEN env.maxP ELSE Cardinality(env.lcores)
    BY <1>1, <1>4, MinPair DEF NbPorts
  <2> QED
    BY <1>1, <1>4, <2>1
<1>6. Min({NbPorts, Cardinality(ActiveCores)}) =
        IF NbPorts <= Cardinality(ActiveCores) THEN NbPorts ELSE Cardinality(ActiveCores)
  BY <1>4, <1>5, MinPair
<1>7. k \in 1 .. Min({NbPorts, Cardinality(ActiveCores)})
  BY DEF DefaultLinks
<1>8. k - 1 \in Nat /\ k - 1 < Cardinality(ActiveCores)
  BY <1>4, <1>5, <1>6, <1>7
<1>9. \E l \in ActiveCores : Cardinality({x \in ActiveCores : x < l}) = k - 1
  BY <1>2, <1>3, <1>8, MemberByRank
<1>10. DefaultLinks[k].lcore =
         CHOOSE l \in ActiveCores : Cardinality({x \in ActiveCores : x < l}) = k - 1
  BY <1>7 DEF DefaultLinks
<1>11. DefaultLinks[k].lcore \in ActiveCores
  BY <1>9, <1>10
<1> QED
  BY <1>11 DEF ActiveCores

LEMMA PathIsComplete == PathInv => PathComplete
<1> SUFFICES ASSUME PathInv, step \in {"launch", "wait"}, env.maxQ > 1,
                    NextLcore(env, 0, TRUE) # NoCore
             PROVE
      /\ \A p \in env.enabled :
           /\ em.conn[p] \in 0 .. em.nbQ - 1
           /\ \A k \in DOMAIN em.link : <<em.link[k].port, em.conn[p]>> \in links
           /\ em.txCore # None => em.conn[p] # em.txQueue
      /\ em.txCore # None => {x \in links : x[2] = em.txQueue} = {<<TxPort, em.txQueue>>}
      /\ \A c \in {em.rxCore, em.txCore} \ {None} : c \in em.ethCores /\ c \in env.lcores
      /\ \A k \in DOMAIN em.link : em.link[k].lcore \notin em.ethCores
  BY DEF PathComplete
<1>1. EnvOK(env)
  BY EnvAssumption DEF PathInv
<1>2. em = Derived /\ links = LinkedAs(LinksOf(em))
  BY DEF PathInv
<1>3. /\ em.ethCores = EthMask /\ em.nbQ = NbQueues /\ em.link = DefaultLinks
      /\ em.conn = DefaultConn /\ em.rxCore = RxCore /\ em.txCore = TxCore
      /\ em.txQueue = TxQueue
  BY <1>2 DEF Derived
<1>4. \A p \in env.enabled :
        em.conn[p] \in 0 .. em.nbQ - 1 /\ (em.txCore # None => em.conn[p] # em.txQueue)
  BY <1>1, <1>3, ConnFacts
<1>5. \A p \in env.enabled : \A k \in DOMAIN em.link : <<em.link[k].port, em.conn[p]>> \in links
  BY <1>2, <1>4 DEF LinkedAs, LinksOf
<1>6. em.txCore # None => {x \in links : x[2] = em.txQueue} = {<<TxPort, em.txQueue>>}
  BY <1>2 DEF LinkedAs
<1>7. \A c \in {em.rxCore, em.txCore} \ {None} : c \in em.ethCores /\ c \in env.lcores
  BY <1>1, <1>3, AdapterCores DEF PathInv
<1>8. \A k \in DOMAIN em.link : em.link[k].lcore \notin em.ethCores
  BY <1>1, <1>3, WorkerCores
<1> QED
  BY <1>4, <1>5, <1>6, <1>7, <1>8

(* The default configuration is complete when the workers start, for all   *)
(* lcores, ports and limits of the event device: eh_set_default_conf_link, *)
(* _rx_adapter and _tx_adapter, then eh_initialize_eventdev and            *)
(* eh_tx_adapter_configure.                                                *)
THEOREM EventPathComplete == EvSpec => []PathComplete
<1> QED
  BY InitPathInv, NextPathInv, PathIsComplete, PTL DEF EvSpec
-----------------------------------------------------------------------------
(* No lcore stops the eth cores and eth_core_running is set for those that *)
(* run.                                                                    *)
Serving ==
  /\ \A l \in DOMAIN core : core[l] # "stop"
  /\ \A l \in DOMAIN core : core[l] = "eth_loop" => running

(* Before the launch no lcore does anything; an lcore in eh_find_worker is *)
(* neither a KNI lcore nor an eth core.                                    *)
CoreInv ==
  /\ step \in {"check", "validate", "stop", "eventdev", "rx", "tx", "start", "launch"} =>
       \A l \in DOMAIN core : core[l] = "off"
  /\ \A l \in DOMAIN core : core[l] = "find" => l \in env.lcores \ (env.kni \cup em.ethCores)
  /\ quit \/ Linkless \/ Serving

(* Linkless is about the set-up. *)
LEMMA LinklessKept == ASSUME UNCHANGED <<env, em>> PROVE Linkless' <=> Linkless
  BY DEF Linkless, Matches, HasLink, Ports

LEMMA MainCore == ASSUME HelperTypeOK, CoreInv, Main \/ DevFails PROVE CoreInv'
<1>1. ASSUME UNCHANGED <<core, running, quit>>,
             \/ \A l \in DOMAIN core : core[l] = "off"
             \/ UNCHANGED <<env, em>> /\ step' \in {"free_rx", "close_evdev", "free_tx", "done", "exit"}
      PROVE  CoreInv'
  <2>1. CASE \A l \in DOMAIN core : core[l] = "off"
    BY <1>1, <2>1 DEF CoreInv, Serving
  <2>2. CASE UNCHANGED <<env, em>> /\ step' \in {"free_rx", "close_evdev", "free_tx", "done", "exit"}
    BY <1>1, <2>2, LinklessKept DEF CoreInv, Serving
  <2> QED
    BY <1>1, <2>1, <2>2
<1>2. CASE CheckParams \/ Validate \/ StopPorts \/ InitEventdev \/ InitRxAdapter \/ InitTxAdapter \/ StartDevs
  <2>1. /\ step \in {"check", "validate", "stop", "eventdev", "rx", "tx", "start", "launch"}
        /\ UNCHANGED <<core, running, quit>>
    BY <1>2 DEF CheckParams, Validate, StopPorts, InitEventdev, InitRxAdapter, InitTxAdapter,
                StartDevs, Exit, lcorevars
  <2> QED
    BY <1>1, <2>1 DEF CoreInv
<1>3. CASE DevFails
  <2>1. /\ step \in {"check", "validate", "stop", "eventdev", "rx", "tx", "start", "launch"}
        /\ UNCHANGED <<core, running, quit>>
    BY <1>3 DEF DevFails, Exit, lcorevars
  <2> QED
    BY <1>1, <2>1 DEF CoreInv
<1>4. CASE WaitLcores \/ Uninit
  <2>1. /\ UNCHANGED <<core, running, quit, env, em>>
        /\ step' \in {"free_rx", "close_evdev", "free_tx", "done", "exit"}
    BY <1>4 DEF WaitLcores, Uninit, FreeAdapter, Exit, lcorevars, setup
  <2> QED
    BY <1>1, <2>1
<1>5. CASE Launch
  <2>1. /\ step' = "wait" /\ UNCHANGED <<env, em>>
        /\ core' = [l \in env.lcores |-> IF l \in env.kni THEN "kni"
                                         ELSE IF l \in em.ethCores THEN "eth_start" ELSE "find"]
    BY <1>5 DEF Launch, setup
  <2>2. \A l \in DOMAIN core' :
          /\ core'[l] \in {"kni", "eth_start", "find"}
          /\ core'[l] = "find" => l \in env.lcores \ (env.kni \cup em.ethCores)
    BY <2>1
  <2> QED
    BY <2>1, <2>2 DEF CoreInv, Serving
<1> QED
  BY <1>2, <1>3, <1>4, <1>5 DEF Main

LEMMA LcoreCore ==
  ASSUME HelperTypeOK, CoreInv, NEW l \in DOMAIN core, LcoreStep(l) \/ FindWorker(l)
  PROVE  CoreInv'
<1>1. UNCHANGED <<step, env, em, quit>> /\ (Linkless' <=> Linkless)
  BY LinklessKept DEF LcoreStep, EthStart, EthFails, EthReturn, WorkerEnd, StopEthCores, FindWorker, setup
<1>2. core[l] # "off" /\ step \notin {"check", "validate", "stop", "eventdev", "rx", "tx", "start", "launch"}
  BY DEF CoreInv, LcoreStep, EthStart, EthFails, EthReturn, WorkerEnd, StopEthCores, FindWorker
<1>3. core \in [env.lcores -> Roles]
  BY DEF HelperTypeOK
<1>4. ASSUME NEW c, c # "find", Becomes(l, c),
             quit \/ Linkless \/ (Serving => c # "stop" /\ (c = "eth_loop" => running')
                                             /\ (running => running'))
      PROVE  CoreInv'
  <2>1. DOMAIN core' = DOMAIN core /\ core'[l] = c /\ \A m \in DOMAIN core \ {l} : core'[m] = core[m]
    BY <1>3, <1>4 DEF Becomes
  <2> QED
    BY <1>1, <1>2, <1>4, <2>1 DEF CoreInv, Serving
<1>5. CASE EthStart(l)
  BY <1>4, <1>5 DEF EthStart
<1>6. CASE EthFails(l) \/ EthReturn(l)
  BY <1>4, <1>6 DEF EthFails, EthReturn
<1>7. CASE WorkerEnd(l)
  BY <1>4, <1>7 DEF WorkerEnd
<1>8. CASE StopEthCores(l)
  <2>1. quit \/ Linkless
    BY <1>8 DEF StopEthCores, CoreInv, Serving
  <2> QED
    BY <1>4, <1>8, <2>1 DEF StopEthCores
<1>9. CASE FindWorker(l)
  <2>1. ~(Matches /\ HasLink(l)) => Linkless
    BY <1>9 DEF FindWorker, CoreInv, Linkless
  <2>2. CASE Matches /\ HasLink(l)
    BY <1>4, <1>9, <2>2 DEF FindWorker
  <2>3. CASE ~(Matches /\ HasLink(l))
    <3>1. Becomes(l, "stop") /\ (quit \/ Linkless)
      BY <1>9, <2>1, <2>3, Zenon DEF FindWorker
    <3> QED
      BY <1>4, <3>1, SMTT(30)
  <2> QED
    BY <2>2, <2>3
<1> QED
  BY <1>5, <1>6, <1>7, <1>8, <1>9 DEF LcoreStep

LEMMA NextCoreInv == HelperTypeOK /\ CoreInv /\ [EvNext]_vars => CoreInv'
<1> SUFFICES ASSUME HelperTypeOK, CoreInv, [EvNext]_vars PROVE CoreInv'
  OBVIOUS
<1>1. CASE UNCHANGED helpervars
  BY <1>1, LinklessKept DEF helpervars, setup, lcorevars, CoreInv, Serving
<1>2. CASE HelperStep
  <2>1. CASE ForceQuit
    <3>1. quit' = TRUE /\ UNCHANGED <<step, core, env, em>>
      BY <2>1 DEF ForceQuit, setup
    <3> QED
      BY <3>1 DEF CoreInv
  <2> QED
    BY <1>2, <2>1, MainCore, LcoreCore DEF HelperStep
<1>3. ASSUME NEW l \in DOMAIN core, StartWorker(l) PROVE CoreInv'
  BY <1>3, LcoreCore DEF StartWorker
<1> QED
  BY <1>1, <1>2, <1>3, Zenon DEF EvNext, vars, Work, TxDone

(* An eth core that returns was told to, by the last of CoreInv.           *)
LEMMA ReturnsTold ==
  ASSUME HelperTypeOK, CoreInv, [EvNext]_vars
  PROVE  [\A l \in DOMAIN core :
            core[l] = "eth_loop" /\ core'[l] = "returned" => quit \/ Linkless]_helpervars
<1> SUFFICES ASSUME NEW l \in DOMAIN core, core[l] = "eth_loop", core'[l] = "returned"
             PROVE  quit \/ Linkless
  BY SMTT(30)
<1>1. \E m \in DOMAIN core : LcoreStep(m) \/ FindWorker(m)
  <2>1. core' # core
    OBVIOUS
  <2>2. ~(Main \/ DevFails \/ ForceQuit)
    <3>1. step \notin {"check", "validate", "stop", "eventdev", "rx", "tx", "start", "launch"}
      BY DEF CoreInv
    <3> QED
      BY <2>1, <3>1 DEF Main, CheckParams, Validate, StopPorts, InitEventdev, InitRxAdapter,
           InitTxAdapter, StartDevs, Launch, WaitLcores, Uninit, FreeAdapter, DevFails, ForceQuit,
           Exit, lcorevars
  <2> QED
    BY <2>1, <2>2, Zenon DEF EvNext, HelperStep, StartWorker, Work, TxDone, vars, helpervars, lcorevars
<1>2. PICK m \in DOMAIN core : LcoreStep(m) \/ FindWorker(m)
  BY <1>1
<1>3. \E c : Becomes(m, c)
  BY <1>2 DEF LcoreStep, EthStart, EthFails, EthReturn, WorkerEnd, StopEthCores, FindWorker
<1>4. m = l
  BY <1>3 DEF Becomes
<1>5. EthReturn(l)
  BY <1>2, <1>4 DEF LcoreStep, EthStart, EthFails, WorkerEnd, StopEthCores, FindWorker
<1>6. ~Serving
  BY <1>5 DEF EthReturn, Serving
<1> QED
  BY <1>6 DEF CoreInv

(* No lcore that has work stops the eth cores before force_quit, on every  *)
(* machine: only eh_stop_worker_eth_core resets eth_core_running, and an   *)
(* lcore comes there after force_quit or without work.                     *)
THEOREM EthCoresServe == EvSpec => EthCoreServes
<1>1. EvInit => TypeInv /\ WorkerInv /\ CoreInv
  <2>1. EvInit => CoreInv
    BY DEF EvInit, HelperInit, CoreInv, Serving
  <2> QED
    BY <2>1, InitTypeInv, InitWorkerInv
<1>2. TypeInv /\ WorkerInv /\ CoreInv /\ [EvNext]_vars => (TypeInv /\ WorkerInv /\ CoreInv)'
  BY NextTypeInv, NextWorkerInv, NextCoreInv DEF TypeInv
<1>3. TypeInv /\ WorkerInv /\ CoreInv /\ [EvNext]_vars =>
        [\A l \in DOMAIN core :
           core[l] = "eth_loop" /\ core'[l] = "returned" => quit \/ Linkless]_helpervars
  BY ReturnsTold DEF TypeInv
<1> QED
  BY <1>1, <1>2, <1>3, PTL DEF EvSpec, EthCoreServes
=============================================================================
