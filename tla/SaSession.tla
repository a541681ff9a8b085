----------------------------- MODULE SaSession ------------------------------
(***************************************************************************)
(* The crypto session of a lookaside SA, created by the first lcore that   *)
(* has a packet for it: ipsec_enqueue (legacy mode) and ipsec_process      *)
(* (library mode) test ips->crypto.ses and call create_lookaside_session   *)
(* when it is NULL.  The SA belongs to the socket and is shared, without a *)
(* lock, by the contexts of its direction of all lcores; sa->cdev_id_qp is *)
(* an index into the table of whichever context uses it.                   *)
(*                                                                         *)
(* The tables are those cryptodevs_init built: the lcores start when it is *)
(* done.  Each read or write of the SA is a step of its own.               *)
(***************************************************************************)
EXTENDS CdevMap

CONSTANTS
  SA,        \* security associations
  SaDir,     \* their direction
  SaAlgo,    \* their algorithm
  SaType,    \* "NONE", "LOOKASIDE_PROTOCOL" or "CPU_CRYPTO"
  CpuDevs,   \* devices with RTE_CRYPTODEV_FF_SYM_CPU_CRYPTO
  PoolSize,  \* sessions in socket_ctx.session_pool
  RunConfs   \* bound: the configurations whose lcores are started

ASSUME SesAssumption ==
  /\ SaDir \in [SA -> {"in", "out"}]
  /\ SaAlgo \in [SA -> Algos]
  /\ SaType \in [SA -> {"NONE", "LOOKASIDE_PROTOCOL", "CPU_CRYPTO"}]
  /\ PoolSize \in Nat
  /\ RunConfs \subseteq Confs

VARIABLES
  enable,     \* app_sa_prm.enable, from the command line: library mode
  pc,         \* where each context's lcore is
  cur,        \* the SA of the packet it handles
  my_qp,      \* its local cdev_id_qp in create_lookaside_session
  ses,        \* ips->crypto.ses / ips->security.ses of each SA, 0 for NULL
  cdev_id_qp, \* sa->cdev_id_qp
  dev_id,     \* ips->crypto.dev_id
  inited,     \* the devices each session was initialised for
  refused,    \* ghost: the devices that failed to initialise each session
  nses,       \* sessions taken from the pool; none is ever returned
  cleared,    \* SAs whose rte_ipsec_session was zeroed: type NONE, no rte_ipsec SA
  early       \* ghost: contexts whose SA another was creating the session of

sesvars == <<pc, cur, my_qp, ses, cdev_id_qp, dev_id, inited, refused, nses, cleared, early>>
vars    == <<enable, mapvars, sesvars>>

Idle == "idle"

SesInit ==
  /\ Init
  /\ enable \in {b \in BOOLEAN : b => conf \in RunConfs}  \* read by the lcores only
  /\ pc = [c \in Ctx |-> Idle]
  /\ cur = [c \in Ctx |-> CHOOSE s \in SA : TRUE]
  /\ my_qp = [c \in Ctx |-> 0]
  /\ ses = [s \in SA |-> 0]
  /\ cdev_id_qp = [s \in SA |-> 0]
  /\ dev_id = [s \in SA |-> 0]
  /\ inited = [n \in 1 .. PoolSize |-> {}] /\ refused = inited
  /\ nses = 0
  /\ cleared = {} /\ early = {}
-----------------------------------------------------------------------------
(* The contexts of the lcores. *)
Users == {conf.params[n] : n \in DOMAIN conf.params}

Type(s) == IF s \in cleared THEN "NONE" ELSE SaType[s]

Goto(c, label) == pc' = [pc EXCEPT ![c] = label]

(* The packet is freed, or enqueued, or processed. *)
Leave(c) == Goto(c, Idle) /\ early' = early \ {c}

Busy == {"create", "cpu", "publish", "init", "setqp", "prepare"}

(* The contexts that are creating a session for s. *)
Creators(s) == {c \in Ctx : cur[c] = s /\ pc[c] \in Busy}

(* A packet for SA s arrives at a context of its direction; the session    *)
(* pointer is tested.  Legacy mode discards the packets of CPU_CRYPTO SAs. *)
TestSession(c) ==
  /\ pc[c] = Idle
  /\ c \in Users
  /\ \E s \in SA :
       /\ SaDir[s] = c[2]
       /\ enable \/ Type(s) # "CPU_CRYPTO"
       /\ cur' = [cur EXCEPT ![c] = s]
       /\ Goto(c, IF ses[s] # 0 THEN "enqueue" ELSE "create")
       /\ early' = early \cup {d \in {c} : Creators(s) # {}}
                         \cup {d \in Creators(s) : ses[s] = 0}
  /\ UNCHANGED <<my_qp, ses, cdev_id_qp, dev_id, inited, refused, nses, cleared>>

(* create_lookaside_session, the lookup of the device for this lcore and   *)
(* algorithm; the packet is freed when there is none.  Mutant: the result  *)
(* of the lookup is not looked at.                                         *)
LookupFailsNever(c) == FALSE

LookupFails(c) == map[c][SaAlgo[cur[c]]] = NoEnt

(* The value the map holds for the key.  Mutant: the number of queue pairs *)
(* of the context is taken for the index of the last.                      *)
MappedQpCount(c) == Len(tbl[c])

MappedQp(c) == Max({0, map[c][SaAlgo[cur[c]]]})

LookupCdev(c) ==
  /\ pc[c] = "create"
  /\ IF LookupFails(c)
     THEN Leave(c) /\ UNCHANGED my_qp
     ELSE /\ Goto(c, IF Type(cur[c]) = "CPU_CRYPTO" THEN "cpu" ELSE "publish")
          /\ my_qp' = [my_qp EXCEPT ![c] = MappedQp(c)]
          /\ UNCHANGED early
  /\ UNCHANGED <<cur, ses, cdev_id_qp, dev_id, inited, refused, nses, cleared>>

Cdev(c) == tbl[c][my_qp[c] + 1].id

(* The device of a CPU_CRYPTO session must be able to process packets on   *)
(* the lcore.  Mutant: this is not asked.                                  *)
CpuUnasked(c) ==
  /\ pc[c] = "cpu"
  /\ Goto(c, "publish") /\ UNCHANGED early
  /\ dev_id' = [dev_id EXCEPT ![cur[c]] = Cdev(c)]
  /\ UNCHANGED <<cur, my_qp, ses, cdev_id_qp, inited, refused, nses, cleared>>

CpuDevice(c) ==
  /\ pc[c] = "cpu"
  /\ IF Cdev(c) \in CpuDevs
     THEN /\ Goto(c, "publish") /\ UNCHANGED early
          /\ dev_id' = [dev_id EXCEPT ![cur[c]] = Cdev(c)]
     ELSE Leave(c) /\ UNCHANGED dev_id
  /\ UNCHANGED <<cur, my_qp, ses, cdev_id_qp, inited, refused, nses, cleared>>

(* rte_security_session_create returns a session that is ready;            *)
(* rte_cryptodev_sym_session_create one that is not: the SA refers to it   *)
(* before rte_cryptodev_sym_session_init makes it ready.                   *)
CreateSession(c) ==
  /\ pc[c] = "publish" /\ nses < PoolSize
  /\ nses' = nses + 1
  /\ ses' = [ses EXCEPT ![cur[c]] = nses + 1]
  /\ IF Type(cur[c]) = "LOOKASIDE_PROTOCOL"
     THEN /\ inited' = [inited EXCEPT ![nses + 1] = {Cdev(c)}]
          /\ Goto(c, "setqp")
     ELSE UNCHANGED inited /\ Goto(c, "init")
  /\ UNCHANGED <<cur, my_qp, cdev_id_qp, dev_id, refused, cleared, early>>

(* No session: for a protocol session -1 is returned and the packet freed, *)
(* for another the NULL pointer is not noticed.  Mutant: it is not noticed *)
(* for a protocol session either.                                          *)
CreateFailsUnnoticed(c) ==
  /\ pc[c] = "publish"
  /\ nses < PoolSize => Type(cur[c]) = "LOOKASIDE_PROTOCOL"
  /\ ses' = [ses EXCEPT ![cur[c]] = 0]
  /\ Goto(c, "init") /\ UNCHANGED early
  /\ UNCHANGED <<cur, my_qp, cdev_id_qp, dev_id, inited, refused, nses, cleared>>

CreateFails(c) ==
  /\ pc[c] = "publish"
  /\ nses < PoolSize => Type(cur[c]) = "LOOKASIDE_PROTOCOL"
  /\ ses' = [ses EXCEPT ![cur[c]] = 0]
  /\ IF Type(cur[c]) = "LOOKASIDE_PROTOCOL"
     THEN Leave(c)
     ELSE Goto(c, "init") /\ UNCHANGED early
  /\ UNCHANGED <<cur, my_qp, cdev_id_qp, dev_id, inited, refused, nses, cleared>>

(* rte_cryptodev_sym_session_init for the lcore's device, of the session   *)
(* the SA refers to now; it may fail, and does for the NULL pointer, and   *)
(* its result is ignored.                                                  *)
WithCdev(f, c) ==
  IF ses[cur[c]] = 0 THEN f ELSE [f EXCEPT ![ses[cur[c]]] = @ \cup {Cdev(c)}]

InitSession(c) ==
  /\ pc[c] = "init"
  /\ \/ inited' = WithCdev(inited, c) /\ UNCHANGED refused
     \/ refused' = WithCdev(refused, c) /\ UNCHANGED inited
  /\ Goto(c, "setqp")
  /\ UNCHANGED <<cur, my_qp, ses, cdev_id_qp, dev_id, nses, cleared, early>>

(* Mutant: the index is not stored in the SA. *)
SetQpSkip(c) ==
  /\ pc[c] = "setqp"
  /\ Goto(c, IF enable THEN "prepare" ELSE "enqueue")
  /\ UNCHANGED <<cur, my_qp, ses, cdev_id_qp, dev_id, inited, refused, nses, cleared, early>>

SetQp(c) ==
  /\ pc[c] = "setqp"
  /\ cdev_id_qp' = [cdev_id_qp EXCEPT ![cur[c]] = my_qp[c]]
  /\ Goto(c, IF enable THEN "prepare" ELSE "enqueue")
  /\ UNCHANGED <<cur, my_qp, ses, dev_id, inited, refused, nses, cleared, early>>

(* Library mode, the end of fill_ipsec_session: rte_ipsec_session_prepare  *)
(* refuses a session without rte_ipsec SA or without crypto session, and   *)
(* may fail otherwise; on failure the whole session structure is zeroed.   *)
Prepare(c) ==
  /\ pc[c] = "prepare"
  /\ \/ /\ cur[c] \notin cleared /\ ses[cur[c]] # 0
        /\ Goto(c, "enqueue")
        /\ UNCHANGED <<ses, dev_id, cleared, early>>
     \/ /\ ses' = [ses EXCEPT ![cur[c]] = 0]
        /\ dev_id' = [dev_id EXCEPT ![cur[c]] = 0]
        /\ cleared' = cleared \cup {cur[c]}
        /\ Leave(c)
  /\ UNCHANGED <<cur, my_qp, cdev_id_qp, inited, refused, nses>>

(* The operation goes to ipsec_ctx->tbl[sa->cdev_id_qp]; the packets of a  *)
(* CPU_CRYPTO SA are processed at once by the device crypto.dev_id.        *)
Enqueue(c) ==
  /\ pc[c] = "enqueue"
  /\ Leave(c)
  /\ UNCHANGED <<cur, my_qp, ses, cdev_id_qp, dev_id, inited, refused, nses, cleared>>

LcoreStep(c) ==
  \/ TestSession(c) \/ LookupCdev(c) \/ CpuDevice(c) \/ CreateSession(c) \/ CreateFails(c)
  \/ InitSession(c) \/ SetQp(c) \/ Prepare(c) \/ Enqueue(c)

SesNext ==
  \/ MapNext /\ UNCHANGED <<enable, sesvars>>
  \/ Done /\ conf \in RunConfs /\ \E c \in Ctx : LcoreStep(c) /\ UNCHANGED <<enable, mapvars>>

SesSpec == SesInit /\ [][SesNext]_vars
-----------------------------------------------------------------------------
(* Type invariant. *)
SesTypeOK ==
  /\ MapTypeOK
  /\ enable \in BOOLEAN
  /\ pc \in [Ctx -> {Idle, "enqueue"} \cup Busy]
  /\ cur \in [Ctx -> SA]
  /\ \A c \in Ctx : pc[c] \in {"cpu", "publish", "init", "setqp"} => my_qp[c] < Len(tbl[c])
  /\ ses \in [SA -> 0 .. nses]
  /\ nses \in 0 .. PoolSize
  /\ cleared \subseteq SA

(* The device of an entry of the table of c; NoEnt for none. *)
DevAt(c, k) == IF k = NoEnt THEN NoEnt ELSE tbl[c][k + 1].id

(* The contexts that use an SA find the same index under its algorithm,    *)
(* and there a queue pair of the same device.                              *)
SameEntry(s) ==
  \A c, d \in {x \in Users : x[2] = SaDir[s]} :
    /\ map[c][SaAlgo[s]] = map[d][SaAlgo[s]]
    /\ DevAt(c, map[c][SaAlgo[s]]) = DevAt(d, map[d][SaAlgo[s]])

(* What is enqueued can be processed, if the lcores that use the SA find   *)
(* their devices at the same place: sa->cdev_id_qp is inside the table of  *)
(* the lcore that uses it (the RTE_ASSERT of ipsec_enqueue), even if it    *)
(* took the SA up while another was creating the session.  If it did not,  *)
(*   - the queue pair there belongs to a device that supports the SA;      *)
(*   - a NULL session means that the pool is exhausted;                    *)
(*   - the SA's session was initialised for that device, unless the device *)
(*     refused it;                                                         *)
(*   - packets processed on the lcore use this device, and it can do so.   *)
SessionUsable ==
  \A c \in Ctx :
    LET s == cur[c] IN
    pc[c] = "enqueue" /\ SameEntry(s) =>
      /\ cdev_id_qp[s] < Len(tbl[c])
      /\ c \notin early =>
           LET d == tbl[c][cdev_id_qp[s] + 1].id IN
           /\ SaAlgo[s] \in conf.caps[d]
           /\ ses[s] = 0 => nses = PoolSize
           /\ ses[s] # 0 => /\ d \in inited[ses[s]] \cup refused[ses[s]]
                            /\ Type(s) = "CPU_CRYPTO" => dev_id[s] = d /\ d \in CpuDevs
=============================================================================
