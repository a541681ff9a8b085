----------------------------- MODULE EventHelper ----------------------------
(***************************************************************************)
(* Event mode: the default configuration event_helper.c derives from the   *)
(* event device, the ports and the lcores, the set-up of the devices by    *)
(* eh_devs_init, the eth cores and workers that eh_launch_worker starts,   *)
(* and eh_devs_uninit.  eth_core_running is shared by all lcores without a *)
(* lock; each access to it is a step.                                      *)
(*                                                                         *)
(* Any call into DPDK may fail; the program then exits.                    *)
(***************************************************************************)
EXTENDS Integers, Sequences, FiniteSets, FiniteSetsExt

CONSTANTS
  Envs,     \* machines and command lines, see EnvOK
  MAX_RX_QUEUE_PER_LCORE,
  RunEnvs   \* bound: those whose lcores are started

(* lcores, main: enabled lcores and the main one; kni: kni_rx_core and     *)
(* kni_tx_core; eth: number of ports; enabled: enabled_port_mask; rxInt,   *)
(* txInt: ports with an internal port of the RX and TX adapter; maxQ,      *)
(* maxP, burst: limits and capability of the event device; mode: the IPsec *)
(* mode of the workers; lookaside: some SA is not an inline protocol one;  *)
(* config: --config is given.                                              *)
EnvOK(e) ==
  /\ e.lcores \subseteq Nat /\ IsFiniteSet(e.lcores)
  /\ e.main \in e.lcores /\ e.kni \subseteq Nat
  /\ e.eth \in Nat \ {0}
  /\ e.enabled \subseteq 0 .. e.eth - 1 /\ e.enabled # {}
  /\ e.rxInt \subseteq 0 .. e.eth - 1 /\ e.txInt \subseteq 0 .. e.eth - 1
  /\ e.maxQ \in Nat \ {0} /\ e.maxP \in Nat \ {0}
  /\ e.lookaside \in BOOLEAN /\ e.config \in BOOLEAN
  /\ e.burst \in BOOLEAN /\ e.mode \in {"app", "driver"}

ASSUME EnvAssumption == RunEnvs \subseteq Envs /\ \A e \in Envs : EnvOK(e)

VARIABLES
  env,      \* the machine and the command line
  step,     \* where main is
  em,       \* eventmode_conf
  links,    \* <<event port, event queue>> linked in the device
  ports,    \* ports that are started
  devs,     \* which of the RX adapter, the TX adapter and the event device are started
  core,     \* what each lcore does
  running,  \* eth_core_running
  quit,     \* force_quit
  late      \* ghost: an eth core set eth_core_running after the last worker reset it

lcorevars  == <<core, running, quit, late>>
setup      == <<env, em, links, ports, devs>>
helpervars == <<step, setup, lcorevars>>

None == -1                      \* (uint32_t)-1: no core is needed
NoCore == -2                    \* RTE_MAX_LCORE
Ports == 0 .. env.eth - 1
TxPort == -1                    \* the event port of the TX adapter

(* rte_get_next_lcore(c, skip_main, 0) *)
NextLcore(e, c, skipMain) ==
  LET S == {l \in e.lcores : l > c /\ (skipMain => l # e.main)}
  IN  IF S = {} THEN NoCore ELSE Min(S)

(* eh_conf_init: the two lcores after lcore 0 that are not the main one.   *)
(* Once the end is reached the bits set are those of no lcore.             *)
EthCores(e) ==
  LET a == NextLcore(e, 0, TRUE)
      b == IF a = NoCore THEN NoCore ELSE NextLcore(e, a, TRUE)
  IN  {a, b} \ {NoCore}

HelperInit ==
  /\ env \in Envs
  /\ step = "check"
  /\ em = [ethCores |-> EthCores(env), nbQ |-> 0, nbP |-> 0, allInt |-> FALSE,
           link |-> <<>>, conn |-> <<>>, rxCore |-> None, txCore |-> None, txQueue |-> 0]
  /\ links = {} /\ ports = {} /\ devs = {}
  /\ core = [l \in env.lcores |-> "off"]
  /\ running = FALSE /\ quit = FALSE /\ late = FALSE
-----------------------------------------------------------------------------
(* eh_set_default_conf_eventdev and eh_do_capability_check: a queue for    *)
(* each port and one for TX, which is not needed when every port has       *)
(* internal ports.                                                         *)
AllInternal == Ports \subseteq env.rxInt \cap env.txInt
NbQueues    == Min({env.maxQ, env.eth + 1}) - (IF AllInternal THEN 1 ELSE 0)
NbPorts     == Min({env.maxP, Cardinality(env.lcores)})
EthMask     == IF AllInternal THEN {} ELSE em.ethCores

(* eh_set_default_conf_link: event port k goes to the k-th lcore that is   *)
(* not an eth core.  Mutant: eth cores are not skipped.                    *)
ActiveCoresAll == env.lcores

ActiveCores == env.lcores \ EthMask

DefaultLinks ==
  [k \in 1 .. Min({NbPorts, Cardinality(ActiveCores)}) |->
     [port |-> k - 1,
      lcore |-> CHOOSE l \in ActiveCores : Cardinality({x \in ActiveCores : x < l}) = k - 1]]

(* eh_get_next_eth_core after core c, NoCore if there is no eth core. *)
NextEthCore(c) ==
  LET up == {l \in EthMask : l > c}
  IN  IF EthMask = {} THEN NoCore ELSE Min(IF up = {} THEN EthMask ELSE up)

(* eh_set_default_conf_rx_adapter: one queue for all ports unless there    *)
(* are enough besides the TX queue.  Mutant: the TX queue is not set       *)
(* aside.                                                                  *)
RxQueuesAll == NbQueues

RxQueues == IF AllInternal THEN NbQueues ELSE NbQueues - 1

DefaultConn == [p \in env.enabled |-> IF env.eth > RxQueues THEN 0 ELSE p]
RxCore      == IF env.enabled \subseteq env.rxInt THEN None ELSE NextEthCore(-1)

(* eh_set_default_conf_tx_adapter, after the RX adapter took its core. *)
TxCore ==
  IF env.enabled \subseteq env.txInt THEN None
  ELSE NextEthCore(IF RxCore = None THEN -1 ELSE RxCore)
TxQueue == IF TxCore = None THEN 0 ELSE NbQueues - 1

Exit == step' = "exit" /\ UNCHANGED <<setup, lcorevars>>

(* check_event_mode_params and init_lcore_rx_queues: every enabled port    *)
(* gets one queue, all on the lcore after lcore 0.                         *)
CheckParams ==
  /\ step = "check"
  /\ \/ /\ \/ env.lookaside \/ env.config
           \/ Cardinality(env.enabled) > MAX_RX_QUEUE_PER_LCORE
        /\ Exit
     \/ /\ ~env.lookaside /\ ~env.config
        /\ Cardinality(env.enabled) <= MAX_RX_QUEUE_PER_LCORE
        /\ step' = "validate"
        /\ UNCHANGED <<setup, lcorevars>>

(* eh_validate_conf *)
Validate ==
  /\ step = "validate"
  /\ \/ env.maxP < 2 /\ Exit
     \/ /\ env.maxP >= 2
        /\ em' = [ethCores |-> EthMask, nbQ |-> NbQueues, nbP |-> NbPorts,
                  allInt |-> AllInternal, link |-> DefaultLinks, conn |-> DefaultConn,
                  rxCore |-> RxCore, txCore |-> TxCore, txQueue |-> TxQueue]
        /\ step' = "stop"
        /\ UNCHANGED <<env, links, ports, devs, lcorevars>>

(* eh_devs_init stops the ports, which nothing has started yet. *)
StopPorts ==
  /\ step = "stop"
  /\ ports' = ports \ env.enabled
  /\ step' = "eventdev"
  /\ UNCHANGED <<env, em, links, devs, lcorevars>>

(* eh_initialize_eventdev: a device without queues cannot be configured;   *)
(* every queue is linked to every port that has a link.                    *)
InitEventdev ==
  /\ step = "eventdev"
  /\ em.nbQ > 0
  /\ links' = {em.link[k].port : k \in DOMAIN em.link} \X (0 .. em.nbQ - 1)
  /\ step' = "rx"
  /\ UNCHANGED <<env, em, ports, devs, lcorevars>>

InitRxAdapter ==
  /\ step = "rx"
  /\ devs' = devs \cup {"rx"}
  /\ step' = "tx"
  /\ UNCHANGED <<env, em, links, ports, lcorevars>>

(* eh_tx_adapter_configure: the TX queue is taken from all ports and given *)
(* to the adapter's own.  Mutant: it is not taken from the ports.          *)
TxLinksShared == links \cup {<<TxPort, em.txQueue>>}

TxLinks == {x \in links : x[2] # em.txQueue} \cup {<<TxPort, em.txQueue>>}

InitTxAdapter ==
  /\ step = "tx"
  /\ links' = IF em.txCore = None THEN links ELSE TxLinks
  /\ devs' = devs \cup {"tx"}
  /\ step' = "start"
  /\ UNCHANGED <<env, em, ports, lcorevars>>

(* eh_start_eventdev, then the ports; main starts them a second time. *)
StartDevs ==
  /\ step = "start"
  /\ devs' = devs \cup {"evdev"} /\ ports' = ports \cup env.enabled
  /\ step' = "launch"
  /\ UNCHANGED <<env, em, links, lcorevars>>

DevFails == step \in {"stop", "eventdev", "rx", "tx", "start"} /\ Exit
-----------------------------------------------------------------------------
(* ipsec_launch_one_lcore on every lcore. *)
Launch ==
  /\ step = "launch" /\ env \in RunEnvs
  /\ core' = [l \in env.lcores |->
                IF l \in env.kni THEN "kni"
                ELSE IF l \in em.ethCores THEN "eth_start" ELSE "find"]
  /\ step' = "wait"
  /\ UNCHANGED <<setup, running, quit, late>>

Becomes(l, c) == core' = [core EXCEPT ![l] = c]

(* eh_start_worker_eth_core: the services the core runs. *)
Services(l) ==
  {s \in {"rx", "tx"} : l = IF s = "rx" THEN em.rxCore ELSE em.txCore}

EthStart(l) ==
  /\ core[l] = "eth_start"
  /\ running' = TRUE
  /\ late' = \A x \in DOMAIN core : core[x] \notin {"find", "work", "stop"}
  /\ Becomes(l, "eth_loop")
  /\ UNCHANGED <<step, setup, quit>>

(* The id of a service is not found: the core returns at once. *)
EthFails(l) ==
  /\ core[l] = "eth_start" /\ Services(l) # {}
  /\ Becomes(l, "returned")
  /\ UNCHANGED <<step, setup, running, quit, late>>

EthReturn(l) ==
  /\ core[l] = "eth_loop" /\ ~running
  /\ Becomes(l, "returned")
  /\ UNCHANGED <<step, setup, running, quit, late>>

HasLink(l) == \E k \in DOMAIN em.link : em.link[k].lcore = l

(* eh_find_worker: a worker is registered for devices without burst mode   *)
(* and with an internal TX port for every port.  It returns at once if its *)
(* lcore has no link.                                                      *)
Matches == em.link # <<>> /\ Ports \subseteq env.txInt /\ ~env.burst

FindWorker(l) ==
  /\ core[l] = "find"
  /\ Becomes(l, IF Matches /\ HasLink(l) THEN "work" ELSE "stop")
  /\ UNCHANGED <<step, setup, running, quit, late>>

(* The loop of a worker ends. *)
WorkerEnd(l) ==
  /\ core[l] = "work" /\ quit
  /\ Becomes(l, "stop")
  /\ UNCHANGED <<step, setup, running, quit, late>>

(* eh_stop_worker_eth_core.  Mutant: the flag is left alone. *)
StopNothing(l) ==
  /\ core[l] = "stop"
  /\ Becomes(l, "returned")
  /\ UNCHANGED <<step, setup, running, quit, late>>

(* The test of eth_core_running and its reset: the reset always stores     *)
(* false, so that what came between the two makes no difference.           *)
StopEthCores(l) ==
  /\ core[l] = "stop"
  /\ running' = FALSE
  /\ Becomes(l, "returned")
  /\ UNCHANGED <<step, setup, quit, late>>

(* ethdev_reset_event_callback *)
ForceQuit ==
  /\ step = "wait" /\ ~quit
  /\ quit' = TRUE
  /\ UNCHANGED <<step, setup, core, running, late>>

(* rte_eal_wait_lcore for all, then eh_devs_uninit, of which every call    *)
(* may fail.                                                               *)
WaitLcores ==
  /\ step = "wait"
  /\ \A l \in DOMAIN core : core[l] = "returned"
  /\ step' = "free_rx"
  /\ UNCHANGED <<setup, lcorevars>>

FreeAdapter(s, x, next) ==
  /\ step = s
  /\ \/ Exit
     \/ /\ devs' = devs \ {x}
        /\ step' = next
        /\ UNCHANGED <<env, em, links, ports, lcorevars>>

Uninit ==
  \/ FreeAdapter("free_rx", "rx", "close_evdev")
  \/ FreeAdapter("close_evdev", "evdev", "free_tx")
  \/ FreeAdapter("free_tx", "tx", "done")

Main ==
  \/ CheckParams \/ Validate \/ StopPorts \/ InitEventdev \/ InitRxAdapter \/ InitTxAdapter
  \/ StartDevs \/ Launch \/ WaitLcores \/ Uninit

(* The steps of an lcore but FindWorker, which sets up the worker too. *)
LcoreStep(l) == EthStart(l) \/ EthFails(l) \/ EthReturn(l) \/ WorkerEnd(l) \/ StopEthCores(l)

HelperStep == Main \/ DevFails \/ ForceQuit \/ \E l \in DOMAIN core : LcoreStep(l)
-----------------------------------------------------------------------------
(* The default configuration is complete when the workers start: what a    *)
(* port receives goes to a queue of the device that every worker's event   *)
(* port is linked to and that is not the TX queue; the TX queue goes to    *)
(* the TX adapter alone; and an adapter that needs a core has an eth core, *)
(* which no worker shares.  Two machines are left out: a device with one   *)
(* queue, where RX and TX share it, and one without a second lcore to be   *)
(* the eth core.                                                           *)
PathComplete ==
  step \in {"launch", "wait"} /\ env.maxQ > 1 /\ NextLcore(env, 0, TRUE) # NoCore =>
    /\ \A p \in env.enabled :
         /\ em.conn[p] \in 0 .. em.nbQ - 1
         /\ \A k \in DOMAIN em.link : <<em.link[k].port, em.conn[p]>> \in links
         /\ em.txCore # None => em.conn[p] # em.txQueue
    /\ em.txCore # None => {x \in links : x[2] = em.txQueue} = {<<TxPort, em.txQueue>>}
    /\ \A c \in {em.rxCore, em.txCore} \ {None} : c \in em.ethCores /\ c \in env.lcores
    /\ \A k \in DOMAIN em.link : em.link[k].lcore \notin em.ethCores

(* Some lcore comes to eh_stop_worker_eth_core without force_quit: it has  *)
(* no link, or no worker fits the device.                                  *)
Linkless ==
  \E l \in env.lcores \ (env.kni \cup em.ethCores) : ~(Matches /\ HasLink(l))

(* An eth core serves its adapters until force_quit, unless an lcore       *)
(* without work stops it.                                                  *)
EthCoreServes ==
  [][\A l \in DOMAIN core :
       core[l] = "eth_loop" /\ core'[l] = "returned" => quit \/ Linkless]_helpervars

(* And after force_quit every lcore but the KNI ones returns, provided     *)
(* that a worker is left to stop the eth cores when the last of them has   *)
(* started.                                                                *)
EthCoreLifetime ==
  /\ EthCoreServes
  /\ quit ~> \A l \in DOMAIN core : core[l] \in {"returned", "kni"} \/ late
=============================================================================
