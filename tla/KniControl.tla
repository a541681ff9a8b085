----------------------------- MODULE KniControl -----------------------------
(***************************************************************************)
(* The life of the process around the packet workers: each lcore runs the  *)
(* KNI receive loop, the KNI transmit loop or a polling worker; the        *)
(* receive loop answers the kernel's requests about the interface, the     *)
(* flags kni_pause, kni_stop and force_quit tell the loops to wait and to  *)
(* end, and main waits for all of them before it cleans up.                *)
(***************************************************************************)
EXTENDS Integers, FiniteSets

CONSTANTS
  KLcores, MainLcore,
  Roles,       \* functions from KLcores to "kni_rx", "kni_tx", "poll"
  MaxRequests, \* bound on the kernel's requests
  MaxKniPkts   \* bound on the packets the kernel sends

ASSUME KniAssumption ==
  /\ MainLcore \in KLcores
  /\ Roles \subseteq [KLcores -> {"kni_rx", "kni_tx", "poll"}]
  /\ \A r \in Roles, l, m \in KLcores : r[l] = "kni_rx" /\ r[m] = "kni_rx" => l = m
  /\ MaxRequests \in Nat /\ MaxKniPkts \in Nat

VARIABLES
  role,
  at,       \* where each lcore is
  pause, stop, quit,  \* kni_pause, kni_stop, force_quit
  req,      \* the request of the kernel that waits for an answer
  port,     \* "started", "stopped", or being "configured"
  left,     \* requests and packets still to come
  kniTx,    \* packets the kernel has sent to the interface
  main,     \* "run", "wait", "signal"; "exited"
  seen      \* f_stop of each loop

kvars == <<role, at, pause, stop, quit, req, port, left, kniTx, main, seen>>

NoReq == "none"

KniInit ==
  /\ role \in Roles
  /\ at = [l \in KLcores |-> IF role[l] = "poll" THEN "poll" ELSE "top"]
  /\ pause = 0 /\ stop = 0 /\ quit = FALSE
  /\ req = NoReq /\ port = "started"
  /\ left \in {[req |-> 0, pkt |-> 0], [req |-> MaxRequests, pkt |-> MaxKniPkts]}
  /\ kniTx = 0 /\ main = "run"
  /\ seen = [l \in KLcores |-> 0]

Alive == main # "exited"
Goto(l, label) == at' = [at EXCEPT ![l] = label]

(* The kernel asks for a new MTU or the interface up or down, or sends.    *)
Request ==
  /\ Alive /\ req = NoReq /\ left.req > 0
  /\ \E r \in {"mtu", "up", "down"} : req' = r
  /\ left' = [left EXCEPT !.req = @ - 1]
  /\ UNCHANGED <<role, at, pause, stop, quit, port, kniTx, main, seen>>

KernelSends ==
  /\ Alive /\ left.pkt > 0
  /\ kniTx' = kniTx + 1
  /\ left' = [left EXCEPT !.pkt = @ - 1]
  /\ UNCHANGED <<role, at, pause, stop, quit, req, port, main, seen>>

(* ethdev_reset_event_callback *)
ResetEvent ==
  /\ Alive /\ left.req > 0 /\ ~quit
  /\ quit' = TRUE
  /\ UNCHANGED <<role, at, pause, stop, req, port, left, kniTx, main, seen>>

(* signal_handler sets all flags and exits, whatever main was doing.       *)
Signal ==
  /\ main \in {"run", "wait"} /\ left.req > 0
  /\ quit' = TRUE /\ stop' = stop + 1
  /\ main' = "signal"
  /\ UNCHANGED <<role, at, pause, req, port, left, kniTx, seen>>

SignalExit ==
  /\ main = "signal"
  /\ main' = "exited"
  /\ UNCHANGED <<role, at, pause, stop, quit, req, port, left, kniTx, seen>>
-----------------------------------------------------------------------------
Runs(l) == Alive /\ ~(l = MainLcore /\ main = "signal")

(* main_loop: kni_stop is read, *)
LoopTop(l) ==
  /\ Runs(l) /\ at[l] = "top"
  /\ seen' = [seen EXCEPT ![l] = stop]
  /\ Goto(l, "test")
  /\ UNCHANGED <<role, pause, stop, quit, req, port, left, kniTx, main>>

(* then kni_pause, and both are obeyed. *)
Body(l) == seen[l] = 0 /\ pause = 0

LoopTest(l) ==
  /\ Runs(l) /\ at[l] = "test"
  /\ Goto(l, IF Body(l) THEN "body" ELSE IF seen[l] > 0 THEN "done" ELSE "top")
  /\ UNCHANGED <<role, pause, stop, quit, req, port, left, kniTx, main, seen>>

(* kni_egress: IKE packets go to their port, all others are freed.         *)
Egress(l) ==
  /\ Runs(l) /\ role[l] = "kni_tx" /\ at[l] = "body"
  /\ kniTx' = 0
  /\ Goto(l, "top")
  /\ UNCHANGED <<role, pause, stop, quit, req, port, left, main, seen>>

(* kni_ingress: rte_kni_handle_request answers a request by a callback.    *)
Ingress(l) ==
  /\ Runs(l) /\ role[l] = "kni_rx" /\ at[l] = "body"
  /\ Goto(l, CASE req = NoReq -> "top" [] req = "mtu" -> "mtu" [] OTHER -> "pause")
  /\ UNCHANGED <<role, pause, stop, quit, req, port, left, kniTx, main, seen>>

(* kni_change_mtu: nothing is paused, and a failure leaves the port        *)
(* stopped; that of the descriptors ends the process.                      *)
MtuStop(l) ==
  /\ Runs(l) /\ at[l] = "mtu"
  /\ \/ port' = "stopped" /\ Goto(l, "mtuSetup") /\ UNCHANGED req
     \/ req' = NoReq /\ Goto(l, "top") /\ UNCHANGED port
  /\ UNCHANGED <<role, pause, stop, quit, left, kniTx, main, seen>>

MtuSetup(l) ==
  /\ Runs(l) /\ at[l] = "mtuSetup"
  /\ \/ port' = "started" /\ UNCHANGED main
     \/ UNCHANGED <<port, main>>
     \/ main' = "exited" /\ UNCHANGED port
  /\ req' = NoReq
  /\ Goto(l, "top")
  /\ UNCHANGED <<role, pause, stop, quit, left, kniTx, seen>>

(* kni_config_network_interface *)
IfPause(l) ==
  /\ Runs(l) /\ at[l] = "pause"
  /\ pause' = pause + 1
  /\ Goto(l, "ifStop")
  /\ UNCHANGED <<role, stop, quit, req, port, left, kniTx, main, seen>>

IfStop(l) ==
  /\ Runs(l) /\ at[l] = "ifStop"
  /\ \/ port' = "stopped" /\ Goto(l, IF req = "up" THEN "ifStart" ELSE "resume")
     \/ UNCHANGED port /\ Goto(l, "fail")
  /\ UNCHANGED <<role, pause, stop, quit, req, left, kniTx, main, seen>>

IfStart(l) ==
  /\ Runs(l) /\ at[l] = "ifStart"
  /\ port' \in {"started", "stopped"}
  /\ Goto(l, "resume")
  /\ UNCHANGED <<role, pause, stop, quit, req, left, kniTx, main, seen>>

(* Every return takes the pause back.  Mutant: that of a failed stop       *)
(* forgets it.                                                             *)
ResumeButFail(l) == IF at[l] = "fail" THEN pause ELSE pause - 1

Resume(l) == pause - 1

IfResume(l) ==
  /\ Runs(l) /\ at[l] \in {"resume", "fail"}
  /\ pause' = Resume(l)
  /\ req' = NoReq
  /\ Goto(l, "top")
  /\ UNCHANGED <<role, stop, quit, port, left, kniTx, main, seen>>
-----------------------------------------------------------------------------
(* A polling worker, and the two threads of the receive lcore, see         *)
(* force_quit.  Mutant: the worker runs on.                                *)
QuitsNever(l) == FALSE

Quits(l) == at[l] = "poll" /\ quit

WorkerEnd(l) ==
  /\ Runs(l) /\ Quits(l)
  /\ Goto(l, "done")
  /\ UNCHANGED <<role, pause, stop, quit, req, port, left, kniTx, main, seen>>

MainWait ==
  /\ main = "run" /\ at[MainLcore] = "done"
  /\ main' = "wait"
  /\ UNCHANGED <<role, at, pause, stop, quit, req, port, left, kniTx, seen>>

(* rte_eal_wait_lcore returns for every lcore: main cleans up and ends.    *)
MainExit ==
  /\ main = "wait" /\ \A l \in KLcores : at[l] = "done"
  /\ port' = "stopped" /\ main' = "exited"
  /\ UNCHANGED <<role, at, pause, stop, quit, req, left, kniTx, seen>>

Step(l) ==
  \/ LoopTop(l) \/ LoopTest(l) \/ Egress(l) \/ Ingress(l) \/ MtuStop(l) \/ MtuSetup(l)
  \/ IfPause(l) \/ IfStop(l) \/ IfStart(l) \/ IfResume(l) \/ WorkerEnd(l)

KniNext ==
  \/ Request \/ KernelSends \/ ResetEvent \/ Signal \/ SignalExit
  \/ \E l \in KLcores : Step(l)
  \/ MainWait \/ MainExit
-----------------------------------------------------------------------------
KniTypeOK ==
  /\ role \in Roles
  /\ pause \in 0 .. 1 /\ stop \in 0 .. 1 /\ quit \in BOOLEAN
  /\ req \in {NoReq, "mtu", "up", "down"} /\ port \in {"started", "stopped"}
  /\ kniTx \in 0 .. MaxKniPkts
  /\ main \in {"run", "wait", "signal", "exited"}
  /\ \A l \in KLcores : at[l] \in {"mtu", "mtuSetup", "pause", "ifStop", "ifStart",
                                   "resume", "fail"} => role[l] = "kni_rx" /\ req # NoReq

HasRole(r) == \E l \in KLcores : role[l] = r

(* Every pause ends and every request of the kernel is answered, whichever *)
(* step of it fails; what the kernel sends is taken; and force_quit ends   *)
(* the process, unless a KNI loop runs: a reset of a device does not set   *)
(* kni_stop, and main waits for that loop for ever.                        *)
KniResponsive ==
  /\ pause > 0 ~> pause = 0 \/ ~Alive
  /\ req # NoReq /\ HasRole("kni_rx") ~> req = NoReq \/ ~Alive
  /\ kniTx > 0 /\ HasRole("kni_tx") ~> kniTx = 0 \/ ~Alive
  /\ quit ~> ~Alive \/ HasRole("kni_rx") \/ HasRole("kni_tx")
=============================================================================
