------------------------------ MODULE Threads -------------------------------
(***************************************************************************)
(* The threads of one process: the flow table and its threads, and the     *)
(* control of the lcores.  The two share no variable: a behaviour has      *)
(* traffic for the one, and then no KNI loop, or requests for the other.   *)
(***************************************************************************)
EXTENDS NetLog, KniControl

AllPoll == [l \in KLcores |-> "poll"]

ThreadsInit ==
  /\ NetInit /\ KniInit
  /\ (\E l \in RxLcores : pkts[l] # <<>>) => left.req = 0 /\ role = AllPoll

ThreadsNext ==
  \/ NetNext /\ UNCHANGED kvars
  \/ KniNext /\ UNCHANGED nvars

(* Every thread and lcore keeps running; a request, a packet, an event or  *)
(* a signal need never come.                                               *)
Fairness ==
  /\ \A l \in KLcores : WF_kvars(Step(l))
  /\ WF_kvars(MainWait \/ MainExit \/ SignalExit)

ThreadsSpec == ThreadsInit /\ [][ThreadsNext]_<<nvars, kvars>> /\ Fairness

(* Type invariant. *)
ThreadsTypeOK == NetTypeOK /\ KniTypeOK
=============================================================================
