--------------------------- MODULE MCEventWorker ----------------------------
(* Instances of EventWorker: every machine with up to four lcores and two  *)
(* ports for the configuration; those whose devices the lcores depend on   *)
(* are run; traffic in both IPsec modes on two of them.                    *)
EXTENDS EventWorker

CONSTANTS m1, m2

LcoreSets == {S \in SUBSET (0 .. 3) : S # {}}

MCEnvs ==
  {e \in [lcores : LcoreSets, main : 0 .. 1, kni : {{}}, eth : 1 .. 2,
          enabled : {{0}, {1}, {0, 1}}, rxInt : SUBSET {0, 1}, txInt : SUBSET {0, 1},
          maxQ : 1 .. 3, maxP : {1, 2, 4}, burst : {FALSE}, mode : {"app"},
          lookaside : {FALSE}, config : {FALSE}] : EnvOK(e)}

Machine(L, kni, rxInt, txInt, maxP) ==
  [lcores |-> L, main |-> 0, kni |-> kni, eth |-> 2, enabled |-> {0, 1}, rxInt |-> rxInt,
   txInt |-> txInt, maxQ |-> 3, maxP |-> maxP, burst |-> FALSE, mode |-> "app",
   lookaside |-> FALSE, config |-> FALSE]

MCRunEnvs ==
  {Machine(L, kni, rxInt, txInt, maxP) :
     L \in {{0, 1}, {0, 1, 2}, {0, 1, 2, 3}}, kni \in {{}, {2, 3}},
     rxInt \in {{}, {0, 1}}, txInt \in {{}, {0, 1}}, maxP \in {2, 4}}

App ==
  [Machine({0, 1}, {}, {1}, {0, 1, 2}, 2) EXCEPT !.eth = 3, !.enabled = {0, 1, 2}]

MCTrafficEnvs == {App, [App EXCEPT !.mode = "driver"]}

MCSpiIn  == [s \in 0 .. 1 |-> 10 + s]
MCSaPort == [s \in 0 .. 1 |-> 1 - s]
MCSpOn   == {<<"in", "v4">>, <<"out", "v4">>}

(* Port 1 is unprotected, ports 0 and 2 are protected. *)
In(kind, off, sa, rule) == [port |-> 1, kind |-> kind, off |-> off, nicSa |-> sa, rule |-> rule]
Out(kind, rule) == [port |-> 0, kind |-> kind, off |-> "no", nicSa |-> 0, rule |-> rule]

MCWire ==
  {In("v4", "ok", 0, 1), In("v4", "ok", 1, 1), In("v4", "no", 0, 1), In("v4", "failed", 0, 1),
   In("v4", "no", 0, DISCARD), In("v4", "no", 0, BYPASS), In("esp", "no", 0, 1),
   Out("v4", 1), Out("v4", 2), Out("v4", BYPASS), Out("v4", DISCARD), Out("v6", 1),
   [Out("v4", 1) EXCEPT !.port = 2]}

MCRoute == [p \in MCWire |-> IF p.kind = "v6" THEN NoRoute ELSE IF p.port = 1 THEN 0 ELSE 1]

Refused == {[App EXCEPT !.lookaside = TRUE], [App EXCEPT !.config = TRUE],
            [App EXCEPT !.burst = TRUE]}
AllEnvs == Refused \cup MCEnvs \cup MCRunEnvs \cup MCTrafficEnvs
AllRun  == {[App EXCEPT !.burst = TRUE]} \cup MCRunEnvs \cup MCTrafficEnvs
=============================================================================
