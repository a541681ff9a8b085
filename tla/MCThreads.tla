----------------------------- MODULE MCThreads ------------------------------
(* Two keys, alike but for their names: one lcore receives two packets of  *)
(* one flow, or two lcores receive one each, of one flow or of two.  Three *)
(* lcores in every assignment of roles; 1 and 2 are alike, so that each    *)
(* assignment stands for the one with their roles exchanged.               *)
EXTENDS Threads

CONSTANTS kA, kB

MCRoles ==
  {r \in [0 .. 2 -> {"kni_rx", "kni_tx", "poll"}] :
     /\ \A x \in {"kni_rx", "kni_tx"} : Cardinality({l \in 0 .. 2 : r[l] = x}) <= 1
     /\ r[2] # "kni_rx" /\ (r[2] = "kni_tx" => r[1] = "kni_rx")}

MCTraffic ==
  { << <<>>, <<>> >>,
    << <<kA, kA>>, <<>> >>, << <<kA>>, <<kA>> >>, << <<kA>>, <<kB>> >> }
=============================================================================
