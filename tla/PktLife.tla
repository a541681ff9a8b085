------------------------------ MODULE PktLife -------------------------------
(***************************************************************************)
(* What the IPsec part of the gateway promises about each mbuf, with no    *)
(* queue, buffer or loop in it: a free mbuf is filled by the NIC, the      *)
(* packet is either freed or handed to routing, a packet whose SA needs a  *)
(* crypto device reaches routing only through the device, a packet without *)
(* SA never reaches routing, and a packet in routing comes back only as a  *)
(* free mbuf.                                                              *)
(***************************************************************************)
CONSTANTS
  Pkts,      \* the mbufs
  Lookaside, \* those carrying a packet of a lookaside SA
  NoSaPkts   \* those carrying a packet without SA

VARIABLE where

Place == {"pool", "rx", "crypto", "out"}

(* The moves that one mbuf may make. *)
Move(p) ==
  {<<"pool", "rx">>, <<"rx", "pool">>, <<"out", "pool">>}
  \cup (IF p \in Lookaside
        THEN {<<"rx", "crypto">>, <<"crypto", "out">>, <<"crypto", "pool">>}
        ELSE {})
  \cup (IF p \in Lookaside \cup NoSaPkts THEN {} ELSE {<<"rx", "out">>})

Init == where = [p \in Pkts |-> "pool"]

(* One step of the program may move several packets. *)
Next ==
  /\ where' \in [Pkts -> Place]
  /\ \A p \in Pkts : where'[p] # where[p] => <<where[p], where'[p]>> \in Move(p)

Spec == Init /\ [][Next]_where
=============================================================================
