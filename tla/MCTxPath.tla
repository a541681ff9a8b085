------------------------------ MODULE MCTxPath ------------------------------
(* Instances of TxPath: two ports, whole and oversize packets, offloaded   *)
(* packets, packets without a route.                                       *)
EXTENDS TxPath, TLC

CONSTANTS whole,  \* mbufs of packets that fit, to portA
          big,    \* of packets that need three fragments, to portA
          huge,   \* of packets that need a whole buffer of fragments, to portA
          offl,   \* of offloaded packets that fit, to portB
          lost,   \* of packets without a route
          portA, portB

MCPkts    == whole \cup big \cup huge \cup offl \cup lost
MCPorts   == {portA, portB}
MCNbFrags == [p \in MCPkts |-> IF p \in big THEN 3 ELSE IF p \in huge THEN MAX_PKT_BURST ELSE 1]
MCLpmHop  == [p \in MCPkts |-> IF p \in lost THEN NoHop ELSE portA]
MCSaPort  == [p \in MCPkts |-> IF p \in offl THEN portB ELSE NoHop]

MCSymmetry == Permutations(whole)
=============================================================================
