---------------------------- MODULE MCIpsecCtx ------------------------------
(* Instances of IpsecCtx for TLC: two queue pairs, SAs of several action   *)
(* types, some of them on the same queue pair.                             *)
EXTENDS IpsecCtx, TLC

CONSTANTS pktA, pktB, pktI, pktC, pktN, \* mbufs, by the SA of their packet
          saA, saB, saI, saC            \* SA pointers

MCPkts   == pktA \cup pktB \cup pktI \cup pktC \cup pktN
MCSaPtrs == {saA, saB, saI, saC}

MCSaOf ==
  [p \in MCPkts |-> IF p \in pktA THEN saA ELSE IF p \in pktB THEN saB
                    ELSE IF p \in pktI THEN saI ELSE IF p \in pktC THEN saC ELSE NoSa]

MCSaQp == (saA :> 0) @@ (saB :> 1) @@ (saI :> 0) @@ (saC :> 1)

MCSaType ==
  (saA :> "NONE") @@ (saB :> "LOOKASIDE_PROTOCOL")
  @@ (saI :> "INLINE_PROTOCOL") @@ (saC :> "CPU_CRYPTO")

(* The mbufs that carry packets of the same SA are interchangeable. *)
MCSymmetry ==
  Permutations(pktA) \cup Permutations(pktB) \cup Permutations(pktI)
=============================================================================
