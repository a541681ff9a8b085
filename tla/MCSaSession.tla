---------------------------- MODULE MCSaSession -----------------------------
(* Instances of SaSession: cryptodevs_init for every configuration with a  *)
(* few devices and lcore parameters; the lcores are started in three.      *)
EXTENDS SaSession, SequencesExt

CONSTANTS gcm, cbc, ctr,                \* algorithms
          saG, saC, saO, saP, saQ,      \* SAs
          MaxParams, QpCounts, Reqs

Algorithms == {gcm, cbc, ctr}
MCCtx      == {<<1, "in">>, <<1, "out">>, <<2, "in">>}

MCConfs ==
  [params : SeqOf(MCCtx, MaxParams) \ {<<>>}, caps : [Cdevs -> SUBSET Algos],
   maxqps : [Cdevs -> QpCounts], req : Reqs]

(* A device for CBC and one for GCM; no device has CTR. *)
Conf(params, qps) ==
  [params |-> params, caps |-> (0 :> {cbc}) @@ (1 :> {gcm}) @@ (2 :> {}),
   maxqps |-> (0 :> qps) @@ (1 :> 2) @@ (2 :> 1), req |-> 0]

(* Both sides on lcore 1; the unprotected side on two lcores, with tables  *)
(* that are alike and with tables that differ.                             *)
MCRunConfs ==
  {Conf(<<<<1, "in">>, <<1, "out">>>>, 1),
   Conf(<<<<1, "in">>, <<2, "in">>>>, 2), Conf(<<<<1, "in">>, <<2, "in">>>>, 1)}

(* saO finds no device on lcore 1 in the first.  saP and saQ are processed  *)
(* on the lcore, which device 1 alone can do.                              *)
MCSA     == {saG, saC, saO, saP, saQ}
MCSaDir  == [s \in MCSA |-> IF s = saO THEN "out" ELSE "in"]
MCSaAlgo == [s \in MCSA |-> IF s \in {saG, saP} THEN gcm ELSE cbc]
MCSaType ==
  (saG :> "NONE") @@ (saC :> "LOOKASIDE_PROTOCOL") @@ (saO :> "LOOKASIDE_PROTOCOL")
  @@ (saP :> "CPU_CRYPTO") @@ (saQ :> "CPU_CRYPTO")
=============================================================================
