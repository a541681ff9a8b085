---------------------------- MODULE MCSpdStartup ----------------------------
(* Small configurations for SpdStartup.  The outbound side mirrors the     *)
(* inbound one (SAs in reverse order, the two families exchanged), so that *)
(* both directions vary without multiplying the initial states.            *)
EXTENDS SpdStartup, SequencesExt

CONSTANTS SpiValues,   \* SPIs of the SAs and of the protect rules
          MaxSa,       \* longest SA array
          MaxFailing,  \* longest SA array with an SA that cannot be added
          MaxR4, MaxR6,\* longest rule arrays
          Modes,       \* modes of the SAs
          Enable       \* legacy mode, library mode or both

(* qsort of glibc: a merge sort. *)
RECURSIVE Merge(_, _)
Merge(a, b) ==
  IF a = <<>> THEN b
  ELSE IF b = <<>> THEN a
  ELSE IF Cmp(Head(a).key, Head(b).key) <= 0
       THEN <<Head(a)>> \o Merge(Tail(a), b)
       ELSE <<Head(b)>> \o Merge(a, Tail(b))

RECURSIVE MergeSort(_)
MergeSort(s) ==
  IF Len(s) <= 1 THEN s
  ELSE LET n == Len(s) \div 2
       IN  Merge(MergeSort(SubSeq(s, 1, n)), MergeSort(SubSeq(s, n + 1, Len(s))))

Addable(s) ==
  /\ \A i \in DOMAIN s : s[i].ok
  /\ \A i, j \in DOMAIN s : s[i].key = s[j].key => i = j

SaArrays ==
  {s \in SeqOf([key : SpiValues, mode : Modes, ok : BOOLEAN], MaxSa) :
     Len(s) <= MaxFailing \/ Addable(s)}

RuleArrays(n) ==
  {[i \in DOMAIN s |-> [key |-> s[i], spi |-> s[i]]] :
     s \in SeqOf(SpiValues \cup {DISCARD, BYPASS}, n)}

MCRuleTables == RuleArrays(MaxR4) \cup RuleArrays(MaxR6)

(* Pairs of rules go with at most two SAs that can all be added. *)
MCConfigs ==
  {[sa |-> [d \in Dir |-> IF d = "in" THEN x[1] ELSE Reverse(x[1])],
    sp |-> [f \in Fam |-> [d \in Dir |-> IF (f = "ip4") = (d = "in") THEN x[2] ELSE r6]],
    enable |-> m] :
     x \in {y \in SaArrays \X RuleArrays(MaxR4) : Len(y[2]) < 2 \/ (Len(y[1]) < 3 /\ Addable(y[1]))},
     r6 \in RuleArrays(MaxR6), m \in Enable}

(* A gateway that only encrypts. *)
OutboundOnly(c) ==
  [c EXCEPT !.sa["in"] = <<>>, !.sp["ip4"]["in"] = <<>>, !.sp["ip6"]["in"] = <<>>]

MCSocketConfigs == MCConfigs \cup {OutboundOnly(c) : c \in MCConfigs}
=============================================================================
