------------------------------ MODULE PktLists ------------------------------
(***************************************************************************)
(* The packet lists of struct ipsec_traffic: arrays of mbufs, one for each *)
(* family, which the stages of the forwarding paths compact, split and     *)
(* append to.                                                              *)
(***************************************************************************)
EXTENDS Integers, Sequences, FiniteSets

Fam == {"v4", "v6"}

NoPkts == [v \in Fam |-> <<>>]
Ran(s) == {s[k] : k \in DOMAIN s}
Once(s) == \A j, k \in DOMAIN s : s[j] = s[k] => j = k

(* The sequences of the members of a set, each once. *)
Orders(S) == {s \in [1 .. Cardinality(S) -> S] : Ran(s) = S /\ Once(s)}

(* s keeps the order of t. *)
InOrder(s, t) ==
  \A j, k \in DOMAIN s : j < k =>
    \E x, y \in DOMAIN t : x < y /\ t[x] = s[j] /\ t[y] = s[k]

(* The one sequence that is left of t, whose members differ, when those    *)
(* that are not in S are taken out.                                        *)
Kept(t, S) == {s \in Orders(Ran(t) \cap S) : InOrder(s, t)}
=============================================================================
