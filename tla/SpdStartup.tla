----------------------------- MODULE SpdStartup -----------------------------
(***************************************************************************)
(* How the configuration becomes the per-socket databases: parse_cfg_file  *)
(* leaves arrays of SAs and of IPv4/IPv6 policy rules and sorts them by    *)
(* SPI; main then calls sa_init, sp4_init and sp6_init for every socket.   *)
(* sa_init copies the SAs, fills the SAD and, in library mode, initialises *)
(* the rte_ipsec SAs; sp4_init and sp6_init resolve the SPI of every       *)
(* protect rule to the index of its SA and build the ACL.                  *)
(*                                                                         *)
(* An SA is [key: its SPI, mode, ok]; ok is FALSE for an SA that cannot be *)
(* added on this machine: its port cannot do what it asks for, its inline  *)
(* session cannot be created.  A rule is [key: its userdata, spi]:         *)
(* userdata holds the SPI until check_spi_value replaces it by an index;   *)
(* spi remembers what the configuration said and is read by no action.     *)
(***************************************************************************)
EXTENDS Integers, Sequences, FiniteSets

CONSTANTS
  HALF,       \* half the number of SPIs, 2^31
  NbSockets,  \* sockets with an mbuf pool
  SaTables,   \* arrays of SAs and of rules that are parsed
  RuleTables,
  Configs,    \* the parsed configurations
  QSort(_)    \* qsort of the C library, see SortAssumption

Fam     == {"ip4", "ip6"}
Dir     == {"in", "out"}
Sockets == 1 .. NbSockets
Spi     == 0 .. 2 * HALF - 1
DISCARD == 0
BYPASS  == 2 * HALF - 1
Mode    == {"ip4-tunnel", "ip6-tunnel", "transport"}
Sas     == [key : Spi, mode : Mode, ok : BOOLEAN]
Rules   == [key : Spi, spi : Spi]

(* An index of an SA plus one is a word. *)
ASSUME SpdAssumption ==
  /\ HALF \in Nat \ {0, 1} /\ NbSockets \in Nat \ {0}
  /\ \A s \in SaTables : s \in Seq(Sas) /\ Len(s) < 2 * HALF
  /\ \A s \in RuleTables : s \in Seq(Rules) /\ \A i \in DOMAIN s : s[i].key = s[i].spi
  /\ Configs \subseteq [sa : [Dir -> SaTables], sp : [Fam -> [Dir -> RuleTables]],
                        enable : BOOLEAN]

VARIABLES
  pc,     \* "parsed", "sa_init", "sp4_init", "sp6_init", "run" or "exit"
  sock,   \* the socket main is initialising
  enable, \* app_sa_prm.enable, from the command line: library mode
  sa,     \* sa_in and sa_out
  sp,     \* acl4_rules_in, acl4_rules_out, acl6_rules_in, acl6_rules_out
  sa_ctx, \* socket_ctx.sa_in->sa, socket_ctx.sa_out->sa
  sad,    \* socket_ctx.sa_in->sad: indices of the SAs in sad_v4 and sad_v6
  sp_ctx  \* the rules of the ACLs built for each socket

vars == <<pc, sock, enable, sa, sp, sa_ctx, sad, sp_ctx>>

NoSa == [key |-> 0, mode |-> "transport", ok |-> TRUE]  \* an entry of zeroed memory

Init ==
  /\ pc = "parsed"
  /\ sock = 1
  /\ \E c \in Configs : sa = c.sa /\ sp = c.sp /\ enable = c.enable
  /\ sa_ctx = [s \in Sockets |-> [d \in Dir |-> <<>>]]
  /\ sad = [s \in Sockets |-> [f \in Fam |-> {}]]
  /\ sp_ctx = [s \in Sockets |-> [f \in Fam |-> [d \in Dir |-> <<>>]]]
-----------------------------------------------------------------------------
(* sa_cmp and sp_cmp: (int)(spi1 - spi2) on unsigned words. *)
Cmp(a, b) ==
  LET diff == (a - b) % (2 * HALF)
  IN  IF diff < HALF THEN diff ELSE diff - 2 * HALF

(* The C standard: qsort gives a permutation, sorted provided that the     *)
(* comparison function orders the elements consistently.                   *)
Count(s, x) == Cardinality({i \in DOMAIN s : s[i] = x})
Elements(s) == {s[i] : i \in DOMAIN s}

Permutes(t, s) ==
  t \in [DOMAIN s -> Elements(s)] /\ \A x \in Elements(s) : Count(t, x) = Count(s, x)

Ordered(s) == \A i, j \in DOMAIN s : i < j => Cmp(s[i].key, s[j].key) <= 0

Consistent(s) ==
  \A x, y, z \in {s[i].key : i \in DOMAIN s} :
    /\ Cmp(x, y) > 0 <=> Cmp(y, x) < 0
    /\ Cmp(x, y) <= 0 /\ Cmp(y, z) <= 0 => Cmp(x, z) <= 0

ASSUME SortAssumption ==
  \A s \in SaTables \cup RuleTables :
    Permutes(QSort(s), s) /\ (Consistent(s) => Ordered(QSort(s)))

(* bsearch of the C library: an index from 0 on, or -1.  The interval      *)
(* <<l, u>> is s[l .. u-1].                                                *)
Intervals(s) == (0 .. Len(s)) \X (0 .. Len(s))

Probe(x) == (x[1] + x[2]) \div 2

BSearchIn(s, key) ==
  LET find[x \in Intervals(s)] ==
        LET i == Probe(x)
            c == Cmp(key, s[i + 1].key)
        IN  IF x[1] >= x[2] THEN -1
            ELSE IF c = 0 THEN i
            ELSE find[IF c < 0 THEN <<x[1], i>> ELSE <<i + 1, x[2]>>]
  IN  find

BSearch(s, key) == BSearchIn(s, key)[<<0, Len(s)>>]

(* sa_spi_present on a socket's table; sp4_spi_present, sp6_spi_present.   *)
SaSpiPresent(s, spi, d) == BSearch(sa_ctx[s][d], spi)
SpSpiPresent(f, spi, d) == BSearch(sp[f][d], spi)
-----------------------------------------------------------------------------
(* The end of parse_cfg_file.  Mutant: only the inbound SAs are sorted.    *)
SaSortArrInOnly == [sa EXCEPT !["in"] = QSort(@)]

SaSortArr == [d \in Dir |-> QSort(sa[d])]
SpSortArr == [f \in Fam |-> [d \in Dir |-> QSort(sp[f][d])]]

SortArrays ==
  /\ pc = "parsed"
  /\ sa' = SaSortArr
  /\ sp' = SpSortArr
  /\ pc' = "sa_init"
  /\ UNCHANGED <<sock, enable, sa_ctx, sad, sp_ctx>>

(* ipsec_sad_add: the SADs an inbound SA goes into; a transport mode SA    *)
(* goes where a policy rule refers to it.  Mutant: at most into one.       *)
SadFamsOne(a) ==
  CASE a.mode = "ip4-tunnel" -> {"ip4"}
    [] a.mode = "ip6-tunnel" -> {"ip6"}
    [] OTHER -> IF SpSpiPresent("ip4", a.key, "in") >= 0 THEN {"ip4"} ELSE {}

SadFams(a) ==
  CASE a.mode = "ip4-tunnel" -> {"ip4"}
    [] a.mode = "ip6-tunnel" -> {"ip6"}
    [] OTHER -> {f \in Fam : SpSpiPresent(f, a.key, "in") >= 0}

(* -EEXIST: an earlier SA with this SPI is in the SAD already. *)
Exists(i, f) ==
  \E j \in 1 .. i - 1 : sa["in"][j].key = sa["in"][i].key /\ f \in SadFams(sa["in"][j])

Clashes(i) == \E f \in SadFams(sa["in"][i]) : Exists(i, f)

Fails(i, d) == ~sa[d][i].ok \/ (d = "in" /\ Clashes(i))

(* sa_add_rules stops at the first SA it cannot add, and sa_init does not  *)
(* look at the result: how many SAs were added.                            *)
Added(d) ==
  CHOOSE n \in 0 .. Len(sa[d]) :
    /\ \A i \in 1 .. n : ~Fails(i, d)
    /\ n < Len(sa[d]) => Fails(n + 1, d)

(* The SA at which it stopped was copied already, and may be in the SAD.   *)
CopiedSas(d) ==
  [i \in 1 .. Len(sa[d]) |-> IF i <= Added(d) + 1 THEN sa[d][i] ELSE NoSa]

SadAfter ==
  [f \in Fam |->
     {i \in 1 .. Len(sa["in"]) :
        /\ i <= Added("in") + 1
        /\ f \in SadFams(sa["in"][i])
        /\ ~Exists(i, f)
        /\ f = "ip6" => ~("ip4" \in SadFams(sa["in"][i]) /\ Exists(i, "ip4"))}]

(* get_spi_proto: the SPI must be used by rules of exactly one family. *)
GetSpiProto(spi, d) == Cardinality({f \in Fam : SpSpiPresent(f, spi, d) >= 0}) = 1

(* ipsec_satbl_init: fails at an SA that no policy or both families use,   *)
(* and at an SA that was never added.                                      *)
SatblInit(d) ==
  \A i \in 1 .. Len(sa[d]) : i <= Added(d) + 1 /\ GetSpiProto(sa[d][i].key, d)

(* ipsec_sad_create: every inbound SA asks for a SAD of its family, and    *)
(* the names of the SADs are the same for each socket, so that they can be *)
(* created once (-EEXIST).                                                 *)
SadCreate == sock > 1 => sa["in"] = <<>>

SaInit ==
  /\ pc = "sa_init"
  /\ IF SadCreate
     THEN /\ sa_ctx' = [sa_ctx EXCEPT ![sock] = [d \in Dir |-> CopiedSas(d)]]
          /\ sad' = [sad EXCEPT ![sock] = SadAfter]
          /\ pc' = IF enable => \A d \in Dir : SatblInit(d) THEN "sp4_init" ELSE "exit"
     ELSE pc' = "exit" /\ UNCHANGED <<sa_ctx, sad>>
  /\ UNCHANGED <<sock, enable, sa, sp, sp_ctx>>
-----------------------------------------------------------------------------
(* check_spi_value: in every protect rule the SPI is replaced by the index *)
(* of its SA plus one.  Mutants: the index alone; one less.                *)
UserDataIdx(idx) == idx
UserDataLess(idx) == idx - 1

UserData(idx) == idx + 1

Protects(r) == r.key \notin {DISCARD, BYPASS}

CheckSpiValue(f, d) ==
  \A r \in {sp[f][d][i] : i \in DOMAIN sp[f][d]} :
    Protects(r) => SaSpiPresent(sock, r.key, d) >= 0

Resolved(f, d) ==
  [i \in DOMAIN sp[f][d] |->
     IF Protects(sp[f][d][i])
     THEN [sp[f][d][i] EXCEPT !.key = UserData(SaSpiPresent(sock, @, d))]
     ELSE sp[f][d][i]]

(* sp4_init and sp6_init; the ACL takes a copy of the rules. *)
SpInit(f) ==
  \/ /\ \E d \in Dir : ~CheckSpiValue(f, d)
     /\ pc' = "exit"
     /\ UNCHANGED <<sock, sp, sp_ctx>>
  \/ /\ \A d \in Dir : CheckSpiValue(f, d)
     /\ sp' = [sp EXCEPT ![f] = [d \in Dir |-> Resolved(f, d)]]
     /\ sp_ctx' = [sp_ctx EXCEPT ![sock][f] = [d \in Dir |-> Resolved(f, d)]]
     /\ IF f = "ip4" THEN pc' = "sp6_init" /\ UNCHANGED sock
        ELSE IF sock < NbSockets THEN pc' = "sa_init" /\ sock' = sock + 1
        ELSE pc' = "run" /\ UNCHANGED sock

Sp4Init == pc = "sp4_init" /\ SpInit("ip4") /\ UNCHANGED <<enable, sa, sa_ctx, sad>>
Sp6Init == pc = "sp6_init" /\ SpInit("ip6") /\ UNCHANGED <<enable, sa, sa_ctx, sad>>

Next == SortArrays \/ SaInit \/ Sp4Init \/ Sp6Init

Spec == Init /\ [][Next]_vars
-----------------------------------------------------------------------------
(* Type invariant: SPIs and userdata are words, the SAD holds indices of   *)
(* the socket's own table.                                                 *)
TypeOK ==
  /\ pc \in {"parsed", "sa_init", "sp4_init", "sp6_init", "run", "exit"}
  /\ sock \in Sockets /\ enable \in BOOLEAN
  /\ \A d \in Dir : \A i \in DOMAIN sa[d] : sa[d][i] \in Sas
  /\ \A f \in Fam, d \in Dir : \A i \in DOMAIN sp[f][d] : sp[f][d][i] \in Rules
  /\ \A s \in Sockets, d \in Dir : \A i \in DOMAIN sa_ctx[s][d] : sa_ctx[s][d][i] \in Sas
  /\ \A s \in Sockets, f \in Fam : sad[s][f] \subseteq DOMAIN sa_ctx[s]["in"]

(* Every ACL that was built resolves each protect rule to an SA of its own *)
(* socket and direction that has the SPI the configuration gave the rule,  *)
(* and leaves bypass and discard rules alone, also when some SAs could not *)
(* be added.  The index comes from a binary search of a copy of an array   *)
(* sorted by another file's comparator.                                    *)
PolicySelectsItsSa ==
  \A s \in Sockets, f \in Fam, d \in Dir : \A i \in DOMAIN sp_ctx[s][f][d] :
    LET r == sp_ctx[s][f][d][i] IN
    IF r.spi \in {DISCARD, BYPASS} THEN r.key = r.spi
    ELSE r.key \in DOMAIN sa_ctx[s][d] /\ sa_ctx[s][d][r.key].key = r.spi

(* Nothing keeps sa_add_rules from adding every SA. *)
AllAddable ==
  /\ \A d \in Dir : \A i \in DOMAIN sa[d] : sa[d][i].ok
  /\ \A i, j \in DOMAIN sa["in"] : sa["in"][i].key = sa["in"][j].key => i = j

(* "Walk through all SA rules to find an SA with given SPI": once a table  *)
(* is filled, sa_spi_present finds an SA for the SPI of each of its SAs.   *)
SpiPresentFinds ==
  pc \notin {"sa_init", "exit"} /\ AllAddable =>
    \A d \in Dir : \A i \in DOMAIN sa_ctx[sock][d] :
      LET idx == SaSpiPresent(sock, sa_ctx[sock][d][i].key, d)
      IN  idx >= 0 /\ sa_ctx[sock][d][idx + 1].key = sa_ctx[sock][d][i].key

RuleSpis(f, d) == {sp[f][d][i].spi : i \in DOMAIN sp[f][d]}
SaSpis(d)      == {sa[d][i].key : i \in DOMAIN sa[d]}

(* On its first socket the application gives up only for a reason in the   *)
(* configuration: a protect rule whose SPI no SA of its direction has, an  *)
(* SA that cannot be added or, in library mode, one that no rule, or rules *)
(* of both families, use.                                                  *)
ExitsForCause ==
  pc = "exit" /\ sock = 1 =>
    \/ ~AllAddable
    \/ \E f \in Fam, d \in Dir : ~(RuleSpis(f, d) \subseteq SaSpis(d) \cup {DISCARD, BYPASS})
    \/ /\ enable
       /\ \E d \in Dir : \E spi \in SaSpis(d) :
            spi \in RuleSpis("ip4", d) <=> spi \in RuleSpis("ip6", d)

(* When every SA could be added, the SAD of each socket holds exactly the  *)
(* inbound SAs that packets of that family can name: the tunnel SAs of the *)
(* family and the transport SAs that its policy refers to.                 *)
SadMatchesPolicy ==
  pc = "run" /\ AllAddable =>
    \A s \in Sockets, f \in Fam :
      {sa_ctx[s]["in"][i].key : i \in sad[s][f]} =
        {sa["in"][i].key : i \in {j \in DOMAIN sa["in"] :
            \/ sa["in"][j].mode = IF f = "ip4" THEN "ip4-tunnel" ELSE "ip6-tunnel"
            \/ /\ sa["in"][j].mode = "transport"
               /\ sa["in"][j].key \in RuleSpis(f, "in")}}

(* "Replicate each context per socket": when the application runs, the    *)
(* SADs and the ACLs of all sockets are the same.                          *)
SocketsAgree ==
  pc = "run" =>
    \A s, t \in Sockets :
      sa_ctx[s] = sa_ctx[t] /\ sad[s] = sad[t] /\ sp_ctx[s] = sp_ctx[t]
=============================================================================
