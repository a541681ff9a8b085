------------------------------ MODULE CdevMap -------------------------------
(***************************************************************************)
(* cryptodevs_init: which queue pair of which crypto device each IPsec     *)
(* context uses.  A context is <<lcore, direction>>, the inbound or        *)
(* outbound struct ipsec_ctx of a polling lcore; an lcore parameter        *)
(* (port, queue, lcore) selects one by the side its port is on.  The       *)
(* algorithms a device supports are a set: a member stands for one         *)
(* AEAD or one pair of a cipher and an authentication algorithm, the key   *)
(* of cdev_map_in / cdev_map_out without the lcore.                        *)
(*                                                                         *)
(* One action is one iteration of the inner or of the outer loop.  Nothing *)
(* runs concurrently at this point.                                        *)
(***************************************************************************)
EXTENDS Integers, Sequences, FiniteSets, FiniteSetsExt

CONSTANTS
  Ctx,              \* contexts
  Algos,            \* algorithms
  NbCdevs,          \* crypto devices that enabled_cryptodev_mask lets through
  Confs,            \* devices and lcore parameters, see ConfOK
  MAX_QP_PER_LCORE, \* size of ipsec_ctx.tbl
  CDEV_MAP_ENTRIES  \* capacity of each hash table

Cdevs == 0 .. NbCdevs - 1

(* params: the context of each lcore parameter; caps: the algorithms of a  *)
(* device, none if it cannot chain operations; maxqps: its queue pairs;    *)
(* req: req_queue_num.                                                     *)
ConfOK(c) ==
  /\ c.params \in Seq(Ctx) /\ c.params # <<>>
  /\ c.caps \in [Cdevs -> SUBSET Algos]
  /\ c.maxqps \in [Cdevs -> Nat \ {0}]
  /\ c.req \in Nat

ASSUME CdevAssumption ==
  /\ Ctx \subseteq Nat \X {"in", "out"}
  /\ NbCdevs \in Nat /\ MAX_QP_PER_LCORE \in Nat \ {0}
  /\ CDEV_MAP_ENTRIES \in Nat
  /\ \A c \in Confs : ConfOK(c)

VARIABLES
  conf,  \* the configuration
  cdev,  \* the device of the outer loop; NbCdevs once the loop is over
  idx,   \* the next lcore parameter, kept from one device to the next
  qp, i, \* queue pairs given out and parameters visited for this device
  tbl,   \* ipsec_ctx.tbl[0 .. nb_qps-1] of each context
  map,   \* cdev_map_in and cdev_map_out: an index of tbl, or NoEnt
  nbqps  \* queue pairs configured on each device

mapvars == <<conf, cdev, idx, qp, i, tbl, map, nbqps>>

NoEnt == -1

Init ==
  /\ conf \in Confs
  /\ cdev = 0 /\ idx = 0 /\ qp = 0 /\ i = 0
  /\ tbl = [c \in Ctx |-> <<>>]
  /\ map = [c \in Ctx |-> [a \in Algos |-> NoEnt]]
  /\ nbqps = [d \in Cdevs |-> 0]
-----------------------------------------------------------------------------
NbParams   == Len(conf.params)
MaxNbQps   == Min({NbParams, conf.maxqps[cdev]})
Param      == conf.params[idx + 1]

Unmapped(c) == {a \in conf.caps[cdev] : map[c][a] = NoEnt}

(* Free entries of the hash table of the direction of c. *)
FreeEntries(c) ==
  CDEV_MAP_ENTRIES
    - Cardinality({x \in Ctx \X Algos : x[1][2] = c[2] /\ map[x[1]][x[2]] # NoEnt})

(* add_mapping: the entry of tbl for the current device, a new one if      *)
(* there is none yet.  Mutant: always the first entry.                     *)
EntryFirst(c) == 0

Entry(c) ==
  IF \E k \in DOMAIN tbl[c] : tbl[c][k].id = cdev
  THEN (CHOOSE k \in DOMAIN tbl[c] : tbl[c][k].id = cdev) - 1
  ELSE Len(tbl[c])

(* Mutant: one entry too many is allowed. *)
TblHasRoomLate(c) == Entry(c) <= MAX_QP_PER_LCORE

TblHasRoom(c) == Entry(c) < MAX_QP_PER_LCORE

(* add_cdev_mapping for one lcore parameter: new are the algorithms that   *)
(* got into the hash table.                                                *)
AddCdevMapping(c, new) ==
  /\ IF Unmapped(c) # {} /\ TblHasRoom(c)
     THEN /\ new \subseteq Unmapped(c)
          /\ Cardinality(new) = Min({Cardinality(Unmapped(c)), FreeEntries(c)})
          /\ tbl' = [tbl EXCEPT ![c] =
                       IF Entry(c) = Len(@) THEN Append(@, [id |-> cdev, qp |-> qp]) ELSE @]
     ELSE new = {} /\ UNCHANGED tbl
  /\ map' = [map EXCEPT ![c] = [a \in Algos |-> IF a \in new THEN Entry(c) ELSE @[a]]]

(* The inner loop.  Mutant: it stops one parameter early. *)
MoreParamsButOne == qp < MaxNbQps /\ i < NbParams - 1

MoreParams == qp < MaxNbQps /\ i < NbParams

(* Mutant: a queue pair is not counted as given out. *)
NextQpSame(new) == qp

NextQp(new) == IF new # {} THEN qp + 1 ELSE qp

MapParam ==
  /\ cdev < NbCdevs /\ MoreParams
  /\ \E new \in SUBSET Algos :
       /\ AddCdevMapping(Param, new)
       /\ qp' = NextQp(new)
  /\ idx' = (idx + 1) % NbParams
  /\ i' = i + 1
  /\ UNCHANGED <<conf, cdev, nbqps>>

(* The rest of the outer loop: the device is configured with the queue     *)
(* pairs that were given out, or those requested for event mode if that is *)
(* more.  Mutant: with the requested ones.                                 *)
ConfiguredQpsReq == Min({MaxNbQps, conf.req})

ConfiguredQps == Min({MaxNbQps, Max({conf.req, qp})})

ConfigureCdev ==
  /\ cdev < NbCdevs /\ ~MoreParams
  /\ nbqps' = [nbqps EXCEPT ![cdev] = ConfiguredQps]
  /\ cdev' = cdev + 1
  /\ qp' = 0 /\ i' = 0
  /\ UNCHANGED <<conf, idx, tbl, map>>

MapNext == MapParam \/ ConfigureCdev

MapSpec == Init /\ [][MapNext]_mapvars
-----------------------------------------------------------------------------
Done == cdev = NbCdevs

(* Type invariant. *)
MapTypeOK ==
  /\ cdev \in 0 .. NbCdevs
  /\ idx \in 0 .. NbParams - 1 /\ i \in 0 .. NbParams /\ qp \in 0 .. i
  /\ \A c \in Ctx : /\ tbl[c] \in Seq([id : Cdevs, qp : Nat])
                    /\ Len(tbl[c]) <= MAX_QP_PER_LCORE
  /\ map \in [Ctx -> [Algos -> Nat \cup {NoEnt}]]
  /\ nbqps \in [Cdevs -> Nat]

Slots == UNION {{<<c, k>> : k \in DOMAIN tbl[c]} : c \in Ctx}

(* No queue pair of a device is given to two contexts, each of which is    *)
(* driven by one lcore without a lock, and the device was configured with  *)
(* every queue pair that was given out before.                             *)
QpExclusive ==
  /\ \A s, t \in Slots : tbl[s[1]][s[2]] = tbl[t[1]][t[2]] => s = t
  /\ \A s \in Slots :
       LET e == tbl[s[1]][s[2]] IN e.id < cdev => e.qp < nbqps[e.id]

(* The hash tables lead every algorithm to an entry of the context's own   *)
(* table, of a device that supports the algorithm.                         *)
MapSound ==
  \A c \in Ctx, a \in Algos :
    map[c][a] # NoEnt =>
      map[c][a] + 1 \in DOMAIN tbl[c] /\ a \in conf.caps[tbl[c][map[c][a] + 1].id]

(* A context is left without a device for an algorithm only if every       *)
(* device that supports it has given out all its queue pairs, or its own   *)
(* table is full.                                                          *)
MapComplete ==
  Done =>
    \A n \in DOMAIN conf.params, a \in Algos, d \in Cdevs :
      LET c == conf.params[n] IN
      a \in conf.caps[d] /\ map[c][a] = NoEnt =>
        \/ Len(tbl[c]) = MAX_QP_PER_LCORE
        \/ Cardinality({s \in Slots : tbl[s[1]][s[2]].id = d})
             = Min({NbParams, conf.maxqps[d]})
=============================================================================
