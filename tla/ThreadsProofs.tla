---------------------------- MODULE ThreadsProofs ---------------------------
(***************************************************************************)
(* Proofs about Threads.                                                   *)
(*                                                                         *)
(* The flow table: NetTyped; TableInv, the table, the rows, the lcores     *)
(* that fill one and the flush thread agree, as long as no index was       *)
(* handed out early and no row was flushed while it was filled; TimeInv,   *)
(* what the rows and the flush thread know of the last packet.             *)
(*                                                                         *)
(* The control of the lcores: KniInv, in which one lcore at most answers   *)
(* the kernel, and the pause is that lcore's.                              *)
(***************************************************************************)
EXTENDS Threads, FiniteSetTheorems, SequenceTheorems, TLAPS

IdxN     == Idx \cup {None}
NodesN   == Nodes \cup {0}

(* Rows, and the variables of each thread. *)
Rows == [key : Keys \cup {NoKey}, status : {0, 1}, last : Nat, flow : Nat, seen : Nat]

DpiVars ==
  [at : {"idle", "lookup", "hit", "add", "fill", "status", "stamp", "push", "head", "walk", "link"},
   key : Keys \cup {NoKey}, idx : IdxN, time : Nat, node : NodesN, cur : NodesN]

FlushVars == [at : {"idle", "scan", "age", "look", "del", "clear"}, curr : Nat, n : Idx, idx : IdxN]

LogVars == [at : {"idle", "next", "take", "insert"}, node : NodesN, idx : IdxN, nxt : NodesN]

Causes == {"reused", "undone", "refresh", "back", "fill", "clock", "early", "late", "list", "freed"}

(* The nodes that have been filled, and the null pointer. *)
Made  == {x \in Nodes : dat[x] \in Idx}
MadeN == Made \cup {0}

(* What an lcore has, by its place. *)
DpiOk(l) ==
  /\ dpi[l].at # "idle" => dpi[l].key \in Keys
  /\ dpi[l].at \notin {"idle", "lookup", "add"} => dpi[l].idx \in Idx
  /\ dpi[l].at \in {"status", "stamp", "push"} => dpi[l].node \in Nodes /\ dpi[l].node <= flows
  /\ dpi[l].at \in {"head", "walk", "link"} => dpi[l].node \in Made
  /\ dpi[l].at \in {"walk", "link"} => dpi[l].cur \in Nodes

FlushOk ==
  /\ flush.curr <= now
  /\ flush.at \in {"del", "clear"} => flush.idx \in Idx

LoggerOk == logger.at # "idle" => logger.node \in Nodes /\ logger.idx \in Idx /\ logger.nxt \in MadeN

NetTyped ==
  /\ now \in 0 .. MaxTime /\ flows \in 0 .. MaxFlowPkts
  /\ pkts \in [RxLcores -> Seq(Keys)]
  /\ tab \in [Keys -> IdxN]
  /\ ent \in [Idx -> Rows] /\ \A i \in Idx : ent[i].flow <= flows
  /\ dpi \in [RxLcores -> DpiVars] /\ \A l \in RxLcores : DpiOk(l)
  /\ flush \in FlushVars /\ FlushOk
  /\ logger \in LogVars /\ LoggerOk
  /\ dat \in [Nodes -> IdxN] /\ head \in MadeN /\ nxt \in [Nodes -> MadeN]
  /\ freed \subseteq Nodes /\ lost \subseteq 0 .. flows /\ cause \subseteq Causes

LEMMA NetConstants ==
  /\ NoKey \notin Keys /\ Entries \in Nat \ {0} /\ TIMEOUT \in Nat
  /\ MaxFlowPkts \in Nat /\ MaxTime \in Nat /\ 0 \in Idx /\ None \in IdxN
  /\ None \notin Idx /\ Idx = 0 .. Entries - 1 /\ Idx \subseteq IdxN
  /\ Nodes = 1 .. MaxFlowPkts
  BY NetAssumption DEF Idx, None, IdxN, Nodes

LEMMA InitNetTyped == NetInit => NetTyped
<1> SUFFICES ASSUME NetInit PROVE NetTyped
  OBVIOUS
<1>1. Cleared \in Rows /\ Idle \in DpiVars /\ Sleeping \in FlushVars /\ Waiting \in LogVars
  BY NetConstants DEF Cleared, Idle, Sleeping, Waiting, Rows, DpiVars, FlushVars, LogVars, NodesN
<1>2. pkts \in [RxLcores -> Seq(Keys)]
  BY NetAssumption DEF NetInit
<1>3. /\ now = 0 /\ flows = 0 /\ head = 0 /\ freed = {} /\ lost = {} /\ cause = {}
      /\ tab = [k \in Keys |-> None] /\ ent = [i \in Idx |-> Cleared]
      /\ dpi = [l \in RxLcores |-> Idle] /\ flush = Sleeping /\ logger = Waiting
      /\ dat = [x \in Nodes |-> None] /\ nxt = [x \in Nodes |-> 0]
  BY DEF NetInit
<1>4. ent \in [Idx -> Rows] /\ \A i \in Idx : ent[i].flow <= flows
  BY <1>1, <1>3 DEF Cleared
<1>5. dpi \in [RxLcores -> DpiVars] /\ \A l \in RxLcores : DpiOk(l)
  BY <1>1, <1>3 DEF Idle, DpiOk
<1>6. flush \in FlushVars /\ FlushOk /\ logger \in LogVars /\ LoggerOk
  BY <1>1, <1>3 DEF Sleeping, Waiting, FlushOk, LoggerOk
<1>7. dat \in [Nodes -> IdxN] /\ head \in MadeN /\ nxt \in [Nodes -> MadeN]
  BY <1>3, NetConstants DEF MadeN
<1>8. tab \in [Keys -> IdxN] /\ now \in 0 .. MaxTime /\ flows \in 0 .. MaxFlowPkts
  BY <1>3, NetConstants
<1> QED
  BY <1>2, <1>3, <1>4, <1>5, <1>6, <1>7, <1>8 DEF NetTyped
-----------------------------------------------------------------------------
(* The steps of an lcore, as what they leave in its variables. *)
Moved(l, a) ==
  /\ dpi' \in [RxLcores -> DpiVars] /\ dpi'[l].at = a
  /\ \A m \in RxLcores : m # l => dpi'[m] = dpi[m]

SameKey(l) == dpi'[l].key = dpi[l].key /\ dpi'[l].time = dpi[l].time

LEMMA TabIdx == ASSUME NetTyped, NEW k \in Keys PROVE tab[k] \in IdxN /\ (tab[k] # None => tab[k] \in Idx)
  BY DEF NetTyped, IdxN

LEMMA DpiMoves ==
  ASSUME NetTyped, NEW l \in RxLcores
  PROVE  /\ Dpi(l) => Moved(l, "lookup") /\ dpi'[l].key \in Keys
         /\ DpiLookup(l) => /\ SameKey(l) /\ dpi'[l].idx = tab[dpi[l].key]
                            /\ IF tab[dpi[l].key] = None THEN Moved(l, "add") ELSE Moved(l, "hit")
         /\ dpi' = [dpi EXCEPT ![l] = Idle] => Moved(l, "idle")
         /\ \A i \in Idx : dpi' = [dpi EXCEPT ![l].at = "fill", ![l].idx = i] =>
              Moved(l, "fill") /\ SameKey(l) /\ dpi'[l].idx = i
         /\ DpiFill(l) => /\ Moved(l, "status") /\ SameKey(l) /\ dpi'[l].idx = dpi[l].idx
                          /\ dpi'[l].node = flows + 1
         /\ DpiStatus(l) => /\ Moved(l, "stamp") /\ SameKey(l) /\ dpi'[l].idx = dpi[l].idx
                            /\ dpi'[l].node = dpi[l].node
         /\ DpiStamp(l) => /\ Moved(l, "push") /\ SameKey(l) /\ dpi'[l].idx = dpi[l].idx
                           /\ dpi'[l].node = dpi[l].node
         /\ Push(l) => /\ SameKey(l) /\ dpi'[l].idx = dpi[l].idx /\ dpi'[l].node = dpi[l].node
                       /\ dpi'[l].cur = head
                       /\ IF head = 0 THEN Moved(l, "head") ELSE Moved(l, "walk")
         /\ PushWalk(l) => /\ SameKey(l) /\ dpi'[l].idx = dpi[l].idx /\ dpi'[l].node = dpi[l].node
                           /\ dpi'[l].cur \in Nodes /\ (Moved(l, "walk") \/ Moved(l, "link"))
<1>0. /\ dpi \in [RxLcores -> DpiVars] /\ dpi[l] \in DpiVars /\ DpiOk(l) /\ now \in Nat
      /\ flows \in Nat /\ head \in NodesN
  BY NetConstants DEF NetTyped, MadeN, Made, NodesN
<1>1. ASSUME Dpi(l) PROVE Moved(l, "lookup") /\ dpi'[l].key \in Keys
  <2>1. Head(pkts[l]) \in Keys
    BY <1>1 DEF NetTyped, Dpi
  <2> QED
    BY <1>0, <1>1, <2>1 DEF Dpi, Moved, DpiVars
<1>2. ASSUME DpiLookup(l)
      PROVE  /\ SameKey(l) /\ dpi'[l].idx = tab[dpi[l].key]
             /\ IF tab[dpi[l].key] = None THEN Moved(l, "add") ELSE Moved(l, "hit")
  <2>1. tab[dpi[l].key] \in IdxN
    BY <1>0, <1>2, TabIdx DEF DpiLookup, DpiOk
  <2> QED
    BY <1>0, <1>2, <2>1 DEF DpiLookup, Moved, SameKey, DpiVars
<1>3. ASSUME dpi' = [dpi EXCEPT ![l] = Idle] PROVE Moved(l, "idle")
  BY <1>0, <1>3, NetConstants DEF Idle, Moved, DpiVars, NodesN
<1>4. ASSUME NEW i \in Idx, dpi' = [dpi EXCEPT ![l].at = "fill", ![l].idx = i]
      PROVE  Moved(l, "fill") /\ SameKey(l) /\ dpi'[l].idx = i
  BY <1>0, <1>4, NetConstants DEF Moved, SameKey, DpiVars
<1>5. ASSUME DpiFill(l)
      PROVE  Moved(l, "status") /\ SameKey(l) /\ dpi'[l].idx = dpi[l].idx /\ dpi'[l].node = flows + 1
  <2>1. flows + 1 \in NodesN
    BY <1>0, <1>5, NetConstants DEF DpiFill, NodesN
  <2> QED
    BY <1>0, <1>5, <2>1 DEF DpiFill, Moved, SameKey, DpiVars
<1>6. ASSUME DpiStatus(l)
      PROVE  Moved(l, "stamp") /\ SameKey(l) /\ dpi'[l].idx = dpi[l].idx /\ dpi'[l].node = dpi[l].node
  BY <1>0, <1>6 DEF DpiStatus, Moved, SameKey, DpiVars
<1>7. ASSUME DpiStamp(l)
      PROVE  Moved(l, "push") /\ SameKey(l) /\ dpi'[l].idx = dpi[l].idx /\ dpi'[l].node = dpi[l].node
  BY <1>0, <1>7 DEF DpiStamp, Moved, SameKey, DpiVars
<1>8. ASSUME Push(l)
      PROVE  /\ SameKey(l) /\ dpi'[l].idx = dpi[l].idx /\ dpi'[l].node = dpi[l].node
             /\ dpi'[l].cur = head
             /\ IF head = 0 THEN Moved(l, "head") ELSE Moved(l, "walk")
  BY <1>0, <1>8 DEF Push, Moved, SameKey, DpiVars
<1>9. ASSUME PushWalk(l)
      PROVE  /\ SameKey(l) /\ dpi'[l].idx = dpi[l].idx /\ dpi'[l].node = dpi[l].node
             /\ dpi'[l].cur \in Nodes /\ (Moved(l, "walk") \/ Moved(l, "link"))
  <2>1. dpi[l].cur \in Nodes
    BY <1>0, <1>9 DEF PushWalk, DpiOk
  <2>2. PICK y \in NodesN : dpi' = [dpi EXCEPT ![l].at = IF y # 0 THEN "walk" ELSE "link",
                                               ![l].cur = IF y # 0 THEN y ELSE dpi[l].cur]
    BY <1>9, <2>1 DEF PushWalk, NetTyped, MadeN, Made, NodesN
  <2>3. CASE y = 0
    BY <1>0, <2>1, <2>2, <2>3 DEF Moved, SameKey, DpiVars, NodesN
  <2>4. CASE y # 0
    BY <1>0, <2>1, <2>2, <2>4 DEF Moved, SameKey, DpiVars, NodesN
  <2> QED
    BY <2>3, <2>4
<1> QED
  BY <1>1, <1>2, <1>3, <1>4, <1>5, <1>6, <1>7, <1>8, <1>9

(* The writes to a row, as what they leave in it. *)
RowWritten(i) == ent' \in [Idx -> Rows] /\ \A j \in Idx : j # i => ent'[j] = ent[j]

LEMMA RowWrites ==
  ASSUME NetTyped, NEW l \in RxLcores, NEW i \in Idx, i = dpi[l].idx
  PROVE  /\ DpiHit(l) =>
              /\ RowWritten(i) /\ ent'[i].key = ent[i].key /\ ent'[i].status = ent[i].status
              /\ ent'[i].flow = ent[i].flow /\ ent'[i].last = dpi[l].time
              /\ ent'[i].seen = IF ent[i].seen < dpi[l].time THEN dpi[l].time ELSE ent[i].seen
         /\ DpiFill(l) =>
              /\ RowWritten(i) /\ ent'[i].key = dpi[l].key /\ ent'[i].status = ent[i].status
              /\ ent'[i].flow = flows + 1 /\ ent'[i].last = ent[i].last /\ ent'[i].seen = dpi[l].time
         /\ DpiStatus(l) =>
              /\ RowWritten(i) /\ ent'[i].key = ent[i].key /\ ent'[i].status = 1
              /\ ent'[i].flow = ent[i].flow /\ ent'[i].last = ent[i].last /\ ent'[i].seen = ent[i].seen
         /\ DpiStamp(l) =>
              /\ RowWritten(i) /\ ent'[i].key = ent[i].key /\ ent'[i].status = ent[i].status
              /\ ent'[i].flow = ent[i].flow /\ ent'[i].last = dpi[l].time /\ ent'[i].seen = ent[i].seen
<1>0. /\ ent \in [Idx -> Rows] /\ ent[i] \in Rows /\ dpi[l].time \in Nat /\ flows \in Nat
      /\ DpiOk(l) /\ dpi[l].key \in Keys \cup {NoKey}
  BY NetConstants, SMTT(30) DEF NetTyped, DpiVars
<1>1. ASSUME DpiHit(l)
      PROVE  /\ RowWritten(i) /\ ent'[i].key = ent[i].key /\ ent'[i].status = ent[i].status
             /\ ent'[i].flow = ent[i].flow /\ ent'[i].last = dpi[l].time
             /\ ent'[i].seen = IF ent[i].seen < dpi[l].time THEN dpi[l].time ELSE ent[i].seen
  BY <1>0, <1>1, SMTT(30) DEF DpiHit, RowWritten, Rows
<1>2. ASSUME DpiFill(l)
      PROVE  /\ RowWritten(i) /\ ent'[i].key = dpi[l].key /\ ent'[i].status = ent[i].status
             /\ ent'[i].flow = flows + 1 /\ ent'[i].last = ent[i].last /\ ent'[i].seen = dpi[l].time
  BY <1>0, <1>2, SMTT(30) DEF DpiFill, RowWritten, Rows
<1>3. ASSUME DpiStatus(l)
      PROVE  /\ RowWritten(i) /\ ent'[i].key = ent[i].key /\ ent'[i].status = 1
             /\ ent'[i].flow = ent[i].flow /\ ent'[i].last = ent[i].last /\ ent'[i].seen = ent[i].seen
  BY <1>0, <1>3, SMTT(30) DEF DpiStatus, RowWritten, Rows
<1>4. ASSUME DpiStamp(l)
      PROVE  /\ RowWritten(i) /\ ent'[i].key = ent[i].key /\ ent'[i].status = ent[i].status
             /\ ent'[i].flow = ent[i].flow /\ ent'[i].last = dpi[l].time /\ ent'[i].seen = ent[i].seen
  BY <1>0, <1>4, SMTT(30) DEF DpiStamp, RowWritten, Rows
<1> QED
  BY <1>1, <1>2, <1>3, <1>4

LEMMA RowCleared ==
  ASSUME NetTyped, NEW i \in Idx, ent' = [ent EXCEPT ![i] = Cleared]
  PROVE  /\ RowWritten(i) /\ ent'[i].key = NoKey /\ ent'[i].status = 0 /\ ent'[i].flow = 0
         /\ ent'[i].last = 0 /\ ent'[i].seen = 0
  BY DEF NetTyped, RowWritten, Cleared, Rows

(* The steps of the flush thread. *)
Flushes(a, i) == flush' \in FlushVars /\ flush'.at = a /\ flush'.idx = i /\ flush'.n = flush.n
                 /\ flush'.curr = flush.curr

Goes == flush' \in FlushVars /\ flush'.at \in {"idle", "scan"} /\ flush'.curr <= now

LEMMA FlushMoves ==
  ASSUME NetTyped
  PROVE  /\ FlushStart => Goes
         /\ flush' = NextN(flush) => Goes
         /\ \A a \in {"age", "look"} : flush' = [flush EXCEPT !.at = a] => Flushes(a, flush.idx)
         /\ \A a \in {"del", "clear"}, i \in Idx :
              flush' = [flush EXCEPT !.at = a, !.idx = i] => Flushes(a, i)
<1>0. flush \in FlushVars /\ flush.curr <= now /\ now \in Nat /\ flush.n \in Idx /\ flush.curr \in Nat
  BY NetConstants DEF NetTyped, FlushVars, FlushOk
<1>1. FlushStart => Goes
  BY <1>0, NetConstants DEF FlushStart, Goes, FlushVars
<1>2. ASSUME flush' = NextN(flush) PROVE Goes
  <2>1. CASE flush.n + 1 = Entries
    BY <1>0, <1>2, <2>1, NetConstants DEF NextN, Sleeping, Goes, FlushVars
  <2>2. CASE flush.n + 1 # Entries
    <3>1. flush.n + 1 \in Idx
      BY <1>0, <2>2, NetConstants
    <3> QED
      BY <1>0, <1>2, <2>2, <3>1, NetConstants DEF NextN, Goes, FlushVars
  <2> QED
    BY <2>1, <2>2
<1>3. \A a \in {"age", "look"} : flush' = [flush EXCEPT !.at = a] => Flushes(a, flush.idx)
  BY <1>0 DEF Flushes, FlushVars
<1>4. \A a \in {"del", "clear"}, i \in Idx :
        flush' = [flush EXCEPT !.at = a, !.idx = i] => Flushes(a, i)
  BY <1>0, NetConstants DEF Flushes, FlushVars
<1> QED
  BY <1>1, <1>2, <1>3, <1>4
-----------------------------------------------------------------------------
LEMMA TickTyped == ASSUME NetTyped, Tick PROVE NetTyped'
<1>1. now' \in 0 .. MaxTime /\ now <= now' /\ now \in Nat /\ now' \in Nat
  BY NetConstants DEF NetTyped, Tick
<1>2. UNCHANGED <<pkts, tab, ent, dpi, flush, logger, head, nxt, dat, freed, flows, logged, lost, cause>>
  BY DEF Tick, list, books
<1>3. FlushOk'
  <2>1. flush.curr \in Nat
    BY DEF NetTyped, FlushVars
  <2> QED
    BY <1>1, <1>2, <2>1 DEF NetTyped, FlushOk
<1> QED
  BY <1>1, <1>2, <1>3 DEF NetTyped, DpiOk, LoggerOk, MadeN, Made

(* A step of an lcore that leaves the list, the flows and the time.        *)
LEMMA DpiFrame ==
  ASSUME NetTyped, NEW l \in RxLcores, NEW a, Moved(l, a), DpiOk(l)',
         pkts' \in [RxLcores -> Seq(Keys)], tab' \in [Keys -> IdxN],
         ent' \in [Idx -> Rows], \A i \in Idx : ent'[i].flow <= flows,
         head' \in MadeN, nxt' \in [Nodes -> MadeN], lost' \subseteq 0 .. flows,
         cause' \subseteq Causes, UNCHANGED <<now, flush, logger, dat, freed, flows>>
  PROVE  NetTyped'
<1>1. \A m \in RxLcores : DpiOk(m)'
  <2> TAKE m \in RxLcores
  <2>1. CASE m = l
    BY <2>1
  <2>2. CASE m # l
    BY <2>2 DEF NetTyped, Moved, DpiOk, Made
  <2> QED
    BY <2>1, <2>2
<1>2. MadeN' = MadeN /\ (LoggerOk' <=> LoggerOk) /\ (FlushOk' <=> FlushOk)
  BY DEF MadeN, Made, LoggerOk, FlushOk
<1> QED
  BY <1>1, <1>2 DEF NetTyped, Moved

LEMMA FlowsBounded ==
  ASSUME NetTyped, NEW i \in Idx, RowWritten(i), ent'[i].flow = ent[i].flow
  PROVE  ent' \in [Idx -> Rows] /\ \A j \in Idx : ent'[j].flow <= flows
<1> SUFFICES ASSUME NEW j \in Idx PROVE ent'[j].flow <= flows
  BY DEF RowWritten
<1>1. CASE i = j
  BY <1>1 DEF NetTyped
<1>2. CASE i # j
  BY <1>2 DEF NetTyped, RowWritten
<1> QED
  BY <1>1, <1>2

LEMMA DpiTyped == ASSUME NetTyped, NEW l \in RxLcores, Dpi(l) PROVE NetTyped'
<1>1. Moved(l, "lookup") /\ dpi'[l].key \in Keys
  BY DpiMoves
<1>2. DpiOk(l)'
  BY <1>1 DEF Moved, DpiOk
<1>3. pkts' \in [RxLcores -> Seq(Keys)]
  BY DEF NetTyped, Dpi
<1>4. UNCHANGED <<now, tab, ent, flush, logger, head, nxt, dat, freed, flows, lost, cause>>
  BY DEF Dpi, list, books
<1> QED
  BY <1>1, <1>2, <1>3, <1>4, DpiFrame DEF NetTyped

LEMMA DpiLookupTyped == ASSUME NetTyped, NEW l \in RxLcores, DpiLookup(l) PROVE NetTyped'
<1>1. SameKey(l) /\ dpi'[l].idx = tab[dpi[l].key]
  BY DpiMoves
<1>2. dpi[l].key \in Keys
  BY DEF NetTyped, DpiLookup, DpiOk
<1>3. PICK a \in {"add", "hit"} : Moved(l, a) /\ (a = "hit" => tab[dpi[l].key] # None)
  BY DpiMoves
<1>4. DpiOk(l)'
  BY <1>1, <1>2, <1>3, TabIdx DEF Moved, DpiOk, SameKey
<1>5. UNCHANGED <<now, pkts, tab, ent, flush, logger, head, nxt, dat, freed, flows, lost, cause>>
  BY DEF DpiLookup, list, books
<1> QED
  BY <1>3, <1>4, <1>5, DpiFrame DEF NetTyped

LEMMA DpiHitTyped == ASSUME NetTyped, NEW l \in RxLcores, DpiHit(l) PROVE NetTyped'
<1>1. PICK i \in Idx : i = dpi[l].idx
  BY DEF NetTyped, DpiHit, DpiOk
<1>2. Moved(l, "idle")
  BY DpiMoves DEF DpiHit
<1>3. DpiOk(l)'
  BY <1>2 DEF Moved, DpiOk
<1>4. ent' \in [Idx -> Rows] /\ \A j \in Idx : ent'[j].flow <= flows
  BY <1>1, RowWrites, FlowsBounded
<1>5. UNCHANGED <<now, pkts, tab, flush, logger, head, nxt, dat, freed, flows, lost>>
  BY DEF DpiHit, list, books
<1>6. cause' \subseteq Causes
  BY DEF DpiHit, NetTyped, Excuse, Causes
<1> QED
  BY <1>2, <1>3, <1>4, <1>5, <1>6, DpiFrame DEF NetTyped

(* What rte_hash_add_key does. *)
Added(l, i) ==
  /\ i \in Idx /\ Moved(l, "fill") /\ SameKey(l) /\ dpi'[l].idx = i
  /\ tab' = [tab EXCEPT ![dpi[l].key] = i]
  /\ tab[dpi[l].key] = i \/ (tab[dpi[l].key] = None /\ i \in FreeIdx)
  /\ cause' = cause \cup Excuse("reused", Clearing(i))

LEMMA DpiAdds ==
  ASSUME NetTyped, NEW l \in RxLcores, DpiAdd(l)
  PROVE  /\ dpi[l].at = "add" /\ dpi[l].key \in Keys
         /\ UNCHANGED <<now, pkts, ent, flush, logger, head, nxt, dat, freed, flows, logged, lost>>
         /\ (\E i \in Idx : Added(l, i)) \/ (Moved(l, "idle") /\ UNCHANGED <<tab, cause>>)
<1>1. dpi[l].at = "add" /\ dpi[l].key \in Keys
  BY DEF NetTyped, DpiAdd, DpiOk
<1>2. UNCHANGED <<now, pkts, ent, flush, logger, head, nxt, dat, freed, flows, logged, lost>>
  BY DEF DpiAdd, list, books
<1>3. CASE dpi' = [dpi EXCEPT ![l] = Idle] /\ UNCHANGED <<tab, cause>>
  BY <1>1, <1>2, <1>3, DpiMoves
<1>4. ASSUME NEW i \in IF tab[dpi[l].key] # None THEN {tab[dpi[l].key]} ELSE FreeIdx,
             tab' = [tab EXCEPT ![dpi[l].key] = i], dpi' = [dpi EXCEPT ![l].at = "fill", ![l].idx = i],
             cause' = cause \cup Excuse("reused", Clearing(i))
      PROVE  \E j \in Idx : Added(l, j)
  <2>1. i \in Idx
    BY <1>1, <1>4, TabIdx DEF FreeIdx
  <2>2. Moved(l, "fill") /\ SameKey(l) /\ dpi'[l].idx = i
    BY <1>4, <2>1, DpiMoves
  <2>3. tab[dpi[l].key] = i \/ (tab[dpi[l].key] = None /\ i \in FreeIdx)
    BY <1>4
  <2> QED
    BY <1>4, <2>1, <2>2, <2>3 DEF Added
<1> QED
  BY <1>1, <1>2, <1>3, <1>4, ZenonT(30) DEF DpiAdd

LEMMA DpiAddTyped == ASSUME NetTyped, NEW l \in RxLcores, DpiAdd(l) PROVE NetTyped'
<1>1. /\ dpi[l].at = "add" /\ dpi[l].key \in Keys
      /\ UNCHANGED <<now, pkts, ent, flush, logger, head, nxt, dat, freed, flows, lost>>
  BY DpiAdds
<1>2. CASE Moved(l, "idle") /\ UNCHANGED <<tab, cause>>
  <2>1. DpiOk(l)'
    BY <1>2 DEF Moved, DpiOk
  <2> QED
    BY <1>1, <1>2, <2>1, DpiFrame DEF NetTyped
<1>3. ASSUME NEW i \in Idx, Added(l, i) PROVE NetTyped'
  <2>1. DpiOk(l)'
    BY <1>1, <1>3 DEF Added, Moved, SameKey, DpiOk
  <2>2. tab' \in [Keys -> IdxN] /\ cause' \subseteq Causes
    BY <1>1, <1>3, NetConstants DEF Added, NetTyped, Excuse, Causes
  <2> QED
    BY <1>1, <1>3, <2>1, <2>2, DpiFrame DEF NetTyped, Added
<1> QED
  BY <1>2, <1>3, DpiAdds

LEMMA DpiFillTyped == ASSUME NetTyped, NEW l \in RxLcores, DpiFill(l) PROVE NetTyped'
<1>1. PICK i \in Idx : i = dpi[l].idx
  BY DEF NetTyped, DpiFill, DpiOk
<1>2. /\ Moved(l, "status") /\ SameKey(l) /\ dpi'[l].idx = dpi[l].idx /\ dpi'[l].node = flows + 1
      /\ dpi[l].key \in Keys /\ dpi[l].at = "fill"
  BY DpiMoves DEF DpiFill, NetTyped, DpiOk
<1>3. flows' = flows + 1 /\ flows \in Nat /\ flows' \in Nodes /\ flows' \in 0 .. MaxFlowPkts /\ flows <= flows'
  BY NetConstants DEF DpiFill, NetTyped
<1>4. UNCHANGED <<now, pkts, tab, flush, logger, head, nxt, dat, freed, logged, lost>>
  BY DEF DpiFill, list
<1>5. RowWritten(i) /\ ent'[i].flow = flows'
  BY <1>1, <1>3, RowWrites
<1>6. \A j \in Idx : ent'[j].flow <= flows'
  <2> TAKE j \in Idx
  <2>1. CASE j = i
    BY <1>3, <1>5, <2>1
  <2>2. CASE j # i
    <3>1. ent'[j] = ent[j] /\ ent[j].flow \in Nat /\ ent[j].flow <= flows
      BY <1>5, <2>2 DEF RowWritten, NetTyped, Rows
    <3> QED
      BY <1>3, <3>1
  <2> QED
    BY <2>1, <2>2
<1>7. \A m \in RxLcores : DpiOk(m)'
  <2> TAKE m \in RxLcores
  <2>1. CASE m = l
    BY <1>1, <1>2, <1>3, <2>1 DEF Moved, SameKey, DpiOk
  <2>2. CASE m # l
    <3>1. dpi'[m] = dpi[m] /\ DpiOk(m) /\ Made' = Made
      BY <1>2, <1>4, <2>2 DEF Moved, NetTyped, Made
    <3>2. dpi[m].node \in Nat
      BY NetConstants DEF NetTyped, DpiVars, NodesN
    <3>3. dpi[m].node <= flows => dpi[m].node <= flows'
      BY <1>3, <3>2
    <3> QED
      BY <3>1, <3>3 DEF DpiOk
  <2> QED
    BY <2>1, <2>2
<1>8. cause' \subseteq Causes
  BY DEF DpiFill, NetTyped, Excuse, Late, Causes
<1>9. lost' \subseteq 0 .. flows'
  BY <1>3, <1>4 DEF NetTyped
<1>10. MadeN' = MadeN /\ (LoggerOk' <=> LoggerOk) /\ (FlushOk' <=> FlushOk)
  BY <1>4 DEF MadeN, Made, LoggerOk, FlushOk
<1> QED
  BY <1>2, <1>3, <1>4, <1>5, <1>6, <1>7, <1>8, <1>9, <1>10 DEF NetTyped, Moved, RowWritten

LEMMA DpiStatusTyped == ASSUME NetTyped, NEW l \in RxLcores, DpiStatus(l) \/ DpiStamp(l) PROVE NetTyped'
<1>1. PICK i \in Idx : i = dpi[l].idx
  BY DEF NetTyped, DpiStatus, DpiStamp, DpiOk
<1>2. PICK a \in {"stamp", "push"} : Moved(l, a)
  BY DpiMoves
<1>3. /\ SameKey(l) /\ dpi'[l].idx = dpi[l].idx /\ dpi'[l].node = dpi[l].node
      /\ dpi[l].at \in {"status", "stamp"} /\ DpiOk(l)
      /\ UNCHANGED <<now, pkts, tab, flush, logger, head, nxt, dat, freed, flows, lost>>
  BY DpiMoves DEF DpiStatus, DpiStamp, NetTyped, list, books
<1>4. DpiOk(l)'
  BY <1>1, <1>2, <1>3 DEF Moved, SameKey, DpiOk
<1>5. ent' \in [Idx -> Rows] /\ \A j \in Idx : ent'[j].flow <= flows
  BY <1>1, RowWrites, FlowsBounded
<1>6. cause' \subseteq Causes
  BY DEF DpiStatus, DpiStamp, NetTyped, Excuse, Causes
<1> QED
  BY <1>2, <1>3, <1>4, <1>5, <1>6, DpiFrame DEF NetTyped

LEMMA PushFailsTyped == ASSUME NetTyped, NEW l \in RxLcores, PushFails(l) PROVE NetTyped'
<1>1. Moved(l, "idle")
  BY DpiMoves DEF PushFails
<1>2. DpiOk(l)'
  BY <1>1 DEF Moved, DpiOk
<1>3. UNCHANGED <<now, pkts, tab, ent, flush, logger, head, nxt, dat, freed, flows, cause>>
  BY DEF PushFails, list
<1>4. dpi[l].node \in 0 .. flows
  BY NetConstants DEF PushFails, NetTyped, DpiOk
<1>5. lost' \subseteq 0 .. flows
  BY <1>4 DEF PushFails, NetTyped
<1> QED
  BY <1>1, <1>2, <1>3, <1>5, DpiFrame DEF NetTyped

LEMMA PushTyped == ASSUME NetTyped, NEW l \in RxLcores, Push(l) PROVE NetTyped'
<1>1. /\ SameKey(l) /\ dpi'[l].idx = dpi[l].idx /\ dpi'[l].node = dpi[l].node /\ dpi'[l].cur = head
      /\ dpi[l].at = "push" /\ DpiOk(l)
  BY DpiMoves DEF Push, NetTyped
<1>2. PICK a \in {"head", "walk"} : Moved(l, a) /\ (a = "walk" => head # 0)
  BY DpiMoves
<1>3. dpi[l].node \in Nodes /\ dpi[l].idx \in Idx /\ dat' = [dat EXCEPT ![dpi[l].node] = dpi[l].idx]
  BY <1>1 DEF Push, DpiOk
<1>4. dat' \in [Nodes -> IdxN] /\ Made \subseteq Made' /\ dpi[l].node \in Made'
  BY <1>3, NetConstants DEF NetTyped, Made
<1>5. UNCHANGED <<now, pkts, tab, ent, flush, logger, head, nxt, freed, flows, logged, lost, cause>>
  BY DEF Push, books
<1>6. \A m \in RxLcores : DpiOk(m)'
  <2> TAKE m \in RxLcores
  <2>1. CASE m = l
    <3>1. head # 0 => head \in Nodes
      BY DEF NetTyped, MadeN, Made
    <3> QED
      BY <1>1, <1>2, <1>3, <1>4, <2>1, <3>1 DEF Moved, SameKey, DpiOk
  <2>2. CASE m # l
    <3>1. dpi'[m] = dpi[m] /\ DpiOk(m)
      BY <1>2, <2>2 DEF Moved, NetTyped
    <3> QED
      BY <1>4, <1>5, <3>1 DEF DpiOk
  <2> QED
    BY <2>1, <2>2
<1>7. MadeN \subseteq MadeN' /\ (FlushOk' <=> FlushOk)
  BY <1>4, <1>5 DEF MadeN, FlushOk
<1>8. LoggerOk'
  BY <1>5, <1>7 DEF LoggerOk, NetTyped
<1> QED
  BY <1>2, <1>4, <1>5, <1>6, <1>7, <1>8 DEF NetTyped, Moved

LEMMA PushEndTyped ==
  ASSUME NetTyped, NEW l \in RxLcores, PushHead(l) \/ PushWalk(l) \/ PushLink(l)
  PROVE  NetTyped'
<1>1. /\ UNCHANGED <<now, pkts, tab, ent, flush, logger, dat, freed, flows, lost>>
      /\ cause' \subseteq Causes
  BY DEF PushHead, PushWalk, PushLink, list, books, NetTyped, Excuse, Causes
<1>2. CASE PushHead(l)
  <2>1. Moved(l, "idle") /\ dpi[l].node \in Made /\ head' = dpi[l].node /\ nxt' = nxt
    BY <1>2, DpiMoves DEF PushHead, NewHead, NetTyped, DpiOk
  <2>2. DpiOk(l)'
    BY <2>1 DEF Moved, DpiOk
  <2> QED
    BY <1>1, <2>1, <2>2, DpiFrame DEF NetTyped, MadeN
<1>3. CASE PushWalk(l)
  <2>1. PICK a \in {"walk", "link"} : Moved(l, a)
    BY <1>3, DpiMoves
  <2>2. /\ SameKey(l) /\ dpi'[l].idx = dpi[l].idx /\ dpi'[l].node = dpi[l].node
        /\ dpi'[l].cur \in Nodes /\ dpi[l].at = "walk" /\ DpiOk(l) /\ UNCHANGED <<head, nxt>>
    BY <1>3, DpiMoves DEF PushWalk, NetTyped, list
  <2>3. DpiOk(l)'
    BY <1>1, <2>1, <2>2 DEF Moved, SameKey, DpiOk, Made
  <2> QED
    BY <1>1, <2>1, <2>2, <2>3, DpiFrame DEF NetTyped
<1>4. CASE PushLink(l)
  <2>1. /\ Moved(l, "idle") /\ dpi[l].node \in Made /\ dpi[l].cur \in Nodes /\ head' = head
        /\ nxt' = [nxt EXCEPT ![dpi[l].cur] = dpi[l].node]
    BY <1>4, DpiMoves DEF PushLink, NetTyped, DpiOk
  <2>2. DpiOk(l)'
    BY <2>1 DEF Moved, DpiOk
  <2>3. nxt' \in [Nodes -> MadeN]
    BY <2>1 DEF NetTyped, MadeN
  <2> QED
    BY <1>1, <2>1, <2>2, <2>3, DpiFrame DEF NetTyped
<1> QED
  BY <1>2, <1>3, <1>4
-----------------------------------------------------------------------------
(* What a step of the flush thread does with the table and the rows. *)
LEMMA FlushLooks ==
  ASSUME NetTyped, FlushLook
  PROVE  LET n == flush.n
             i == IF ent[n].key \in Keys THEN tab[ent[n].key] ELSE None
         IN  /\ flush.at = "look" /\ n \in Idx
             /\ UNCHANGED <<now, pkts, tab, dpi, logger, list, books>>
             /\ \/ /\ i = None /\ ent' = [ent EXCEPT ![n] = Cleared] /\ RowWritten(n) /\ Goes
                   /\ cause' = cause \cup Early(n) \cup Late(n) \cup Excuse("undone", Filling(n))
                \/ i \in Idx /\ Flushes("del", i) /\ UNCHANGED <<ent, cause>>
<1> DEFINE n == flush.n
           i == IF ent[n].key \in Keys THEN tab[ent[n].key] ELSE None
<1>1. flush.at = "look" /\ n \in Idx /\ UNCHANGED <<now, pkts, tab, dpi, logger, list, books>>
  BY DEF NetTyped, FlushVars, FlushLook
<1>2. i # None => i \in Idx
  BY TabIdx
<1>3. \/ /\ i = None /\ ent' = [ent EXCEPT ![n] = Cleared] /\ flush' = NextN(flush)
         /\ cause' = cause \cup Early(n) \cup Late(n) \cup Excuse("undone", Filling(n))
      \/ i # None /\ flush' = [flush EXCEPT !.at = "del", !.idx = i] /\ UNCHANGED <<ent, cause>>
  BY DEF FlushLook
<1> HIDE DEF i
<1>4. \/ /\ i = None /\ ent' = [ent EXCEPT ![n] = Cleared] /\ RowWritten(n) /\ Goes
         /\ cause' = cause \cup Early(n) \cup Late(n) \cup Excuse("undone", Filling(n))
      \/ i \in Idx /\ Flushes("del", i) /\ UNCHANGED <<ent, cause>>
  BY <1>1, <1>2, <1>3, RowCleared, FlushMoves
<1> QED
  BY <1>1, <1>4 DEF i

LEMMA FlushDels ==
  ASSUME NetTyped, FlushDel
  PROVE  LET k == ent[flush.idx].key
             i == IF k \in Keys THEN tab[k] ELSE None
         IN  /\ flush.at = "del" /\ flush.idx \in Idx
             /\ UNCHANGED <<now, pkts, ent, dpi, logger, list, books>>
             /\ \/ i = None /\ Goes /\ UNCHANGED <<tab, cause>>
                \/ /\ i \in Idx /\ k \in Keys /\ tab' = [tab EXCEPT ![k] = None] /\ Flushes("clear", i)
                   /\ cause' = cause \cup Early(i) \cup Excuse("undone", Filling(i))
<1> DEFINE k == ent[flush.idx].key
           i == IF k \in Keys THEN tab[k] ELSE None
<1>1. flush.at = "del" /\ flush.idx \in Idx /\ UNCHANGED <<now, pkts, ent, dpi, logger, list, books>>
  BY DEF NetTyped, FlushOk, FlushDel
<1>2. i # None => i \in Idx /\ k \in Keys
  BY TabIdx
<1>3. \/ i = None /\ flush' = NextN(flush) /\ UNCHANGED <<tab, cause>>
      \/ /\ i # None /\ tab' = [tab EXCEPT ![k] = None] /\ flush' = [flush EXCEPT !.at = "clear", !.idx = i]
         /\ cause' = cause \cup Early(i) \cup Excuse("undone", Filling(i))
  BY DEF FlushDel
<1> HIDE DEF i, k
<1>4. \/ i = None /\ Goes /\ UNCHANGED <<tab, cause>>
      \/ /\ i \in Idx /\ k \in Keys /\ tab' = [tab EXCEPT ![k] = None] /\ Flushes("clear", i)
         /\ cause' = cause \cup Early(i) \cup Excuse("undone", Filling(i))
  BY <1>2, <1>3, FlushMoves
<1> QED
  BY <1>1, <1>4 DEF i, k

LEMMA FlushTyped ==
  ASSUME NetTyped, FlushStart \/ FlushScan \/ FlushAge \/ FlushLook \/ FlushDel \/ FlushClear
  PROVE  NetTyped'
<1>1. ASSUME Goes \/ (\E a \in {"age", "look"} : Flushes(a, flush.idx))
                  \/ (\E a \in {"del", "clear"}, i \in Idx : Flushes(a, i)),
             tab' \in [Keys -> IdxN], ent' \in [Idx -> Rows], \A i \in Idx : ent'[i].flow <= flows,
             cause' \subseteq Causes, UNCHANGED <<now, pkts, dpi, logger, head, nxt, dat, freed, flows, lost>>
      PROVE  NetTyped'
  <2>1. flush' \in FlushVars /\ FlushOk'
    BY <1>1 DEF Goes, Flushes, FlushOk, NetTyped
  <2>2. MadeN' = MadeN /\ (LoggerOk' <=> LoggerOk) /\ \A l \in RxLcores : DpiOk(l)' <=> DpiOk(l)
    BY <1>1 DEF MadeN, Made, LoggerOk, DpiOk
  <2> QED
    BY <1>1, <2>1, <2>2 DEF NetTyped
<1>2. \A i \in Idx : ent' = [ent EXCEPT ![i] = Cleared] =>
        ent' \in [Idx -> Rows] /\ \A j \in Idx : ent'[j].flow <= flows
  <2> SUFFICES ASSUME NEW i \in Idx, ent' = [ent EXCEPT ![i] = Cleared], NEW j \in Idx
               PROVE  ent' \in [Idx -> Rows] /\ ent'[j].flow <= flows
    OBVIOUS
  <2>1. RowWritten(i) /\ ent'[i].flow = 0
    BY RowCleared
  <2>2. flows \in Nat
    BY NetConstants DEF NetTyped
  <2> QED
    BY <2>1, <2>2 DEF RowWritten, NetTyped
<1>3. ent \in [Idx -> Rows] /\ (\A j \in Idx : ent[j].flow <= flows) /\ tab \in [Keys -> IdxN]
      /\ cause \subseteq Causes
  BY DEF NetTyped
<1>4. CASE FlushStart
  <2>1. UNCHANGED <<now, pkts, tab, ent, dpi, logger, head, nxt, dat, freed, flows, lost, cause>>
    BY <1>4 DEF FlushStart, list, books
  <2> QED
    BY <1>1, <1>3, <1>4, <2>1, FlushMoves
<1>5. CASE FlushScan
  <2>1. UNCHANGED <<now, pkts, tab, ent, dpi, logger, head, nxt, dat, freed, flows, lost, cause>>
    BY <1>5 DEF FlushScan, list, books
  <2>2. Goes \/ Flushes("age", flush.idx)
    BY <1>5, FlushMoves DEF FlushScan
  <2> QED
    BY <1>1, <1>3, <2>1, <2>2
<1>6. CASE FlushAge
  <2>1. UNCHANGED <<now, pkts, tab, ent, dpi, logger, head, nxt, dat, freed, flows, lost>>
    BY <1>6 DEF FlushAge, list, books
  <2>2. Goes \/ Flushes("look", flush.idx)
    BY <1>6, FlushMoves DEF FlushAge
  <2>3. cause' \subseteq Causes
    BY <1>3, <1>6 DEF FlushAge, Excuse, Causes
  <2> QED
    BY <1>1, <1>3, <2>1, <2>2, <2>3
<1>7. CASE FlushLook
  <2>1. flush.n \in Idx /\ UNCHANGED <<now, pkts, tab, dpi, logger, head, nxt, dat, freed, flows, lost>>
    BY <1>7, FlushLooks DEF list, books
  <2>2. CASE Goes /\ ent' = [ent EXCEPT ![flush.n] = Cleared] /\
             cause' = cause \cup Early(flush.n) \cup Late(flush.n) \cup Excuse("undone", Filling(flush.n))
    <3>1. cause' \subseteq Causes
      BY <1>3, <2>2 DEF Early, Late, Excuse, Causes
    <3> QED
      BY <1>1, <1>2, <1>3, <2>1, <2>2, <3>1
  <2>3. ASSUME NEW i \in Idx, Flushes("del", i), UNCHANGED <<ent, cause>> PROVE NetTyped'
    BY <1>1, <1>3, <2>1, <2>3
  <2> QED
    BY <1>7, <2>2, <2>3, FlushLooks
<1>8. CASE FlushDel
  <2>1. UNCHANGED <<now, pkts, ent, dpi, logger, head, nxt, dat, freed, flows, lost>>
    BY <1>8, FlushDels DEF list, books
  <2>2. CASE Goes /\ UNCHANGED <<tab, cause>>
    BY <1>1, <1>3, <2>1, <2>2
  <2>3. ASSUME NEW i \in Idx, NEW k \in Keys, tab' = [tab EXCEPT ![k] = None], Flushes("clear", i),
               cause' = cause \cup Early(i) \cup Excuse("undone", Filling(i))
        PROVE  NetTyped'
    <3>1. tab' \in [Keys -> IdxN] /\ cause' \subseteq Causes
      BY <1>3, <2>3, NetConstants DEF Early, Excuse, Causes
    <3> QED
      BY <1>1, <1>3, <2>1, <2>3, <3>1
  <2> QED
    BY <1>8, <2>2, <2>3, FlushDels
<1>9. CASE FlushClear
  <2>1. /\ flush.idx \in Idx /\ ent' = [ent EXCEPT ![flush.idx] = Cleared] /\ Goes
        /\ UNCHANGED <<now, pkts, tab, dpi, logger, head, nxt, dat, freed, flows, lost>>
    BY <1>9, FlushMoves DEF FlushClear, AfterFlush, NetTyped, FlushOk, list, books
  <2>2. cause' \subseteq Causes
    BY <1>3, <1>9 DEF FlushClear, Early, Late, Excuse, Causes
  <2> QED
    BY <1>1, <1>2, <1>3, <2>1, <2>2
<1> QED
  BY <1>4, <1>5, <1>6, <1>7, <1>8, <1>9

LEMMA LoggerTyped ==
  ASSUME NetTyped, Pop \/ PopNextRead \/ Take \/ Insert
  PROVE  NetTyped'
<1>1. ASSUME logger' \in LogVars, LoggerOk', head' \in MadeN, freed' \subseteq Nodes,
             lost' \subseteq 0 .. flows, cause' \subseteq Causes,
             UNCHANGED <<now, pkts, tab, ent, dpi, flush, nxt, dat, flows>>
      PROVE  NetTyped'
  <2>1. MadeN' = MadeN /\ (FlushOk' <=> FlushOk) /\ \A l \in RxLcores : DpiOk(l)' <=> DpiOk(l)
    BY <1>1 DEF MadeN, Made, FlushOk, DpiOk
  <2> QED
    BY <1>1, <2>1 DEF NetTyped
<1>2. /\ logger \in LogVars /\ LoggerOk /\ head \in MadeN /\ freed \subseteq Nodes
      /\ lost \subseteq 0 .. flows /\ cause \subseteq Causes
  BY DEF NetTyped
<1>3. CASE Pop
  <2>1. head \in Nodes /\ dat[head] \in Idx /\ UNCHANGED <<now, pkts, tab, ent, dpi, flush, head, nxt, dat, freed, flows, lost, cause>>
    BY <1>2, <1>3 DEF Pop, MadeN, Made, list, books
  <2>2. logger' \in LogVars /\ LoggerOk'
    BY <1>3, <2>1, NetConstants DEF Pop, LogVars, LoggerOk, NodesN, MadeN
  <2> QED
    BY <1>1, <1>2, <2>1, <2>2
<1>4. CASE PopNextRead
  <2>1. /\ logger.node \in Nodes /\ logger.idx \in Idx /\ nxt[logger.node] \in MadeN
        /\ UNCHANGED <<now, pkts, tab, ent, dpi, flush, head, nxt, dat, freed, flows, lost, cause>>
    BY <1>2, <1>4 DEF PopNextRead, LoggerOk, NetTyped, list, books
  <2>2. nxt[logger.node] \in NodesN
    BY <2>1 DEF MadeN, Made, NodesN
  <2>3. logger' \in LogVars /\ LoggerOk'
    BY <1>2, <1>4, <2>1, <2>2 DEF PopNextRead, LogVars, LoggerOk, MadeN, Made
  <2> QED
    BY <1>1, <1>2, <2>1, <2>3
<1>5. CASE Take
  <2>1. /\ logger.node \in Nodes /\ logger.idx \in Idx /\ logger.nxt \in MadeN
        /\ UNCHANGED <<now, pkts, tab, ent, dpi, flush, nxt, dat, flows, lost>>
    BY <1>2, <1>5 DEF Take, LoggerOk, books
  <2>2. logger' \in LogVars /\ LoggerOk'
    BY <1>2, <1>5, <2>1 DEF Take, LogVars, LoggerOk, MadeN, Made
  <2>3. head' \in MadeN /\ freed' \subseteq Nodes /\ cause' \subseteq Causes
    BY <1>2, <1>5, <2>1 DEF Take, PopNext, Excuse, Causes
  <2> QED
    BY <1>1, <1>2, <2>1, <2>2, <2>3
<1>6. CASE Insert
  <2>1. logger.idx \in Idx /\ logger' = Waiting
        /\ UNCHANGED <<now, pkts, tab, ent, dpi, flush, head, nxt, dat, freed, flows, cause>>
    BY <1>2, <1>6 DEF Insert, LoggerOk, list
  <2>2. ent[logger.idx].flow \in 0 .. flows
    BY <2>1, NetConstants DEF NetTyped, Rows
  <2>3. lost' \subseteq 0 .. flows
    BY <1>2, <1>6, <2>2 DEF Insert
  <2>4. logger' \in LogVars /\ LoggerOk'
    BY <2>1, NetConstants DEF Waiting, LogVars, LoggerOk, NodesN
  <2> QED
    BY <1>1, <1>2, <2>1, <2>3, <2>4
<1> QED
  BY <1>3, <1>4, <1>5, <1>6

LEMMA NextNetTyped == NetTyped /\ [NetNext]_nvars => NetTyped'
<1>1. CASE UNCHANGED nvars
  BY <1>1 DEF nvars, list, books, NetTyped, DpiOk, FlushOk, LoggerOk, MadeN, Made
<1> QED
  BY <1>1, TickTyped, DpiTyped, DpiLookupTyped, DpiHitTyped, DpiAddTyped, DpiFillTyped, DpiStatusTyped,
     PushFailsTyped, PushTyped, PushEndTyped, FlushTyped, LoggerTyped DEF NetNext
-----------------------------------------------------------------------------
(* The table, the rows and who is at them, as long as no index was handed  *)
(* out before its row was cleared and no row was flushed while an lcore    *)
(* filled it: two keys have two indices; an lcore that fills a row holds   *)
(* the index of its key; a live row is in the table, unless it is being    *)
(* cleared, and what is in the table is a live row or being filled; the    *)
(* flush thread goes on with the row it looked at.                         *)
Row(k, i) == ent[i].status = 1 /\ ent[i].key = k

FillsKey(l, k, i) == dpi[l].at \in {"fill", "status"} /\ dpi[l].key = k /\ dpi[l].idx = i

TableCalm == "reused" \notin cause /\ "undone" \notin cause

OneIndex   == \A k, c \in Keys : tab[k] # None /\ tab[k] = tab[c] => k = c
FillsOwn   == \A l \in RxLcores : dpi[l].at \in {"fill", "status"} => tab[dpi[l].key] = dpi[l].idx
StatusKey  == \A l \in RxLcores : dpi[l].at = "status" => ent[dpi[l].idx].key = dpi[l].key
LiveListed == \A i \in Idx : ent[i].status = 1 =>
                ent[i].key \in Keys /\ (Clearing(i) \/ tab[ent[i].key] = i)
ListedLive == \A k \in Keys, i \in Idx : tab[k] = i => Row(k, i) \/ \E l \in RxLcores : FillsKey(l, k, i)
FlushHas   ==
  /\ flush.at \in {"age", "look"} => ent[flush.n].status = 1
  /\ flush.at = "del" => flush.idx = flush.n /\ ent[flush.n].status = 1
  /\ flush.at = "clear" => flush.idx = flush.n /\ \A k \in Keys : tab[k] # flush.n

TableOk  == OneIndex /\ FillsOwn /\ StatusKey /\ LiveListed /\ ListedLive /\ FlushHas
TableInv == TableCalm => TableOk

LEMMA Calms == ASSUME NetTyped, TableInv, TableCalm', cause \subseteq cause' PROVE TableOk
  BY DEF TableInv, TableCalm

LEMMA FlushRow == ASSUME NetTyped PROVE flush.n \in Idx /\ flush.idx \in IdxN
  BY DEF NetTyped, FlushVars

(* Steps that leave the table, the keys and the status of the rows, and do *)
(* not begin or end to fill or to clear one.                               *)
LEMMA TableFrame ==
  ASSUME NetTyped, TableOk, UNCHANGED tab,
         \A i \in Idx : ent'[i].status = ent[i].status /\ ent'[i].key = ent[i].key,
         \A l \in RxLcores :
            \/ dpi'[l] = dpi[l]
            \/ {dpi[l].at, dpi'[l].at} \cap {"fill", "status"} = {},
         \/ flush' = flush
         \/ /\ flush.at # "clear"
            /\ \/ flush'.at \in {"idle", "scan"}
               \/ flush'.at \in {"age", "look"} /\ flush'.n = flush.n /\ ent[flush.n].status = 1
  PROVE  TableOk'
<1>1. /\ OneIndex /\ FillsOwn /\ StatusKey /\ LiveListed /\ ListedLive /\ FlushHas
      /\ flush.n \in Idx /\ \A l \in RxLcores : DpiOk(l)
  BY FlushRow DEF TableOk, NetTyped
<1>2. OneIndex' /\ FillsOwn'
  BY <1>1 DEF OneIndex, FillsOwn
<1>3. StatusKey'
  <2> SUFFICES ASSUME NEW l \in RxLcores, dpi'[l].at = "status" PROVE ent'[dpi'[l].idx].key = dpi'[l].key
    BY DEF StatusKey
  <2>1. dpi'[l] = dpi[l] /\ dpi[l].idx \in Idx
    BY <1>1 DEF DpiOk
  <2> QED
    BY <1>1, <2>1 DEF StatusKey
<1>4. LiveListed'
  <2>1. \A i \in Idx : Clearing(i)' <=> Clearing(i)
    BY DEF Clearing
  <2> QED
    BY <1>1, <2>1 DEF LiveListed
<1>5. ListedLive'
  <2>1. \A k \in Keys, i \in Idx : Row(k, i)' <=> Row(k, i)
    BY DEF Row
  <2>2. \A k \in Keys, i \in Idx, l \in RxLcores : FillsKey(l, k, i)' <=> FillsKey(l, k, i)
    BY DEF FillsKey
  <2> QED
    BY <1>1, <2>1, <2>2 DEF ListedLive
<1>6. FlushHas'
  BY <1>1 DEF FlushHas
<1> QED
  BY <1>2, <1>3, <1>4, <1>5, <1>6 DEF TableOk

LEMMA DpiAddTable ==
  ASSUME NetTyped, TableOk, NEW l \in RxLcores, DpiAdd(l), TableCalm'
  PROVE  TableOk'
<1> DEFINE c == dpi[l].key
<1>1. dpi[l].at = "add" /\ c \in Keys /\ UNCHANGED <<ent, flush>>
  BY DpiAdds
<1>2. CASE Moved(l, "idle") /\ UNCHANGED <<tab, cause>>
  <2>1. \A m \in RxLcores : \/ dpi'[m] = dpi[m]
                            \/ {dpi[m].at, dpi'[m].at} \cap {"fill", "status"} = {}
    BY <1>1, <1>2 DEF Moved
  <2> QED
    BY <1>1, <1>2, <2>1, TableFrame
<1>3. ASSUME NEW i \in Idx, Added(l, i) PROVE TableOk'
  <2>1. /\ dpi'[l].at = "fill" /\ dpi'[l].key = c /\ dpi'[l].idx = i
        /\ \A m \in RxLcores : m # l => dpi'[m] = dpi[m]
    BY <1>3 DEF Added, Moved, SameKey
  <2>2. tab'[c] = i /\ (\A k \in Keys : k # c => tab'[k] = tab[k]) /\ i # None
    BY <1>1, <1>3, NetConstants DEF Added, NetTyped
  <2>3. ~Clearing(i)
    BY <1>3 DEF Added, TableCalm, Excuse
  <2>4. tab[c] = i \/ (tab[c] = None /\ \A k \in Keys : tab[k] # i)
    BY <1>3 DEF Added, FreeIdx
  <2>5. /\ OneIndex /\ FillsOwn /\ StatusKey /\ LiveListed /\ ListedLive /\ FlushHas
        /\ \A m \in RxLcores : DpiOk(m)
    BY DEF TableOk, NetTyped
  <2> HIDE DEF c
  <2>6. OneIndex'
    <3> SUFFICES ASSUME NEW k \in Keys, NEW d \in Keys, tab'[k] # None, tab'[k] = tab'[d] PROVE k = d
      BY DEF OneIndex
    <3>1. \A x \in Keys : tab[x] = i => x = c
      BY <1>1, <2>2, <2>4, <2>5 DEF OneIndex
    <3> QED
      BY <2>2, <2>5, <3>1 DEF OneIndex
  <2>7. FillsOwn'
    <3> SUFFICES ASSUME NEW m \in RxLcores, dpi'[m].at \in {"fill", "status"}
                 PROVE  tab'[dpi'[m].key] = dpi'[m].idx
      BY DEF FillsOwn
    <3>1. CASE m = l
      BY <2>1, <2>2, <3>1
    <3>2. CASE m # l
      <4>1. tab[dpi[m].key] = dpi[m].idx /\ dpi[m].key \in Keys /\ dpi[m].idx \in Idx /\ dpi'[m] = dpi[m]
        BY <2>1, <2>5, <3>2 DEF FillsOwn, DpiOk
      <4>2. dpi[m].key = c => tab[c] = i
        BY <2>4, <4>1, NetConstants
      <4> QED
        BY <2>2, <4>1, <4>2
    <3> QED
      BY <3>1, <3>2
  <2>8. StatusKey'
    BY <1>1, <2>1, <2>5 DEF StatusKey
  <2>9. LiveListed'
    <3> SUFFICES ASSUME NEW j \in Idx, ent'[j].status = 1
                 PROVE  ent'[j].key \in Keys /\ (Clearing(j)' \/ tab'[ent'[j].key] = j)
      BY DEF LiveListed
    <3>1. /\ ent'[j] = ent[j] /\ (Clearing(j)' <=> Clearing(j))
          /\ ent[j].key \in Keys /\ (Clearing(j) \/ tab[ent[j].key] = j)
      BY <1>1, <2>5 DEF LiveListed, Clearing
    <3>2. tab[ent[j].key] = j => tab'[ent[j].key] = j
      BY <2>2, <2>4, <3>1, NetConstants
    <3> QED
      BY <3>1, <3>2
  <2>10. ListedLive'
    <3> SUFFICES ASSUME NEW k \in Keys, NEW j \in Idx, tab'[k] = j
                 PROVE  Row(k, j)' \/ \E m \in RxLcores : FillsKey(m, k, j)'
      BY DEF ListedLive
    <3>1. CASE k = c
      BY <2>1, <2>2, <3>1 DEF FillsKey
    <3>2. CASE k # c
      <4>1. Row(k, j) \/ \E m \in RxLcores : FillsKey(m, k, j)
        BY <2>2, <2>5, <3>2 DEF ListedLive
      <4>2. \A m \in RxLcores : FillsKey(m, k, j) => FillsKey(m, k, j)'
        BY <1>1, <2>1 DEF FillsKey
      <4>3. Row(k, j)' <=> Row(k, j)
        BY <1>1 DEF Row
      <4> QED
        BY <4>1, <4>2, <4>3
    <3> QED
      BY <3>1, <3>2
  <2>11. FlushHas'
    <3>1. flush.at = "clear" => \A k \in Keys : tab'[k] # flush.n
      BY <2>2, <2>3, <2>5 DEF FlushHas, Clearing
    <3> QED
      BY <1>1, <2>5, <3>1 DEF FlushHas
  <2> QED
    BY <2>6, <2>7, <2>8, <2>9, <2>10, <2>11 DEF TableOk
<1> QED
  BY <1>2, <1>3, DpiAdds

LEMMA DpiFillTable ==
  ASSUME NetTyped, TableOk, NEW l \in RxLcores, DpiFill(l)
  PROVE  TableOk'
<1> DEFINE c == dpi[l].key
<1>0. /\ OneIndex /\ FillsOwn /\ StatusKey /\ LiveListed /\ ListedLive /\ FlushHas
      /\ flush.n \in Idx /\ \A m \in RxLcores : DpiOk(m)
  BY FlushRow DEF TableOk, NetTyped
<1>1. dpi[l].at = "fill" /\ c \in Keys /\ UNCHANGED <<tab, flush>>
  BY <1>0 DEF DpiFill, DpiOk
<1>2. PICK i \in Idx : i = dpi[l].idx
  BY <1>0, <1>1 DEF DpiOk
<1>3. RowWritten(i) /\ ent'[i].key = c /\ ent'[i].status = ent[i].status
  BY <1>2, RowWrites
<1>4. /\ dpi'[l].at = "status" /\ dpi'[l].key = c /\ dpi'[l].idx = i
      /\ \A m \in RxLcores : m # l => dpi'[m] = dpi[m]
  BY <1>2, DpiMoves DEF Moved, SameKey
<1>5. tab[c] = i /\ i # None
  BY <1>0, <1>1, <1>2, NetConstants DEF FillsOwn
<1> HIDE DEF c
<1>6. ent[i].status = 1 => ent[i].key = c
  BY <1>0, <1>1, <1>5, FlushRow DEF LiveListed, OneIndex, FlushHas, Clearing
<1>7. OneIndex' /\ FillsOwn'
  BY <1>0, <1>1, <1>4, <1>5 DEF OneIndex, FillsOwn
<1>8. StatusKey'
  <2> SUFFICES ASSUME NEW m \in RxLcores, dpi'[m].at = "status"
               PROVE  ent'[dpi'[m].idx].key = dpi'[m].key
    BY DEF StatusKey
  <2>1. CASE m = l
    BY <1>3, <1>4, <2>1
  <2>2. CASE m # l
    <3>1. /\ dpi'[m] = dpi[m] /\ dpi[m].key \in Keys /\ dpi[m].idx \in Idx
          /\ tab[dpi[m].key] = dpi[m].idx /\ ent[dpi[m].idx].key = dpi[m].key
      BY <1>0, <1>4, <2>2 DEF DpiOk, FillsOwn, StatusKey
    <3>2. CASE dpi[m].idx = i
      BY <1>0, <1>1, <1>3, <1>5, <3>1, <3>2 DEF OneIndex
    <3>3. CASE dpi[m].idx # i
      BY <1>3, <3>1, <3>3 DEF RowWritten
    <3> QED
      BY <3>2, <3>3
  <2> QED
    BY <2>1, <2>2
<1>9. \A j \in Idx : ent'[j].status = ent[j].status /\ (ent[j].status = 1 => ent'[j].key = ent[j].key)
  BY <1>3, <1>6 DEF RowWritten
<1>10. LiveListed'
  <2>1. \A j \in Idx : Clearing(j)' <=> Clearing(j)
    BY <1>1 DEF Clearing
  <2> QED
    BY <1>0, <1>1, <1>9, <2>1 DEF LiveListed
<1>11. ListedLive'
  <2> SUFFICES ASSUME NEW k \in Keys, NEW j \in Idx, tab'[k] = j
               PROVE  Row(k, j)' \/ \E m \in RxLcores : FillsKey(m, k, j)'
    BY DEF ListedLive
  <2>1. Row(k, j) \/ \E m \in RxLcores : FillsKey(m, k, j)
    BY <1>0, <1>1 DEF ListedLive
  <2>2. \A m \in RxLcores : FillsKey(m, k, j) => FillsKey(m, k, j)'
    BY <1>1, <1>2, <1>4 DEF FillsKey, c
  <2>3. Row(k, j) => Row(k, j)'
    BY <1>9 DEF Row
  <2> QED
    BY <2>1, <2>2, <2>3
<1>12. FlushHas'
  BY <1>0, <1>1, <1>9 DEF FlushHas
<1> QED
  BY <1>7, <1>8, <1>10, <1>11, <1>12 DEF TableOk

LEMMA DpiStatusTable ==
  ASSUME NetTyped, TableOk, NEW l \in RxLcores, DpiStatus(l)
  PROVE  TableOk'
<1> DEFINE c == dpi[l].key
<1>0. /\ OneIndex /\ FillsOwn /\ StatusKey /\ LiveListed /\ ListedLive /\ FlushHas
      /\ flush.n \in Idx /\ \A m \in RxLcores : DpiOk(m)
  BY FlushRow DEF TableOk, NetTyped
<1>1. dpi[l].at = "status" /\ c \in Keys /\ UNCHANGED <<tab, flush>>
  BY <1>0 DEF DpiStatus, DpiOk
<1>2. PICK i \in Idx : i = dpi[l].idx
  BY <1>0, <1>1 DEF DpiOk
<1>3. /\ RowWritten(i) /\ ent'[i].status = 1 /\ ent'[i].key = ent[i].key /\ ent[i].key = c
  BY <1>0, <1>1, <1>2, RowWrites DEF StatusKey
<1>4. dpi'[l].at = "stamp" /\ \A m \in RxLcores : m # l => dpi'[m] = dpi[m]
  BY DpiMoves DEF Moved
<1>5. tab[c] = i
  BY <1>0, <1>1, <1>2 DEF FillsOwn
<1>6. c = dpi[l].key
  OBVIOUS
<1> HIDE DEF c
<1>7. \A j \in Idx : ent'[j].key = ent[j].key /\ (ent'[j].status = ent[j].status \/ j = i)
                     /\ (ent[j].status = 1 => ent'[j].status = 1)
  BY <1>3 DEF RowWritten
<1>8. OneIndex' /\ FillsOwn' /\ StatusKey'
  BY <1>0, <1>1, <1>4, <1>7 DEF OneIndex, FillsOwn, StatusKey, DpiOk
<1>9. LiveListed'
  <2>1. \A j \in Idx : Clearing(j)' <=> Clearing(j)
    BY <1>1 DEF Clearing
  <2> QED
    BY <1>0, <1>1, <1>3, <1>5, <1>7, <2>1 DEF LiveListed
<1>10. ListedLive'
  <2> SUFFICES ASSUME NEW k \in Keys, NEW j \in Idx, tab'[k] = j
               PROVE  Row(k, j)' \/ \E m \in RxLcores : FillsKey(m, k, j)'
    BY DEF ListedLive
  <2>1. Row(k, j) \/ \E m \in RxLcores : FillsKey(m, k, j)
    BY <1>0, <1>1 DEF ListedLive
  <2>2. FillsKey(l, k, j) => Row(k, j)'
    BY <1>2, <1>3, <1>6 DEF FillsKey, Row
  <2>3. \A m \in RxLcores : m # l /\ FillsKey(m, k, j) => FillsKey(m, k, j)'
    BY <1>4 DEF FillsKey
  <2>4. Row(k, j) => Row(k, j)'
    BY <1>7 DEF Row
  <2> QED
    BY <2>1, <2>2, <2>3, <2>4
<1>11. FlushHas'
  BY <1>0, <1>1, <1>7 DEF FlushHas
<1> QED
  BY <1>8, <1>9, <1>10, <1>11 DEF TableOk
-----------------------------------------------------------------------------
LEMMA FlushLookTable ==
  ASSUME NetTyped, TableOk, FlushLook
  PROVE  TableOk' /\ Flushes("del", flush.n) /\ UNCHANGED <<ent, cause>>
<1> DEFINE n == flush.n
<1>1. flush.at = "look" /\ n \in Idx /\ UNCHANGED <<tab, dpi>>
  BY FlushLooks
<1>2. OneIndex /\ FillsOwn /\ StatusKey /\ LiveListed /\ ListedLive /\ FlushHas
  BY DEF TableOk
<1>3. ent[n].status = 1 /\ ent[n].key \in Keys /\ tab[ent[n].key] = n /\ n # None
  BY <1>1, <1>2, NetConstants DEF FlushHas, LiveListed, Clearing
<1>4. Flushes("del", n) /\ UNCHANGED <<ent, cause>>
  BY <1>3, FlushLooks
<1>5. flush'.at = "del" /\ flush'.idx = n /\ flush'.n = n
  BY <1>4 DEF Flushes
<1> HIDE DEF n
<1>6. OneIndex' /\ FillsOwn' /\ StatusKey'
  BY <1>1, <1>2, <1>4 DEF OneIndex, FillsOwn, StatusKey
<1>7. LiveListed'
  <2>1. \A i \in Idx : ~Clearing(i) /\ ~Clearing(i)'
    BY <1>1, <1>5 DEF Clearing
  <2> QED
    BY <1>1, <1>2, <1>4, <2>1 DEF LiveListed
<1>8. ListedLive'
  <2>1. \A k \in Keys, i \in Idx : Row(k, i)' <=> Row(k, i)
    BY <1>4 DEF Row
  <2>2. \A k \in Keys, i \in Idx, l \in RxLcores : FillsKey(l, k, i)' <=> FillsKey(l, k, i)
    BY <1>1 DEF FillsKey
  <2> QED
    BY <1>1, <1>2, <2>1, <2>2 DEF ListedLive
<1>9. FlushHas'
  BY <1>3, <1>4, <1>5 DEF FlushHas
<1> QED
  BY <1>4, <1>6, <1>7, <1>8, <1>9 DEF TableOk, n

LEMMA FlushDelTable ==
  ASSUME NetTyped, TableOk, FlushDel, TableCalm'
  PROVE  /\ TableOk' /\ Flushes("clear", flush.n) /\ flush.idx = flush.n
         /\ cause' = cause \cup Early(flush.n) \cup Excuse("undone", Filling(flush.n))
<1> DEFINE n == flush.n
           k == ent[n].key
<1>0. flush.at = "del" /\ n \in Idx /\ UNCHANGED <<ent, dpi>>
  BY FlushDels, FlushRow
<1>1. /\ OneIndex /\ FillsOwn /\ StatusKey /\ LiveListed /\ ListedLive /\ FlushHas
      /\ \A l \in RxLcores : DpiOk(l)
  BY DEF TableOk, NetTyped
<1>2. flush.idx = n /\ ent[n].status = 1 /\ k \in Keys /\ tab[k] = n /\ n # None
  BY <1>0, <1>1, NetConstants DEF FlushHas, LiveListed, Clearing
<1>3. /\ tab' = [tab EXCEPT ![k] = None] /\ Flushes("clear", n)
      /\ cause' = cause \cup Early(n) \cup Excuse("undone", Filling(n))
  BY <1>2, FlushDels
<1>4. tab'[k] = None /\ \A c \in Keys : c # k => tab'[c] = tab[c]
  BY <1>2, <1>3 DEF NetTyped
<1>5. flush'.at = "clear" /\ flush'.idx = n /\ flush'.n = n
  BY <1>3 DEF Flushes
<1>6. ~Filling(n)
  BY <1>3 DEF TableCalm, Excuse
<1>7. k = ent[n].key /\ n = flush.n
  OBVIOUS
<1> HIDE DEF n, k
<1>8. \A c \in Keys : tab[c] = n => c = k
  BY <1>1, <1>2 DEF OneIndex
<1>9. OneIndex'
  <2> SUFFICES ASSUME NEW c \in Keys, NEW d \in Keys, tab'[c] # None, tab'[c] = tab'[d] PROVE c = d
    BY DEF OneIndex
  <2>1. c # k /\ d # k /\ tab[c] # None /\ tab[c] = tab[d]
    BY <1>4
  <2> QED
    BY <1>1, <2>1 DEF OneIndex
<1>10. FillsOwn'
  <2> SUFFICES ASSUME NEW l \in RxLcores, dpi[l].at \in {"fill", "status"}
               PROVE  tab'[dpi[l].key] = dpi[l].idx
    BY <1>0 DEF FillsOwn
  <2>1. dpi[l].key \in Keys /\ tab[dpi[l].key] = dpi[l].idx /\ dpi[l].idx # n
    BY <1>1, <1>6 DEF FillsOwn, DpiOk, Filling
  <2> QED
    BY <1>2, <1>4, <2>1
<1>11. StatusKey'
  BY <1>0, <1>1 DEF StatusKey
<1>12. LiveListed'
  <2> SUFFICES ASSUME NEW i \in Idx, ent[i].status = 1
               PROVE  ent[i].key \in Keys /\ (Clearing(i)' \/ tab'[ent[i].key] = i)
    BY <1>0 DEF LiveListed
  <2>1. ent[i].key \in Keys /\ tab[ent[i].key] = i
    BY <1>0, <1>1 DEF LiveListed, Clearing
  <2>2. CASE i = n
    BY <1>5, <2>1, <2>2 DEF Clearing
  <2>3. CASE i # n
    BY <1>2, <1>4, <2>1, <2>3
  <2> QED
    BY <2>2, <2>3
<1>13. ListedLive'
  <2> SUFFICES ASSUME NEW c \in Keys, NEW i \in Idx, tab'[c] = i
               PROVE  Row(c, i)' \/ \E l \in RxLcores : FillsKey(l, c, i)'
    BY DEF ListedLive
  <2>1. tab[c] = i
    BY <1>4, NetConstants
  <2>2. Row(c, i)' <=> Row(c, i)
    BY <1>0 DEF Row
  <2>3. \A l \in RxLcores : FillsKey(l, c, i)' <=> FillsKey(l, c, i)
    BY <1>0 DEF FillsKey
  <2> QED
    BY <1>1, <2>1, <2>2, <2>3 DEF ListedLive
<1>14. FlushHas'
  <2>1. \A c \in Keys : tab'[c] # n
    BY <1>2, <1>4, <1>8
  <2> QED
    BY <1>5, <2>1 DEF FlushHas
<1>15. TableOk'
  BY <1>9, <1>10, <1>11, <1>12, <1>13, <1>14 DEF TableOk
<1> QED
  BY <1>2, <1>3, <1>15 DEF n

LEMMA FlushClearTable ==
  ASSUME NetTyped, TableOk, FlushClear
  PROVE  TableOk'
<1> DEFINE n == flush.n
<1>0. /\ OneIndex /\ FillsOwn /\ StatusKey /\ LiveListed /\ ListedLive /\ FlushHas
      /\ \A l \in RxLcores : DpiOk(l)
  BY DEF TableOk, NetTyped
<1>1. flush.at = "clear" /\ n \in Idx /\ flush.idx = n /\ UNCHANGED <<tab, dpi>>
  BY <1>0, FlushRow DEF FlushClear, FlushHas
<1>2. RowWritten(n) /\ ent'[n].status = 0
  BY <1>1, RowCleared DEF FlushClear, AfterFlush
<1>3. flush'.at \in {"idle", "scan"}
  BY FlushMoves DEF FlushClear, Goes
<1>4. n = flush.n
  OBVIOUS
<1> HIDE DEF n
<1>5. \A k \in Keys : tab[k] # n
  BY <1>0, <1>1, <1>4 DEF FlushHas
<1>6. OneIndex' /\ FillsOwn'
  BY <1>0, <1>1 DEF OneIndex, FillsOwn
<1>7. StatusKey'
  <2> SUFFICES ASSUME NEW l \in RxLcores, dpi[l].at = "status" PROVE ent'[dpi[l].idx].key = dpi[l].key
    BY <1>1 DEF StatusKey
  <2>1. /\ dpi[l].key \in Keys /\ dpi[l].idx \in Idx /\ tab[dpi[l].key] = dpi[l].idx
        /\ ent[dpi[l].idx].key = dpi[l].key
    BY <1>0 DEF DpiOk, FillsOwn, StatusKey
  <2> QED
    BY <1>2, <1>5, <2>1 DEF RowWritten
<1>8. LiveListed'
  <2> SUFFICES ASSUME NEW i \in Idx, ent'[i].status = 1
               PROVE  ent'[i].key \in Keys /\ tab[ent'[i].key] = i
    BY <1>1 DEF LiveListed
  <2>1. i # n /\ ent'[i] = ent[i]
    BY <1>2 DEF RowWritten
  <2> QED
    BY <1>0, <1>1, <2>1 DEF LiveListed, Clearing
<1>9. ListedLive'
  <2> SUFFICES ASSUME NEW k \in Keys, NEW i \in Idx, tab[k] = i
               PROVE  Row(k, i)' \/ \E l \in RxLcores : FillsKey(l, k, i)'
    BY <1>1 DEF ListedLive
  <2>1. i # n /\ ent'[i] = ent[i]
    BY <1>2, <1>5 DEF RowWritten
  <2>2. Row(k, i)' <=> Row(k, i)
    BY <2>1 DEF Row
  <2>3. \A l \in RxLcores : FillsKey(l, k, i)' <=> FillsKey(l, k, i)
    BY <1>1 DEF FillsKey
  <2> QED
    BY <1>0, <2>2, <2>3 DEF ListedLive
<1>10. FlushHas'
  BY <1>3 DEF FlushHas
<1> QED
  BY <1>6, <1>7, <1>8, <1>9, <1>10 DEF TableOk

LEMMA NextTableInv == ASSUME NetTyped, TableInv, NetNext PROVE TableInv'
<1> SUFFICES ASSUME TableCalm' PROVE TableOk'
  BY DEF TableInv
<1>0. cause \subseteq cause'
  BY ZenonT(30) DEF NetNext, Tick, Dpi, DpiLookup, DpiHit, DpiAdd, DpiFill, DpiStatus, DpiStamp, PushFails, Push,
     PushHead, PushWalk, PushLink, FlushStart, FlushScan, FlushAge, FlushLook, FlushDel, FlushClear, Pop,
     PopNextRead, Take, Insert
<1>1. TableOk
  BY <1>0, Calms
<1>2. ASSUME NEW l \in RxLcores, NEW a, Moved(l, a), {dpi[l].at, a} \cap {"fill", "status"} = {},
             \A i \in Idx : ent'[i].status = ent[i].status /\ ent'[i].key = ent[i].key,
             UNCHANGED <<tab, flush>>
      PROVE  TableOk'
  <2>1. \A m \in RxLcores : \/ dpi'[m] = dpi[m]
                            \/ {dpi[m].at, dpi'[m].at} \cap {"fill", "status"} = {}
    BY <1>2 DEF Moved
  <2> QED
    BY <1>1, <1>2, <2>1, TableFrame
<1>3. ASSUME NEW l \in RxLcores, Dpi(l) \/ DpiLookup(l) \/ PushFails(l) \/ Push(l) \/ PushHead(l)
                                 \/ PushWalk(l) \/ PushLink(l)
      PROVE  TableOk'
  <2>1. dpi[l].at \notin {"fill", "status"} /\ UNCHANGED <<tab, flush, ent>>
    BY <1>3 DEF Dpi, DpiLookup, PushFails, Push, PushHead, PushWalk, PushLink
  <2>2. PICK a \in {"lookup", "add", "hit", "idle", "head", "walk", "link"} : Moved(l, a)
    <3>1. PushFails(l) \/ PushHead(l) \/ PushLink(l) => dpi' = [dpi EXCEPT ![l] = Idle]
      BY DEF PushFails, PushHead, PushLink
    <3> QED
      BY <1>3, <3>1, DpiMoves
  <2>3. {dpi[l].at, a} \cap {"fill", "status"} = {}
    BY <2>1, <2>2
  <2> QED
    BY <1>2, <2>1, <2>2, <2>3
<1>4. ASSUME NEW l \in RxLcores, DpiHit(l) \/ DpiStamp(l) PROVE TableOk'
  <2>1. PICK i \in Idx : i = dpi[l].idx
    BY <1>4 DEF NetTyped, DpiHit, DpiStamp, DpiOk
  <2>2. PICK a \in {"idle", "push"} : Moved(l, a)
    BY <1>4, DpiMoves DEF DpiHit
  <2>3. \A j \in Idx : ent'[j].status = ent[j].status /\ ent'[j].key = ent[j].key
    BY <1>4, <2>1, RowWrites DEF RowWritten
  <2>4. {dpi[l].at, a} \cap {"fill", "status"} = {} /\ UNCHANGED <<tab, flush>>
    BY <1>4, <2>2 DEF DpiHit, DpiStamp
  <2> QED
    BY <1>2, <2>2, <2>3, <2>4
<1>5. CASE Tick \/ Pop \/ PopNextRead \/ Take \/ Insert
  <2>1. UNCHANGED <<tab, ent, dpi, flush>>
    BY <1>5 DEF Tick, Pop, PopNextRead, Take, Insert
  <2> QED
    BY <1>1, <2>1, TableFrame
<1>6. CASE FlushStart \/ FlushScan \/ FlushAge
  <2>1. UNCHANGED <<tab, ent, dpi>> /\ flush.at # "clear"
    BY <1>6 DEF FlushStart, FlushScan, FlushAge
  <2>2. \/ flush'.at \in {"idle", "scan"}
        \/ flush'.at \in {"age", "look"} /\ flush'.n = flush.n /\ ent[flush.n].status = 1
    <3>1. CASE FlushStart
      BY <3>1, FlushMoves DEF Goes
    <3>2. CASE FlushScan
      BY <3>2, FlushMoves DEF FlushScan, Goes, Flushes
    <3>3. CASE FlushAge
      <4>1. ent[flush.n].status = 1
        BY <1>1, <3>3 DEF TableOk, FlushHas, FlushAge
      <4> QED
        BY <3>3, <4>1, FlushMoves DEF FlushAge, Goes, Flushes
    <3> QED
      BY <1>6, <3>1, <3>2, <3>3
  <2> QED
    BY <1>1, <2>1, <2>2, TableFrame
<1> QED
  BY <1>1, <1>3, <1>4, <1>5, <1>6, DpiAddTable, DpiFillTable, DpiStatusTable, FlushLookTable,
     FlushDelTable, FlushClearTable DEF NetNext

LEMMA InitTableInv == ASSUME NetInit PROVE TableInv
<1>1. \A l \in RxLcores : dpi[l].at = "idle"
  BY DEF NetInit, Idle
<1>2. \A i \in Idx : ent[i].status = 0
  BY DEF NetInit, Cleared
<1>3. flush.at = "idle" /\ \A k \in Keys : tab[k] = None
  BY DEF NetInit, Sleeping
<1>4. OneIndex /\ FillsOwn /\ StatusKey /\ LiveListed /\ FlushHas
  BY <1>1, <1>2, <1>3 DEF OneIndex, FillsOwn, StatusKey, LiveListed, FlushHas
<1>5. ListedLive
  BY <1>3, NetConstants DEF ListedLive
<1> QED
  BY <1>4, <1>5 DEF TableInv, TableOk

LEMMA TableIsExact == ASSUME NetTyped, TableInv PROVE TableExact
<1> SUFFICES ASSUME TableCalm, NEW i \in Idx, ~Filling(i), ~Clearing(i), NEW k \in Keys
             PROVE  tab[k] = i <=> ent[i].status = 1 /\ ent[i].key = k
  BY DEF TableExact, TableCalm
<1>1. OneIndex /\ LiveListed /\ ListedLive
  BY DEF TableInv, TableOk
<1>2. tab[k] = i => Row(k, i)
  BY <1>1 DEF ListedLive, FillsKey, Filling
<1>3. Row(k, i) => tab[k] = i
  BY <1>1 DEF LiveListed, Row
<1> QED
  BY <1>2, <1>3 DEF Row
-----------------------------------------------------------------------------
(* What the rows tell of the last packet, unless a time was set back: no   *)
(* row is older than its last packet, but for an lcore that has still to   *)
(* write its time; and a row the flush thread has taken for idle is idle.  *)
Writing(l, i) == dpi[l].at \in {"status", "stamp"} /\ dpi[l].idx = i /\ dpi[l].time >= ent[i].seen

SeenOk == "back" \notin cause =>
  \A i \in Idx : ent[i].seen <= ent[i].last \/ \E l \in RxLcores : Writing(l, i)

OnTime == TableCalm /\ cause \cap {"fill", "clock", "back", "refresh"} = {}

DoomedOk == OnTime => \A i \in Idx : Doomed(i) => now - ent[i].seen > TIMEOUT

TimeInv == SeenOk /\ DoomedOk /\ FlushedInTime

LEMMA TimeTypes ==
  ASSUME NetTyped
  PROVE  /\ now \in Nat /\ TIMEOUT \in Nat /\ flush.curr \in Nat /\ flush.curr <= now /\ flush.n \in Idx
         /\ \A i \in Idx : ent[i].last \in Nat /\ ent[i].seen \in Nat
         /\ \A l \in RxLcores : dpi[l].time \in Nat
<1>1. \A i \in Idx : ent[i] \in Rows
  BY DEF NetTyped
<1>2. \A l \in RxLcores : dpi[l] \in DpiVars
  BY DEF NetTyped
<1>3. flush \in FlushVars /\ FlushOk /\ now \in Nat
  BY NetConstants DEF NetTyped
<1>4. \A i \in Idx : ent[i].last \in Nat /\ ent[i].seen \in Nat
  BY <1>1 DEF Rows
<1>5. \A l \in RxLcores : dpi[l].time \in Nat
  BY <1>2 DEF DpiVars
<1> QED
  BY <1>3, <1>4, <1>5, NetConstants DEF FlushVars, FlushOk

(* Steps that write no time and move no lcore to or from a write of one.   *)
LEMMA SeenFrame ==
  ASSUME NetTyped, SeenOk, cause \subseteq cause',
         \A i \in Idx : \/ ent'[i].seen = ent[i].seen /\ ent'[i].last = ent[i].last
                        \/ ent'[i].seen = 0 /\ ent'[i].last = 0,
         \A l \in RxLcores : \/ dpi'[l] = dpi[l]
                             \/ {dpi[l].at, dpi'[l].at} \cap {"status", "stamp"} = {}
  PROVE  SeenOk'
<1> SUFFICES ASSUME "back" \notin cause', NEW i \in Idx
             PROVE  ent'[i].seen <= ent'[i].last \/ \E l \in RxLcores : Writing(l, i)'
  BY DEF SeenOk
<1>1. ent[i].seen <= ent[i].last \/ \E l \in RxLcores : Writing(l, i)
  BY DEF SeenOk
<1>2. CASE ent'[i].seen = 0 /\ ent'[i].last = 0
  BY <1>2
<1>3. CASE ent'[i].seen = ent[i].seen /\ ent'[i].last = ent[i].last
  <2>1. \A l \in RxLcores : Writing(l, i) => Writing(l, i)'
    BY <1>3 DEF Writing
  <2> QED
    BY <1>1, <1>3, <2>1
<1> QED
  BY <1>2, <1>3

LEMMA DpiSeen ==
  ASSUME NetTyped, SeenOk, NEW l \in RxLcores, DpiHit(l) \/ DpiFill(l) \/ DpiStatus(l) \/ DpiStamp(l)
  PROVE  SeenOk'
<1> SUFFICES ASSUME "back" \notin cause', NEW i \in Idx
             PROVE  ent'[i].seen <= ent'[i].last \/ \E m \in RxLcores : Writing(m, i)'
  BY DEF SeenOk
<1>0. /\ ent[i].last \in Nat /\ ent[i].seen \in Nat /\ dpi[l].time \in Nat
      /\ \A m \in RxLcores : dpi[m].time \in Nat
  BY TimeTypes
<1>1. ent[i].seen <= ent[i].last \/ \E m \in RxLcores : Writing(m, i)
  BY DEF SeenOk, DpiHit, DpiFill, DpiStatus, DpiStamp
<1>2. PICK j \in Idx : j = dpi[l].idx
  BY DEF NetTyped, DpiHit, DpiFill, DpiStatus, DpiStamp, DpiOk
<1>3. \A m \in RxLcores : m # l => dpi'[m] = dpi[m]
  BY DpiMoves DEF Moved, DpiHit
<1>4. RowWritten(j)
  BY <1>2, RowWrites
<1>5. CASE i # j
  <2>1. ent'[i] = ent[i]
    BY <1>4, <1>5 DEF RowWritten
  <2>2. ~Writing(l, i)
    BY <1>2, <1>5 DEF Writing
  <2>3. \A m \in RxLcores : Writing(m, i) => Writing(m, i)'
    BY <1>3, <2>1, <2>2 DEF Writing
  <2> QED
    BY <1>1, <2>1, <2>3
<1>6. CASE i = j
  <2>1. CASE DpiHit(l)
    <3>1. /\ ent'[i].last = dpi[l].time
          /\ ent'[i].seen = IF ent[i].seen < dpi[l].time THEN dpi[l].time ELSE ent[i].seen
      BY <1>2, <1>6, <2>1, RowWrites
    <3>2. dpi[l].at = "hit" /\ ~(dpi[l].time < ent[i].last)
      BY <1>2, <1>6, <2>1 DEF DpiHit, Excuse
    <3>3. CASE ent[i].seen <= dpi[l].time
      BY <1>0, <3>1, <3>3
    <3>4. CASE ~(ent[i].seen <= dpi[l].time)
      <4>1. ent'[i].seen = ent[i].seen /\ ~(ent[i].seen <= ent[i].last)
        BY <1>0, <3>1, <3>2, <3>4
      <4>2. PICK m \in RxLcores : Writing(m, i)
        BY <1>1, <4>1
      <4>3. Writing(m, i)'
        BY <1>3, <3>2, <4>1, <4>2 DEF Writing
      <4> QED
        BY <4>3
    <3> QED
      BY <3>3, <3>4
  <2>2. CASE DpiFill(l)
    <3>1. ent'[i].seen = dpi[l].time
      BY <1>2, <1>6, <2>2, RowWrites
    <3>2. dpi'[l].at = "status" /\ dpi'[l].idx = i /\ dpi'[l].time = dpi[l].time
      BY <1>2, <1>6, <2>2, DpiMoves DEF Moved, SameKey
    <3> QED
      BY <1>0, <3>1, <3>2 DEF Writing
  <2>3. CASE DpiStatus(l)
    <3>1. ent'[i].seen = ent[i].seen /\ ent'[i].last = ent[i].last
      BY <1>2, <1>6, <2>3, RowWrites
    <3>2. dpi'[l].at = "stamp" /\ dpi'[l].idx = dpi[l].idx /\ dpi'[l].time = dpi[l].time
      BY <2>3, DpiMoves DEF Moved, SameKey
    <3>3. \A m \in RxLcores : Writing(m, i) => Writing(m, i)'
      BY <1>3, <3>1, <3>2 DEF Writing
    <3> QED
      BY <1>1, <3>1, <3>3
  <2>4. CASE DpiStamp(l)
    <3>1. ent'[i].last = dpi[l].time /\ ent'[i].seen = ent[i].seen
      BY <1>2, <1>6, <2>4, RowWrites
    <3>2. ~(dpi[l].time < ent[i].last)
      BY <1>2, <1>6, <2>4 DEF DpiStamp, Excuse
    <3>3. CASE ent[i].seen <= dpi[l].time
      BY <3>1, <3>3
    <3>4. CASE ~(ent[i].seen <= dpi[l].time)
      <4>1. ~(ent[i].seen <= ent[i].last)
        BY <1>0, <3>2, <3>4
      <4>2. PICK m \in RxLcores : Writing(m, i)
        BY <1>1, <4>1
      <4>3. m # l
        BY <1>0, <3>4, <4>2 DEF Writing
      <4>4. Writing(m, i)'
        BY <1>3, <3>1, <4>2, <4>3 DEF Writing
      <4> QED
        BY <4>4
    <3> QED
      BY <3>3, <3>4
  <2> QED
    BY <2>1, <2>2, <2>3, <2>4
<1> QED
  BY <1>5, <1>6
-----------------------------------------------------------------------------
(* Steps after which no other row is taken for idle, and that write no     *)
(* time of one that is.                                                    *)
LEMMA DoomedFrame ==
  ASSUME NetTyped, TimeInv, cause \subseteq cause', now' \in Nat, now <= now',
         OnTime' => \A i \in Idx : Doomed(i)' => Doomed(i) /\ ent'[i].seen = ent[i].seen,
         "early" \in cause' => "early" \in cause
  PROVE  DoomedOk' /\ FlushedInTime'
<1>1. OnTime' => OnTime
  BY DEF OnTime, TableCalm
<1>2. DoomedOk'
  <2> SUFFICES ASSUME OnTime', NEW i \in Idx, Doomed(i)' PROVE now' - ent'[i].seen > TIMEOUT
    BY DEF DoomedOk
  <2>1. Doomed(i) /\ ent'[i].seen = ent[i].seen
    OBVIOUS
  <2>2. now - ent[i].seen > TIMEOUT
    BY <1>1, <2>1 DEF TimeInv, DoomedOk
  <2> QED
    BY <2>1, <2>2, TimeTypes
<1>3. FlushedInTime'
  BY DEF TimeInv, FlushedInTime
<1> QED
  BY <1>2, <1>3

LEMMA DpiDoomed ==
  ASSUME NetTyped, TimeInv, NEW l \in RxLcores,
         DpiHit(l) \/ DpiAdd(l) \/ DpiFill(l) \/ DpiStatus(l) \/ DpiStamp(l)
  PROVE  DoomedOk' /\ FlushedInTime'
<1>1. cause \subseteq cause' /\ flush' = flush /\ now' = now
  BY Zenon DEF DpiHit, DpiAdd, DpiFill, DpiStatus, DpiStamp
<1>2. "early" \in cause' => "early" \in cause
  <2>1. cause' \subseteq cause \cup {"reused", "refresh", "back", "late"}
    <3>1. DpiAdd(l) => cause' \subseteq cause \cup {"reused"}
      BY DEF DpiAdd, Excuse
    <3>2. DpiFill(l) => cause' \subseteq cause \cup {"refresh", "late"}
      BY DEF DpiFill, Late, Excuse
    <3>3. DpiHit(l) \/ DpiStamp(l) => cause' \subseteq cause \cup {"refresh", "back"}
      BY DEF DpiHit, DpiStamp, Excuse
    <3>4. DpiStatus(l) => cause' = cause
      BY DEF DpiStatus
    <3> QED
      BY <3>1, <3>2, <3>3, <3>4
  <2> QED
    BY <2>1
<1>3. ASSUME NEW i \in Idx PROVE Doomed(i)' <=> Doomed(i)
  BY <1>1 DEF Doomed
<1>4. ASSUME OnTime', NEW i \in Idx, Doomed(i)' PROVE ent'[i].seen = ent[i].seen
  <2>1. CASE DpiAdd(l)
    BY <2>1 DEF DpiAdd
  <2>2. CASE ~DpiAdd(l)
    <3>1. PICK j \in Idx : j = dpi[l].idx
      BY <2>2, Zenon DEF NetTyped, DpiHit, DpiFill, DpiStatus, DpiStamp, DpiOk
    <3>2. RowWritten(j) /\ (DpiStatus(l) \/ DpiStamp(l) => ent'[j].seen = ent[j].seen)
      BY <2>2, <3>1, RowWrites
    <3>3. DpiHit(l) \/ DpiFill(l) => ~Doomed(j)
      BY <1>4, <3>1, Zenon DEF DpiHit, DpiFill, Excuse, OnTime
    <3>4. DpiHit(l) \/ DpiFill(l) => i # j
      BY <1>3, <1>4, <3>3
    <3> QED
      BY <2>2, <3>2, <3>4 DEF RowWritten
  <2> QED
    BY <2>1, <2>2
<1>5. now' \in Nat /\ now <= now'
  BY <1>1, TimeTypes
<1> QED
  BY SMTT(30), <1>1, <1>2, <1>3, <1>4, <1>5, DoomedFrame

LEMMA FlushAgeDoomed ==
  ASSUME NetTyped, TimeInv, FlushAge
  PROVE  DoomedOk' /\ FlushedInTime'
<1>0. UNCHANGED <<now, ent>> /\ cause \subseteq cause' /\ ("early" \in cause' => "early" \in cause)
  BY DEF FlushAge, Excuse
<1>1. FlushedInTime'
  BY <1>0 DEF TimeInv, FlushedInTime
<1>2. DoomedOk'
  <2> SUFFICES ASSUME OnTime', NEW i \in Idx, Doomed(i)' PROVE now - ent[i].seen > TIMEOUT
    BY <1>0 DEF DoomedOk
  <2>1. CASE Goes
    BY <2>1 DEF Goes, Doomed
  <2>2. CASE ~Goes
    <3>1. /\ Expired(flush.n) /\ flush' = [flush EXCEPT !.at = "look"]
          /\ cause' = cause \cup Excuse("clock", ent[flush.n].last > flush.curr)
                            \cup Excuse("fill", Unstamped(flush.n))
      BY <2>2, FlushMoves DEF FlushAge
    <3>2. Flushes("look", flush.idx)
      BY <3>1, FlushMoves
    <3>3. i = flush.n
      BY <3>2 DEF Flushes, Doomed
    <3>4. ~(ent[i].last > flush.curr) /\ ~Unstamped(i) /\ "back" \notin cause
      BY <3>1, <3>3 DEF OnTime, Excuse
    <3>5. ent[i].seen <= ent[i].last
      BY <3>4 DEF TimeInv, SeenOk, Writing, Unstamped
    <3>6. flush.curr - ent[i].last > TIMEOUT
      BY <3>1, <3>3, <3>4 DEF Expired
    <3> QED
      BY <3>5, <3>6, TimeTypes
  <2> QED
    BY <2>1, <2>2
<1> QED
  BY <1>1, <1>2

LEMMA FlushDoomed ==
  ASSUME NetTyped, TableInv, TimeInv, FlushLook \/ FlushDel \/ FlushClear
  PROVE  DoomedOk' /\ FlushedInTime'
<1> DEFINE n == flush.n
<1>0. cause \subseteq cause' /\ now' = now
  BY DEF FlushLook, FlushDel, FlushClear
<1>1. CASE ~TableCalm'
  <2>1. "early" \in cause' => cause' \cap {"fill", "clock", "back", "refresh", "reused", "undone"} # {}
    BY <1>1 DEF TableCalm
  <2> QED
    BY <1>1, <2>1 DEF DoomedOk, OnTime, FlushedInTime
<1>2. CASE TableCalm'
  <2>1. TableOk
    BY <1>0, <1>2, Calms
  <2>2. CASE FlushLook
    <3>1. Flushes("del", n) /\ UNCHANGED <<ent, cause>> /\ flush.at = "look"
      BY <2>1, <2>2, FlushLookTable DEF FlushLook
    <3>2. \A i \in Idx : Doomed(i)' => Doomed(i)
      BY <3>1 DEF Flushes, Doomed
    <3> QED
      BY <1>0, <3>1, <3>2, TimeTypes, DoomedFrame
  <2>3. n \in Idx /\ (flush.at \in {"del", "clear"} => flush.idx = n)
    BY <2>1, TimeTypes DEF TableOk, FlushHas
  <2>4. OnTime /\ flush.at \in {"del", "clear"} => Early(n) = {}
    <3>1. OnTime /\ flush.at \in {"del", "clear"} => now - ent[n].seen > TIMEOUT
      BY <2>3 DEF TimeInv, DoomedOk, Doomed
    <3> QED
      BY <2>3, <3>1, TimeTypes DEF Early, Excuse
  <2>5. ASSUME flush.at \in {"del", "clear"}, cause' \subseteq cause \cup Early(n) \cup {"late", "undone"}
        PROVE  FlushedInTime'
    <3>1. CASE OnTime
      BY <1>0, <2>4, <2>5, <3>1 DEF TimeInv, FlushedInTime
    <3>2. CASE ~OnTime
      BY <1>0, <3>2 DEF OnTime, TableCalm, FlushedInTime
    <3> QED
      BY <3>1, <3>2
  <2>6. CASE FlushDel
    <3>1. /\ Flushes("clear", n) /\ flush.idx = n /\ flush.at = "del" /\ ent' = ent
          /\ cause' = cause \cup Early(n) \cup Excuse("undone", Filling(n))
      BY <1>2, <2>1, <2>6, FlushDelTable DEF FlushDel
    <3>2. FlushedInTime'
      BY <2>5, <3>1 DEF Excuse
    <3>3. OnTime' => OnTime
      BY <1>0 DEF OnTime, TableCalm
    <3>4. \A i \in Idx : Doomed(i)' => Doomed(i)
      BY <3>1 DEF Flushes, Doomed
    <3>5. DoomedOk'
      BY <1>0, <3>1, <3>3, <3>4 DEF TimeInv, DoomedOk
    <3> QED
      BY SMTT(30), <3>2, <3>5
  <2>7. CASE FlushClear
    <3>1. Goes /\ flush.at = "clear" /\ cause' = cause \cup Early(n) \cup Late(n)
      BY <2>3, <2>7, FlushMoves DEF FlushClear
    <3>2. FlushedInTime'
      BY <2>5, <3>1 DEF Late, Excuse
    <3>3. DoomedOk'
      BY <3>1 DEF DoomedOk, Doomed, Goes
    <3> QED
      BY <3>2, <3>3
  <2> QED
    BY <2>2, <2>6, <2>7
<1> QED
  BY <1>1, <1>2

LEMMA NextTimeInv == ASSUME NetTyped, TableInv, TimeInv, NetNext PROVE TimeInv'
<1>0. SeenOk
  BY DEF TimeInv
<1>1. ASSUME NEW l \in RxLcores, DpiHit(l) \/ DpiFill(l) \/ DpiStatus(l) \/ DpiStamp(l) PROVE TimeInv'
  BY <1>0, <1>1, DpiSeen, DpiDoomed DEF TimeInv
<1>2. ASSUME NEW l \in RxLcores, UNCHANGED ent, cause \subseteq cause', NEW a, Moved(l, a),
             {dpi[l].at, a} \cap {"status", "stamp"} = {}
      PROVE  SeenOk'
  <2>1. \A m \in RxLcores : \/ dpi'[m] = dpi[m]
                            \/ {dpi[m].at, dpi'[m].at} \cap {"status", "stamp"} = {}
    BY <1>2 DEF Moved
  <2> QED
    BY <1>0, <1>2, <2>1, SeenFrame
<1>3. ASSUME NEW l \in RxLcores, Dpi(l) \/ DpiLookup(l) \/ PushFails(l) \/ Push(l) \/ PushHead(l)
                                 \/ PushWalk(l) \/ PushLink(l)
      PROVE  TimeInv'
  <2>1. dpi[l].at \notin {"status", "stamp"} /\ UNCHANGED <<now, flush, ent>> /\ cause \subseteq cause'
    BY <1>3 DEF Dpi, DpiLookup, PushFails, Push, PushHead, PushWalk, PushLink
  <2>2. PICK a \in {"lookup", "add", "hit", "idle", "head", "walk", "link"} : Moved(l, a)
    <3>1. PushFails(l) \/ PushHead(l) \/ PushLink(l) => dpi' = [dpi EXCEPT ![l] = Idle]
      BY DEF PushFails, PushHead, PushLink
    <3> QED
      BY <1>3, <3>1, DpiMoves
  <2>3. SeenOk'
    BY <1>2, <2>1, <2>2
  <2>4. "early" \in cause' => "early" \in cause
    BY <1>3 DEF Dpi, DpiLookup, PushFails, Push, PushHead, PushWalk, PushLink, Excuse
  <2>5. \A i \in Idx : Doomed(i)' => Doomed(i)
    BY <2>1 DEF Doomed
  <2> QED
    BY <2>1, <2>3, <2>4, <2>5, TimeTypes, DoomedFrame DEF TimeInv
<1>4. ASSUME NEW l \in RxLcores, DpiAdd(l) PROVE TimeInv'
  <2>1. UNCHANGED ent /\ cause \subseteq cause' /\ dpi[l].at = "add"
    BY <1>4 DEF DpiAdd
  <2>2. PICK a \in {"fill", "idle"} : Moved(l, a)
    BY <1>4, DpiAdds DEF Added
  <2>3. SeenOk'
    BY <1>2, <2>1, <2>2
  <2> QED
    BY <1>4, <2>3, DpiDoomed DEF TimeInv
<1>5. CASE Tick \/ Pop \/ PopNextRead \/ Take \/ Insert
  <2>1. /\ UNCHANGED <<ent, dpi, flush>> /\ now' \in {now, now + 1} /\ cause \subseteq cause'
        /\ ("early" \in cause' => "early" \in cause)
    BY <1>5 DEF Tick, Pop, PopNextRead, Take, Insert, Excuse
  <2>2. SeenOk'
    BY <1>0, <2>1, SeenFrame
  <2>3. now' \in Nat /\ now <= now'
    BY <2>1, TimeTypes
  <2>4. \A i \in Idx : Doomed(i)' => Doomed(i)
    BY <2>1 DEF Doomed
  <2> QED
    BY <2>1, <2>2, <2>3, <2>4, DoomedFrame DEF TimeInv
<1>6. CASE FlushStart \/ FlushScan
  <2>1. UNCHANGED <<now, ent, dpi, cause>>
    BY <1>6 DEF FlushStart, FlushScan
  <2>2. flush'.at \in {"idle", "scan", "age"}
    BY <1>6, FlushMoves DEF FlushScan, Goes, Flushes
  <2>3. SeenOk'
    BY <1>0, <2>1, SeenFrame
  <2>4. \A i \in Idx : ~Doomed(i)'
    BY <2>2 DEF Doomed
  <2> QED
    BY <2>1, <2>3, <2>4, TimeTypes, DoomedFrame DEF TimeInv
<1>7. CASE FlushAge \/ FlushLook \/ FlushDel \/ FlushClear
  <2>1. UNCHANGED dpi /\ cause \subseteq cause'
    BY <1>7 DEF FlushAge, FlushLook, FlushDel, FlushClear
  <2>2. \A i \in Idx : \/ ent'[i].seen = ent[i].seen /\ ent'[i].last = ent[i].last
                       \/ ent'[i].seen = 0 /\ ent'[i].last = 0
    <3>1. \/ ent' = ent
          \/ \E i \in Idx : ent' = [ent EXCEPT ![i] = Cleared]
      BY <1>7, TimeTypes DEF FlushAge, FlushLook, FlushDel, FlushClear, AfterFlush, NetTyped, FlushOk
    <3>2. ASSUME NEW i \in Idx, ent' = [ent EXCEPT ![i] = Cleared]
          PROVE  \A j \in Idx : \/ ent'[j].seen = ent[j].seen /\ ent'[j].last = ent[j].last
                                \/ ent'[j].seen = 0 /\ ent'[j].last = 0
      BY <3>2, RowCleared DEF RowWritten
    <3> QED
      BY <3>1, <3>2
  <2>3. SeenOk'
    BY <1>0, <2>1, <2>2, SeenFrame
  <2> QED
    BY <1>7, <2>3, FlushAgeDoomed, FlushDoomed DEF TimeInv
<1> QED
  BY <1>1, <1>3, <1>4, <1>5, <1>6, <1>7 DEF NetNext

LEMMA InitTimeInv == ASSUME NetInit PROVE TimeInv
<1>1. \A i \in Idx : ent[i].seen = 0 /\ ent[i].last = 0
  BY DEF NetInit, Cleared
<1>2. flush.at = "idle" /\ cause = {}
  BY DEF NetInit, Sleeping
<1> QED
  BY <1>1, <1>2 DEF TimeInv, SeenOk, DoomedOk, FlushedInTime, Doomed
-----------------------------------------------------------------------------
NetInv == NetTyped /\ TableInv /\ TimeInv

LEMMA InitNetInv == NetInit => NetInv
  BY InitNetTyped, InitTableInv, InitTimeInv DEF NetInv

LEMMA NextNetInv == ASSUME NetInv, [NetNext]_nvars PROVE NetInv'
<1>1. NetTyped /\ TableInv /\ TimeInv
  BY DEF NetInv
<1>2. CASE NetNext
  BY <1>1, <1>2, NextNetTyped, NextTableInv, NextTimeInv DEF NetInv
<1>3. CASE UNCHANGED nvars
  <2>1. UNCHANGED <<now, tab, ent, dpi, flush, cause>>
    BY <1>3 DEF nvars
  <2>2. NetTyped'
    BY <1>1, <1>3, NextNetTyped
  <2>3. TableInv'
    BY <1>1, <2>1 DEF TableInv, TableCalm, TableOk, OneIndex, FillsOwn, StatusKey, LiveListed, ListedLive,
                      FlushHas, Row, FillsKey, Clearing
  <2>4. TimeInv'
    BY <1>1, <2>1 DEF TimeInv, SeenOk, DoomedOk, OnTime, TableCalm, FlushedInTime, Doomed, Writing
  <2> QED
    BY <2>2, <2>3, <2>4 DEF NetInv
<1> QED
  BY <1>2, <1>3
-----------------------------------------------------------------------------
Places == {"top", "test", "body", "done", "poll",
           "mtu", "mtuSetup", "pause", "ifStop", "ifStart", "resume", "fail"}

(* Where the receive loop answers a request, and where it holds a pause. *)
Answering == {"mtu", "mtuSetup", "pause", "ifStop", "ifStart", "resume", "fail"}
Pausing   == {"ifStop", "ifStart", "resume", "fail"}

KniInv ==
  /\ role \in Roles /\ at \in [KLcores -> Places]
  /\ pause = IF \E l \in KLcores : at[l] \in Pausing THEN 1 ELSE 0
  /\ stop \in 0 .. 1 /\ quit \in BOOLEAN /\ main \in {"run", "wait", "signal", "exited"}
  /\ main \in {"run", "wait"} => stop = 0
  /\ req \in {NoReq, "mtu", "up", "down"} /\ port \in {"started", "stopped"}
  /\ left \in [req : Int, pkt : Nat] /\ kniTx \in Nat /\ kniTx + left.pkt <= MaxKniPkts
  /\ \A l \in KLcores : at[l] \in Answering => role[l] = "kni_rx" /\ req # NoReq

LEMMA InitKniInv == ASSUME KniInit PROVE KniInv
<1>1. at \in [KLcores -> Places] /\ \A l \in KLcores : at[l] \in {"poll", "top"}
  BY DEF KniInit, Places
<1>2. left \in [req : Int, pkt : Nat] /\ left.pkt <= MaxKniPkts
  BY KniAssumption DEF KniInit
<1>3. kniTx \in Nat /\ kniTx + left.pkt <= MaxKniPkts
  BY <1>2 DEF KniInit
<1>4. pause = IF \E l \in KLcores : at[l] \in Pausing THEN 1 ELSE 0
  BY <1>1 DEF KniInit, Pausing
<1>5. \A l \in KLcores : at[l] \notin Answering
  BY <1>1 DEF Answering
<1>6. /\ role \in Roles /\ stop \in 0 .. 1 /\ stop = 0 /\ main = "run" /\ req = NoReq
      /\ port = "started"
  BY DEF KniInit
<1>7. quit \in BOOLEAN
  BY DEF KniInit
<1> QED
  BY <1>1, <1>2, <1>3, <1>4, <1>5, <1>6, <1>7 DEF KniInv

(* No other lcore answers a request. *)
LEMMA OneAnswers ==
  ASSUME KniInv, NEW l \in KLcores, role[l] = "kni_rx"
  PROVE  \A m \in KLcores \ {l} : at[m] \notin Answering
  BY KniAssumption DEF KniInv

LEMMA KernelKni ==
  ASSUME KniInv, Request \/ KernelSends \/ ResetEvent \/ Signal \/ SignalExit \/ MainWait \/ MainExit
  PROVE  KniInv'
<1>1. CASE Request
  <2>1. \A l \in KLcores : at[l] \notin Answering
    BY <1>1 DEF Request, KniInv
  <2>2. left' \in [req : Int, pkt : Nat] /\ left'.pkt = left.pkt
    BY <1>1 DEF Request, KniInv
  <2> QED
    BY <1>1, <2>1, <2>2 DEF Request, KniInv
<1>2. CASE KernelSends
  <2>1. left' \in [req : Int, pkt : Nat] /\ left'.pkt = left.pkt - 1 /\ kniTx' = kniTx + 1
    BY <1>2 DEF KernelSends, KniInv
  <2>2. kniTx' \in Nat /\ kniTx' + left'.pkt <= MaxKniPkts
    BY <2>1, KniAssumption DEF KniInv
  <2> QED
    BY <1>2, <2>1, <2>2 DEF KernelSends, KniInv
<1>3. CASE ResetEvent
  BY <1>3 DEF ResetEvent, KniInv
<1>4. CASE Signal
  BY <1>4 DEF Signal, KniInv
<1>5. CASE SignalExit
  BY <1>5 DEF SignalExit, KniInv
<1>6. CASE MainWait
  BY <1>6 DEF MainWait, KniInv
<1>7. CASE MainExit
  BY <1>7 DEF MainExit, KniInv
<1> QED
  BY <1>1, <1>2, <1>3, <1>4, <1>5, <1>6, <1>7

(* Steps of an lcore that leave the pause, the request and the flags.      *)
LEMMA StepFrame ==
  ASSUME KniInv, NEW l \in KLcores, NEW p \in Places, Goto(l, p),
         at[l] \notin Pausing <=> p \notin Pausing,
         p \in Answering => role[l] = "kni_rx" /\ req # NoReq,
         UNCHANGED <<role, pause, stop, quit, req, left, main>>,
         port' \in {"started", "stopped"}, kniTx' \in {0, kniTx}
  PROVE  KniInv'
<1>1. at' \in [KLcores -> Places] /\ at'[l] = p /\ \A m \in KLcores \ {l} : at'[m] = at[m]
  BY DEF KniInv, Goto
<1>2. (\E m \in KLcores : at'[m] \in Pausing) <=> (\E m \in KLcores : at[m] \in Pausing)
  BY <1>1
<1>3. kniTx' \in Nat /\ kniTx' + left'.pkt <= MaxKniPkts
  <2>1. left.pkt \in Nat /\ kniTx \in Nat /\ MaxKniPkts \in Nat /\ left' = left
    BY KniAssumption DEF KniInv
  <2> QED
    BY <2>1 DEF KniInv
<1>4. \A m \in KLcores : at'[m] \in Answering => role[m] = "kni_rx" /\ req # NoReq
  BY <1>1 DEF KniInv
<1> QED
  BY <1>1, <1>2, <1>3, <1>4 DEF KniInv

LEMMA LcoreKni == ASSUME KniInv, NEW l \in KLcores, Step(l) PROVE KniInv'
<1>1. CASE LoopTop(l)
  <2>1. Goto(l, "test") /\ UNCHANGED <<role, pause, stop, quit, req, left, main, port, kniTx>> /\ at[l] = "top"
    BY <1>1 DEF LoopTop
  <2>2. "test" \in Places /\ "test" \notin Answering /\ "test" \notin Pausing /\ at[l] \notin Pausing
    BY <2>1 DEF Places, Answering, Pausing
  <2>3. port' \in {"started", "stopped"}
    BY <2>1 DEF KniInv
  <2> QED
    BY <2>1, <2>2, <2>3, StepFrame
<1>2. CASE LoopTest(l)
  <2> DEFINE p == IF Body(l) THEN "body" ELSE IF seen[l] > 0 THEN "done" ELSE "top"
  <2>1. Goto(l, p) /\ UNCHANGED <<role, pause, stop, quit, req, left, main, port, kniTx>> /\ at[l] = "test"
    BY <1>2 DEF LoopTest
  <2>2. p \in Places /\ p \notin Answering /\ p \notin Pausing /\ at[l] \notin Pausing
    BY <2>1 DEF Places, Answering, Pausing
  <2>3. port' \in {"started", "stopped"}
    BY <2>1 DEF KniInv
  <2> HIDE DEF p
  <2> QED
    BY <2>1, <2>2, <2>3, StepFrame
<1>3. CASE Egress(l)
  <2>1. /\ Goto(l, "top") /\ UNCHANGED <<role, pause, stop, quit, req, left, main, port>>
        /\ kniTx' = 0 /\ at[l] = "body"
    BY <1>3 DEF Egress
  <2>2. "top" \in Places /\ "top" \notin Answering /\ "top" \notin Pausing /\ at[l] \notin Pausing
    BY <2>1 DEF Places, Answering, Pausing
  <2>3. port' \in {"started", "stopped"}
    BY <2>1 DEF KniInv
  <2> QED
    BY <2>1, <2>2, <2>3, StepFrame
<1>4. CASE Ingress(l)
  <2> DEFINE p == CASE req = NoReq -> "top" [] req = "mtu" -> "mtu" [] OTHER -> "pause"
  <2>1. /\ Goto(l, p) /\ UNCHANGED <<role, pause, stop, quit, req, left, main, port, kniTx>>
        /\ at[l] = "body" /\ role[l] = "kni_rx"
    BY <1>4 DEF Ingress
  <2>2. p \in {"top", "mtu", "pause"} /\ (p # "top" => req # NoReq)
    BY DEF NoReq
  <2>3. p \in Places /\ p \notin Pausing /\ at[l] \notin Pausing /\ (p \in Answering => req # NoReq)
    BY <2>1, <2>2 DEF Places, Pausing, Answering
  <2>4. port' \in {"started", "stopped"}
    BY <2>1 DEF KniInv
  <2> HIDE DEF p
  <2> QED
    BY <2>1, <2>3, <2>4, StepFrame
<1>5. CASE IfStop(l)
  <2>1. PICK p \in {"ifStart", "resume", "fail"} : Goto(l, p)
    BY <1>5 DEF IfStop
  <2>2. /\ UNCHANGED <<role, pause, stop, quit, req, left, main, kniTx>> /\ at[l] = "ifStop"
        /\ port' \in {"started", "stopped"}
    BY <1>5 DEF IfStop, KniInv
  <2>3. p \in Places /\ p \in Pausing /\ at[l] \in Pausing /\ at[l] \in Answering
    BY <2>1, <2>2 DEF Places, Pausing, Answering
  <2>4. role[l] = "kni_rx" /\ req # NoReq
    BY <2>3 DEF KniInv
  <2> QED
    BY <2>1, <2>2, <2>3, <2>4, StepFrame
<1>6. CASE IfStart(l)
  <2>1. /\ Goto(l, "resume") /\ UNCHANGED <<role, pause, stop, quit, req, left, main, kniTx>>
        /\ at[l] = "ifStart" /\ port' \in {"started", "stopped"}
    BY <1>6 DEF IfStart
  <2>2. "resume" \in Places /\ "resume" \in Pausing /\ at[l] \in Pausing /\ at[l] \in Answering
    BY <2>1 DEF Places, Pausing, Answering
  <2>3. role[l] = "kni_rx" /\ req # NoReq
    BY <2>2 DEF KniInv
  <2> QED
    BY <2>1, <2>2, <2>3, StepFrame
<1>7. CASE WorkerEnd(l)
  <2>1. /\ Goto(l, "done") /\ UNCHANGED <<role, pause, stop, quit, req, left, main, port, kniTx>>
        /\ at[l] = "poll"
    BY <1>7 DEF WorkerEnd, Quits
  <2>2. "done" \in Places /\ "done" \notin Answering /\ "done" \notin Pausing /\ at[l] \notin Pausing
    BY <2>1 DEF Places, Answering, Pausing
  <2>3. port' \in {"started", "stopped"}
    BY <2>1 DEF KniInv
  <2> QED
    BY <2>1, <2>2, <2>3, StepFrame
<1>8. ASSUME NEW p \in Places, Goto(l, p), at[l] \in Answering
      PROVE  /\ at' \in [KLcores -> Places] /\ at'[l] = p /\ role[l] = "kni_rx"
             /\ \A m \in KLcores \ {l} : at'[m] = at[m] /\ at'[m] \notin Answering
  <2>1. role[l] = "kni_rx"
    BY <1>8 DEF KniInv
  <2> QED
    BY <1>8, <2>1, OneAnswers DEF KniInv, Goto
<1>9. Pausing \subseteq Answering /\ "top" \notin Answering
  BY DEF Pausing, Answering
<1>10. CASE MtuStop(l)
  <2>1. /\ at[l] = "mtu" /\ UNCHANGED <<role, pause, stop, quit, left, main, kniTx>>
        /\ \/ Goto(l, "mtuSetup") /\ UNCHANGED req
           \/ Goto(l, "top") /\ req' = NoReq
        /\ port' \in {"started", "stopped"}
    BY <1>10 DEF MtuStop, KniInv
  <2>2. PICK p \in {"mtuSetup", "top"} : Goto(l, p) /\ (p = "mtuSetup" => UNCHANGED req) /\ req' \in {req, NoReq}
    BY <2>1
  <2>3. at[l] \in Answering /\ at[l] \notin Pausing /\ p \in Places /\ p \notin Pausing
    BY <2>1, <2>2 DEF Answering, Pausing, Places
  <2>4. /\ at' \in [KLcores -> Places] /\ at'[l] = p /\ role[l] = "kni_rx"
        /\ \A m \in KLcores \ {l} : at'[m] = at[m] /\ at'[m] \notin Answering
    BY <1>8, <2>2, <2>3
  <2>5. ~(\E m \in KLcores : at'[m] \in Pausing) /\ ~(\E m \in KLcores : at[m] \in Pausing)
    BY <1>9, <2>3, <2>4
  <2>6. \A m \in KLcores : at'[m] \in Answering => role[m] = "kni_rx" /\ req' # NoReq
    BY <1>9, <2>2, <2>3, <2>4 DEF KniInv
  <2> QED
    BY <2>1, <2>2, <2>4, <2>5, <2>6 DEF KniInv
<1>11. CASE MtuSetup(l)
  <2>1. /\ at[l] = "mtuSetup" /\ UNCHANGED <<role, pause, stop, quit, left, kniTx>>
        /\ Goto(l, "top") /\ req' = NoReq /\ port' \in {"started", "stopped"}
        /\ main' \in {main, "exited"}
    BY <1>11 DEF MtuSetup, KniInv
  <2>2. at[l] \in Answering /\ at[l] \notin Pausing /\ "top" \in Places /\ "top" \notin Pausing
    BY <2>1 DEF Answering, Pausing, Places
  <2>3. /\ at' \in [KLcores -> Places] /\ at'[l] = "top"
        /\ \A m \in KLcores \ {l} : at'[m] = at[m] /\ at'[m] \notin Answering
    BY <1>8, <2>1, <2>2
  <2>4. ~(\E m \in KLcores : at'[m] \in Pausing) /\ ~(\E m \in KLcores : at[m] \in Pausing)
    BY <1>9, <2>2, <2>3
  <2>5. \A m \in KLcores : at'[m] \notin Answering
    BY <1>9, <2>3
  <2> QED
    BY <2>1, <2>3, <2>4, <2>5 DEF KniInv
<1>12. CASE IfPause(l)
  <2>1. /\ at[l] = "pause" /\ UNCHANGED <<role, stop, quit, left, kniTx, req, port, main>>
        /\ Goto(l, "ifStop") /\ pause' = pause + 1
    BY <1>12 DEF IfPause
  <2>2. /\ at[l] \in Answering /\ at[l] \notin Pausing /\ "ifStop" \in Places
        /\ "ifStop" \in Pausing
    BY <2>1 DEF Answering, Pausing, Places
  <2>3. /\ at' \in [KLcores -> Places] /\ at'[l] = "ifStop" /\ role[l] = "kni_rx"
        /\ \A m \in KLcores \ {l} : at'[m] = at[m] /\ at'[m] \notin Answering
    BY <1>8, <2>1, <2>2
  <2>4. (\E m \in KLcores : at'[m] \in Pausing) /\ ~(\E m \in KLcores : at[m] \in Pausing)
    BY <1>9, <2>2, <2>3
  <2>5. pause' = 1
    BY <2>1, <2>4 DEF KniInv
  <2>6. \A m \in KLcores : at'[m] \in Answering => role[m] = "kni_rx" /\ req # NoReq
    BY <2>2, <2>3 DEF KniInv
  <2> QED
    BY <2>1, <2>3, <2>4, <2>5, <2>6 DEF KniInv
<1>13. CASE IfResume(l)
  <2>1. /\ at[l] \in {"resume", "fail"} /\ UNCHANGED <<role, stop, quit, left, kniTx, port, main>>
        /\ Goto(l, "top") /\ pause' = pause - 1 /\ req' = NoReq
    BY <1>13 DEF IfResume, Resume
  <2>2. at[l] \in Answering /\ at[l] \in Pausing /\ "top" \in Places
    BY <2>1 DEF Answering, Pausing, Places
  <2>3. /\ at' \in [KLcores -> Places] /\ at'[l] = "top"
        /\ \A m \in KLcores \ {l} : at'[m] = at[m] /\ at'[m] \notin Answering
    BY <1>8, <2>1, <2>2
  <2>4. ~(\E m \in KLcores : at'[m] \in Pausing) /\ \A m \in KLcores : at'[m] \notin Answering
    BY <1>9, <2>3
  <2>5. pause' = 0
    BY <2>1, <2>2 DEF KniInv
  <2> QED
    BY <2>1, <2>3, <2>4, <2>5 DEF KniInv
<1> QED
  BY <1>1, <1>2, <1>3, <1>4, <1>5, <1>6, <1>7, <1>10, <1>11, <1>12, <1>13 DEF Step

LEMMA NextKniInv == ASSUME KniInv, [KniNext]_kvars PROVE KniInv'
<1>1. CASE UNCHANGED kvars
  BY <1>1 DEF kvars, KniInv
<1> QED
  BY <1>1, KernelKni, LcoreKni DEF KniNext
-----------------------------------------------------------------------------
ThreadsInv == NetInv /\ KniInv

(* The two halves share no variable. *)
LEMMA ThreadsInvariant == ThreadsSpec => []ThreadsInv
<1>1. ThreadsInit => ThreadsInv
  BY InitNetInv, InitKniInv DEF ThreadsInit, ThreadsInv
<1>2. ThreadsInv /\ [ThreadsNext]_<<nvars, kvars>> => ThreadsInv'
  <2> SUFFICES ASSUME ThreadsInv, [ThreadsNext]_<<nvars, kvars>> PROVE ThreadsInv'
    OBVIOUS
  <2>1. [NetNext]_nvars /\ [KniNext]_kvars
    BY DEF ThreadsNext
  <2> QED
    BY <2>1, NextNetInv, NextKniInv DEF ThreadsInv
<1> QED
  BY <1>1, <1>2, PTL DEF ThreadsSpec

(* The hash table and the rows agree (dpi, flushHashTable), unless an      *)
(* index is handed out before its row is cleared or a row is flushed while *)
(* an lcore fills it: no other order of their accesses parts the two, for  *)
(* any lcores, keys, rows and traffic.                                     *)
THEOREM TableStaysExact == ThreadsSpec => []TableExact
<1>1. ThreadsInv => TableExact
  BY TableIsExact DEF ThreadsInv, NetInv
<1> QED
  BY <1>1, ThreadsInvariant, PTL

(* A flow deleted from the table, or whose row is cleared, has been idle   *)
(* for longer than the timeout at that moment (flushHashTable), unless one *)
(* of the six accesses that cause names came in between.                   *)
THEOREM FlushesInTime == ThreadsSpec => []FlushedInTime
<1>1. ThreadsInv => FlushedInTime
  BY DEF ThreadsInv, NetInv, TimeInv
<1> QED
  BY <1>1, ThreadsInvariant, PTL

(* Type correctness of the flow table and of the lcores' control.          *)
THEOREM ThreadsTypes == ThreadsSpec => []ThreadsTypeOK
<1>1. ThreadsInv => ThreadsTypeOK
  <2> SUFFICES ASSUME ThreadsInv PROVE ThreadsTypeOK
    OBVIOUS
  <2>1. NetTyped /\ KniInv
    BY DEF ThreadsInv, NetInv
  <2>2. \A i \in Idx : ent[i].key \in Keys \cup {NoKey} /\ ent[i].status \in 0 .. 1
    <3>1. \A i \in Idx : ent[i] \in Rows
      BY <2>1 DEF NetTyped
    <3> QED
      BY <3>1 DEF Rows
  <2>3. head \in Nodes \cup {0} /\ nxt \in [Nodes -> Nodes \cup {0}]
    <3>1. MadeN \subseteq Nodes \cup {0}
      BY DEF MadeN, Made
    <3> QED
      BY <2>1, <3>1 DEF NetTyped
  <2>4. NetTypeOK
    BY <2>1, <2>2, <2>3, FlushRow DEF NetTyped, NetTypeOK, IdxN, Causes
  <2>5. KniTypeOK
    <3>1. kniTx \in 0 .. MaxKniPkts
      BY <2>1, KniAssumption DEF KniInv
    <3> QED
      BY <2>1, <3>1 DEF KniInv, KniTypeOK, Answering
  <2> QED
    BY <2>4, <2>5 DEF ThreadsTypeOK
<1> QED
  BY <1>1, ThreadsInvariant, PTL

(* kni_pause is set only while one lcore, that of the receive loop, is in  *)
(* kni_config_network_interface, and every return of that function, the    *)
(* failed stop's included, takes it back.                                  *)
THEOREM PauseIsHeld ==
  ThreadsSpec => [](pause > 0 <=> \E l \in KLcores : role[l] = "kni_rx" /\ at[l] \in Pausing)
<1>1. ThreadsInv => (pause > 0 <=> \E l \in KLcores : role[l] = "kni_rx" /\ at[l] \in Pausing)
  BY DEF ThreadsInv, KniInv, Pausing, Answering
<1> QED
  BY <1>1, ThreadsInvariant, PTL
=============================================================================
