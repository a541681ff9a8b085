------------------------------- MODULE NetLog -------------------------------
(***************************************************************************)
(* The flow table: every polling lcore looks up, adds and refreshes flows  *)
(* (dpi); a thread flushes idle flows (flushHashTable); another pops the   *)
(* indices of new flows and writes their rows to the database              *)
(* (logsManagerLcore).  The table, the rows and the list are shared        *)
(* without a lock, and dpi, the flush thread and the log thread move from  *)
(* one access to the next in the order of the source.  One step are: an    *)
(* operation of rte_hash, called without its concurrency flags; the        *)
(* fields of a row that no thread reads; the zeroing of a row; what the    *)
(* database reads of it; a node before it is linked.                       *)
(*                                                                         *)
(* cause is a ghost variable: the accesses that came at the wrong moment,  *)
(* each recorded by the step that does the harm.                           *)
(***************************************************************************)
EXTENDS Integers, Sequences, FiniteSets

CONSTANTS
  RxLcores,   \* lcores that call dpi
  Keys, NoKey,
  Entries,    \* NETSTAT_ENTRIES
  TIMEOUT,    \* 15 seconds
  Traffic,    \* the packets the lcores may receive, by their keys
  MaxFlowPkts, MaxTime  \* bounds on the flows and on the clock

ASSUME NetAssumption ==
  /\ NoKey \notin Keys /\ Entries \in Nat \ {0} /\ TIMEOUT \in Nat
  /\ MaxFlowPkts \in Nat /\ MaxTime \in Nat
  /\ Traffic \subseteq [RxLcores -> Seq(Keys)]

Idx   == 0 .. Entries - 1
None  == -1
Nodes == 1 .. MaxFlowPkts

VARIABLES
  now,     \* seconds
  pkts,    \* packets still to come to each lcore
  tab,     \* NETSTAT: key to index
  ent,     \* netstatData; flow and seen are ghosts: which flow the row is of,
           \* and when its last packet came
  dpi,     \* each lcore: where it is, key, index, time, node and list cursor
  flush,   \* the flush thread: where it is, clock, n, index
  logger,  \* the log thread: where it is, node, index and successor
  head, nxt, dat,  \* the list of new flows; 0 is the null pointer
  freed,   \* nodes given back
  flows,   \* ghost: flows added
  logged,  \* rows written
  lost,    \* ghost: flows without a node, or refused by the database
  cause    \* ghost

list  == <<head, nxt, dat, freed>>
books == <<flows, logged, lost>>
nvars == <<now, pkts, tab, ent, dpi, flush, logger, list, books, cause>>

Idle     == [at |-> "idle", key |-> NoKey, idx |-> None, time |-> 0, node |-> 0, cur |-> 0]
Sleeping == [at |-> "idle", curr |-> 0, n |-> 0, idx |-> None]
Waiting  == [at |-> "idle", node |-> 0, idx |-> None, nxt |-> 0]
Cleared  == [key |-> NoKey, status |-> 0, last |-> 0, flow |-> 0, seen |-> 0]

NetInit ==
  /\ now = 0 /\ pkts \in Traffic
  /\ tab = [k \in Keys |-> None]
  /\ ent = [i \in Idx |-> Cleared]
  /\ dpi = [l \in RxLcores |-> Idle] /\ flush = Sleeping /\ logger = Waiting
  /\ head = 0 /\ nxt = [x \in Nodes |-> 0] /\ dat = [x \in Nodes |-> None] /\ freed = {}
  /\ flows = 0 /\ logged = <<>> /\ lost = {} /\ cause = {}

Excuse(c, b) == IF b THEN {c} ELSE {}

(* An lcore fills row i; its key or status, or its time, are not written.  *)
Filling(i)  == \E l \in RxLcores : dpi[l].at \in {"fill", "status"} /\ dpi[l].idx = i
Unstamped(i) == \E l \in RxLcores : dpi[l].at \in {"status", "stamp"} /\ dpi[l].idx = i

LoggedSet == {logged[k] : k \in DOMAIN logged}

(* Row i is written away while its flow still waits.                       *)
Late(i)  == Excuse("late", ent[i].flow \notin LoggedSet \cup lost \cup {0})

(* The flush thread has taken row i for idle; its key is deleted, the row  *)
(* not yet cleared.                                                        *)
Doomed(i) ==
  \/ flush.at = "look" /\ flush.n = i
  \/ flush.at \in {"del", "clear"} /\ flush.idx = i

Clearing(i) == flush.at = "clear" /\ flush.idx = i

Tick ==
  /\ now < MaxTime /\ flows > 0
  /\ now' = now + 1
  /\ UNCHANGED <<pkts, tab, ent, dpi, flush, logger, list, books, cause>>
-----------------------------------------------------------------------------
(* A packet, and the clock of its burst; *)
Dpi(l) ==
  /\ dpi[l].at = "idle" /\ pkts[l] # <<>>
  /\ dpi' = [dpi EXCEPT ![l].at = "lookup", ![l].key = Head(pkts[l]), ![l].time = now]
  /\ pkts' = [pkts EXCEPT ![l] = Tail(@)]
  /\ UNCHANGED <<now, tab, ent, flush, logger, list, books, cause>>

(* rte_hash_lookup; *)
DpiLookup(l) ==
  /\ dpi[l].at = "lookup"
  /\ dpi' = [dpi EXCEPT ![l].at = IF tab[dpi[l].key] = None THEN "add" ELSE "hit",
                        ![l].idx = tab[dpi[l].key]]
  /\ UNCHANGED <<now, pkts, tab, ent, flush, logger, list, books, cause>>

(* a known flow is refreshed. *)
DpiHit(l) ==
  LET i == dpi[l].idx
      t == dpi[l].time
  IN  /\ dpi[l].at = "hit"
      /\ ent' = [ent EXCEPT ![i].last = t, ![i].seen = IF @ < t THEN t ELSE @]
      /\ dpi' = [dpi EXCEPT ![l] = Idle]
      /\ cause' = cause \cup Excuse("refresh", Doomed(i)) \cup Excuse("back", t < ent[i].last)
      /\ UNCHANGED <<now, pkts, tab, flush, logger, list, books>>

FreeIdx == {i \in Idx : \A k \in Keys : tab[k] # i}

(* rte_hash_add_key; a key that is there by now keeps its index, and an    *)
(* index is free as soon as its key is deleted.                            *)
DpiAdd(l) ==
  /\ dpi[l].at = "add"
  /\ \/ \E i \in IF tab[dpi[l].key] # None THEN {tab[dpi[l].key]} ELSE FreeIdx :
          /\ tab' = [tab EXCEPT ![dpi[l].key] = i]
          /\ dpi' = [dpi EXCEPT ![l].at = "fill", ![l].idx = i]
          /\ cause' = cause \cup Excuse("reused", Clearing(i))
     \/ /\ tab[dpi[l].key] = None /\ FreeIdx = {}
        /\ dpi' = [dpi EXCEPT ![l] = Idle]
        /\ UNCHANGED <<tab, cause>>
  /\ UNCHANGED <<now, pkts, ent, flush, logger, list, books>>

(* The row of a new flow: its key, *)
DpiFill(l) ==
  LET i == dpi[l].idx
  IN  /\ dpi[l].at = "fill" /\ flows < MaxFlowPkts
      /\ flows' = flows + 1
      /\ ent' = [ent EXCEPT ![i].key = dpi[l].key, ![i].flow = flows + 1, ![i].seen = dpi[l].time]
      /\ dpi' = [dpi EXCEPT ![l].at = "status", ![l].node = flows + 1]
      /\ cause' = cause \cup Excuse("refresh", Doomed(i)) \cup Late(i)
      /\ UNCHANGED <<now, pkts, tab, flush, logger, list, logged, lost>>

(* its status, from now on the flush thread looks at its time, *)
DpiStatus(l) ==
  /\ dpi[l].at = "status"
  /\ ent' = [ent EXCEPT ![dpi[l].idx].status = 1]
  /\ dpi' = [dpi EXCEPT ![l].at = "stamp"]
  /\ UNCHANGED <<now, pkts, tab, flush, logger, list, books, cause>>

(* and after eight other fields its time. *)
DpiStamp(l) ==
  LET i == dpi[l].idx
      t == dpi[l].time
  IN  /\ dpi[l].at = "stamp"
      /\ ent' = [ent EXCEPT ![i].last = t]
      /\ dpi' = [dpi EXCEPT ![l].at = "push"]
      /\ cause' = cause \cup Excuse("back", t < ent[i].last)
      /\ UNCHANGED <<now, pkts, tab, flush, logger, list, books>>
-----------------------------------------------------------------------------
(* push: without memory the flow is forgotten; otherwise a node is filled  *)
(* and the head read.                                                      *)
PushFails(l) ==
  /\ dpi[l].at = "push"
  /\ lost' = lost \cup {dpi[l].node}
  /\ dpi' = [dpi EXCEPT ![l] = Idle]
  /\ UNCHANGED <<now, pkts, tab, ent, flush, logger, list, flows, logged, cause>>

Push(l) ==
  /\ dpi[l].at = "push"
  /\ dat' = [dat EXCEPT ![dpi[l].node] = dpi[l].idx]
  /\ dpi' = [dpi EXCEPT ![l].at = IF head = 0 THEN "head" ELSE "walk", ![l].cur = head]
  /\ UNCHANGED <<now, pkts, tab, ent, flush, logger, head, nxt, freed, books, cause>>

(* The empty list.  Mutant: the node is not linked. *)
HeadForgotten(l) == head

NewHead(l) == dpi[l].node

PushHead(l) ==
  /\ dpi[l].at = "head"
  /\ head' = NewHead(l)
  /\ dpi' = [dpi EXCEPT ![l] = Idle]
  /\ cause' = cause \cup Excuse("list", head # 0)
  /\ UNCHANGED <<now, pkts, tab, ent, flush, logger, nxt, dat, freed, books>>

(* The successor is read; in a node given back it may be anything.         *)
PushWalk(l) ==
  LET x == dpi[l].cur
  IN  /\ dpi[l].at = "walk"
      /\ \E y \in IF x \in freed THEN Nodes \cup {0} ELSE {nxt[x]} :
           dpi' = [dpi EXCEPT ![l].at = IF y # 0 THEN "walk" ELSE "link",
                              ![l].cur = IF y # 0 THEN y ELSE x]
      /\ cause' = cause \cup Excuse("freed", x \in freed)
      /\ UNCHANGED <<now, pkts, tab, ent, flush, logger, list, books>>

PushLink(l) ==
  LET x == dpi[l].cur
  IN  /\ dpi[l].at = "link"
      /\ nxt' = [nxt EXCEPT ![x] = dpi[l].node]
      /\ dpi' = [dpi EXCEPT ![l] = Idle]
      /\ cause' = cause \cup Excuse("freed", x \in freed) \cup Excuse("list", nxt[x] # 0)
      /\ UNCHANGED <<now, pkts, tab, ent, flush, logger, head, dat, freed, books>>
-----------------------------------------------------------------------------
(* flushHashTable: one scan of the rows, by the clock of its beginning. *)
FlushStart ==
  /\ flush.at = "idle"
  /\ flush' = [at |-> "scan", curr |-> now, n |-> 0, idx |-> None]
  /\ UNCHANGED <<now, pkts, tab, ent, dpi, logger, list, books, cause>>

(* curr_time - lastPktTime > 15 on uint64_t: a row refreshed after the     *)
(* clock was read is idle for 2^64 seconds.  Mutant: the timeout counts.   *)
ExpiredAtOnce(i) == ent[i].last > flush.curr \/ flush.curr - ent[i].last >= TIMEOUT

Expired(i) == ent[i].last > flush.curr \/ flush.curr - ent[i].last > TIMEOUT

Early(i) == Excuse("early", now - ent[i].seen <= TIMEOUT)

(* The next row of the scan, if there is one.  Mutant: one row too many.   *)
NextNTooFar(f) ==
  IF f.n = Entries THEN Sleeping ELSE [f EXCEPT !.at = "scan", !.n = @ + 1, !.idx = None]

NextN(f) ==
  IF f.n + 1 = Entries THEN Sleeping ELSE [f EXCEPT !.at = "scan", !.n = @ + 1, !.idx = None]

(* The status of a row, *)
FlushScan ==
  /\ flush.at = "scan"
  /\ flush' = IF ent[flush.n].status = 1 THEN [flush EXCEPT !.at = "age"] ELSE NextN(flush)
  /\ UNCHANGED <<now, pkts, tab, ent, dpi, logger, list, books, cause>>

(* its time, *)
FlushAge ==
  LET n == flush.n
  IN  /\ flush.at = "age"
      /\ \/ /\ Expired(n)
            /\ flush' = [flush EXCEPT !.at = "look"]
            /\ cause' = cause \cup Excuse("clock", ent[n].last > flush.curr)
                              \cup Excuse("fill", Unstamped(n))
         \/ /\ ~Expired(n)
            /\ flush' = NextN(flush)
            /\ UNCHANGED cause
      /\ UNCHANGED <<now, pkts, tab, ent, dpi, logger, list, books>>

(* rte_hash_lookup of the key the row has by now, *)
FlushLook ==
  LET n == flush.n
      k == ent[n].key
      i == IF k \in Keys THEN tab[k] ELSE None
  IN  /\ flush.at = "look"
      /\ \/ /\ i = None
            /\ ent' = [ent EXCEPT ![n] = Cleared]
            /\ flush' = NextN(flush)
            /\ cause' = cause \cup Early(n) \cup Late(n) \cup Excuse("undone", Filling(n))
         \/ /\ i # None
            /\ flush' = [flush EXCEPT !.at = "del", !.idx = i]
            /\ UNCHANGED <<ent, cause>>
      /\ UNCHANGED <<now, pkts, tab, dpi, logger, list, books>>

(* rte_hash_del_key of the key the row at the index found has by now, *)
FlushDel ==
  LET k == ent[flush.idx].key
      i == IF k \in Keys THEN tab[k] ELSE None
  IN  /\ flush.at = "del"
      /\ \/ /\ i = None
            /\ flush' = NextN(flush)
            /\ UNCHANGED <<tab, cause>>
         \/ /\ i # None
            /\ tab' = [tab EXCEPT ![k] = None]
            /\ flush' = [flush EXCEPT !.at = "clear", !.idx = i]
            /\ cause' = cause \cup Early(i) \cup Excuse("undone", Filling(i))
      /\ UNCHANGED <<now, pkts, ent, dpi, logger, list, books>>

(* and the row of the index it had is cleared.  Mutant: it is left.        *)
AfterFlushKept(i) == ent[i]

AfterFlush(i) == Cleared

FlushClear ==
  LET i == flush.idx
  IN  /\ flush.at = "clear"
      /\ ent' = [ent EXCEPT ![i] = AfterFlush(i)]
      /\ cause' = cause \cup Early(i) \cup Late(i)
      /\ flush' = NextN(flush)
      /\ UNCHANGED <<now, pkts, tab, dpi, logger, list, books>>
-----------------------------------------------------------------------------
(* pop: the head and its index, *)
Pop ==
  /\ logger.at = "idle" /\ head # 0
  /\ logger' = [at |-> "next", node |-> head, idx |-> dat[head], nxt |-> 0]
  /\ UNCHANGED <<now, pkts, tab, ent, dpi, flush, list, books, cause>>

(* its successor, *)
PopNextRead ==
  /\ logger.at = "next"
  /\ logger' = [logger EXCEPT !.at = "take", !.nxt = nxt[logger.node]]
  /\ UNCHANGED <<now, pkts, tab, ent, dpi, flush, list, books, cause>>

(* which becomes the head; the node is given back.  Mutant: the head stays.*)
PopKeeps == head

PopNext == logger.nxt

Take ==
  /\ logger.at = "take"
  /\ head' = PopNext
  /\ freed' = freed \cup {logger.node}
  /\ logger' = [logger EXCEPT !.at = "insert"]
  /\ cause' = cause \cup Excuse("list", nxt[logger.node] # logger.nxt)
  /\ UNCHANGED <<now, pkts, tab, ent, dpi, flush, nxt, dat, books>>

(* insertNetstatToDB writes what the row holds by now; a refused insert is *)
(* only reported.                                                          *)
Insert ==
  LET flow == ent[logger.idx].flow
  IN  /\ logger.at = "insert"
      /\ \/ Len(logged) < MaxFlowPkts /\ logged' = Append(logged, flow) /\ UNCHANGED lost
         \/ lost' = lost \cup {flow} /\ UNCHANGED logged
      /\ logger' = Waiting
      /\ UNCHANGED <<now, pkts, tab, ent, dpi, flush, list, flows, cause>>

NetNext ==
  \/ Tick
  \/ \E l \in RxLcores :
       \/ Dpi(l) \/ DpiLookup(l) \/ DpiHit(l) \/ DpiAdd(l)
       \/ DpiFill(l) \/ DpiStatus(l) \/ DpiStamp(l)
       \/ PushFails(l) \/ Push(l) \/ PushHead(l) \/ PushWalk(l) \/ PushLink(l)
  \/ FlushStart \/ FlushScan \/ FlushAge \/ FlushLook \/ FlushDel \/ FlushClear
  \/ Pop \/ PopNextRead \/ Take \/ Insert
-----------------------------------------------------------------------------
NetTypeOK ==
  /\ now \in 0 .. MaxTime /\ pkts \in [RxLcores -> Seq(Keys)]
  /\ tab \in [Keys -> Idx \cup {None}]
  /\ \A i \in Idx : ent[i].key \in Keys \cup {NoKey} /\ ent[i].status \in 0 .. 1
  /\ head \in Nodes \cup {0} /\ nxt \in [Nodes -> Nodes \cup {0}] /\ freed \subseteq Nodes
  /\ flows \in 0 .. MaxFlowPkts /\ lost \subseteq 0 .. flows
  /\ flush.n \in Idx
  /\ cause \subseteq {"reused", "undone", "refresh", "back", "fill", "clock",
                      "early", "late", "list", "freed"}

(* The table and the rows agree: a key is in the table at an index if and  *)
(* only if the row there is live and of that key; but for a row that an    *)
(* lcore fills or the flush thread is about to clear, and unless an index  *)
(* was handed out before its row was cleared (reused) or a row was flushed *)
(* while an lcore filled it (undone).                                      *)
TableExact ==
  cause \cap {"reused", "undone"} = {} =>
    \A i \in {j \in Idx : ~Filling(j) /\ ~Clearing(j)}, k \in Keys :
      tab[k] = i <=> ent[i].status = 1 /\ ent[i].key = k

(* The nodes of the list: those in every set that holds the head and the   *)
(* successors of its members.                                              *)
ClosedList(S) ==
  /\ head # 0 => head \in S
  /\ \A x \in S : nxt[x] # 0 => nxt[x] \in S

Listed == {x \in Nodes : \A S \in SUBSET Nodes : ClosedList(S) => x \in S}

(* The flows on their way into the list, in it, or at the log thread.      *)
Pending ==
  {dpi[l].node : l \in {m \in RxLcores : dpi[m].at \notin {"idle", "lookup", "hit", "add", "fill"}}}
  \cup Listed \cup (IF logger.at # "idle" THEN {logger.node} ELSE {})

(* Every flow waits, or is written to the database once and with its own   *)
(* row, or had no memory or was refused; unless its row was cleared or     *)
(* filled again while it waited (late), two operations wrote one link or   *)
(* the head from what was there before (list), or a node was used after it *)
(* was given back (freed).                                                 *)
FlowsKept ==
  cause \cap {"late", "list", "freed"} = {} =>
    /\ LoggedSet \cup Pending \cup lost = 1 .. flows
    /\ LoggedSet \cap Pending = {} /\ lost \cap (LoggedSet \cup Pending) = {}
    /\ Cardinality(LoggedSet) = Len(logged)

(* When a flow is deleted or its row cleared, its last packet is longer    *)
(* ago than the timeout; unless its time was read before it was written    *)
(* (fill), was of a clock ahead of the scan's (clock), was set back by an  *)
(* lcore with an older clock (back), or came after it was read (refresh);  *)
(* or the row deleted is another's (reused, undone).                       *)
FlushedInTime ==
  "early" \in cause => cause \cap {"fill", "clock", "back", "refresh", "reused", "undone"} # {}

(* The flow table, the rows and the list, together. *)
FlowAccounted == TableExact /\ FlowsKept /\ FlushedInTime
=============================================================================
