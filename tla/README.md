# A TLA+ model of the IPsec security gateway

The program (DPDK's `ipsec-secgw` with additions for flow logging, a kernel
interface and a message bus) forwards packets between *protected* and
*unprotected* ports. Polling lcores, or event-mode workers, receive packets,
find the security association (SA) of each, let a crypto device, the CPU or the
NIC encrypt or decrypt it, check it against the security policy (SPD) and
transmit it.

This directory holds TLA+ modules for the parts that carry that logic, TLC
configurations for small instances, and proofs for TLAPS. `PROJECT.json` lists
the runs, the source lines behind each definition, the hazards and the
theorems.

## Inventory

| Part | State | Operations | Interacts with |
|---|---|---|---|
| IPsec contexts (`ipsec.c`, `ipsec_process.c`) | per lcore and direction: `cdev_qp` buffers, `in_flight`, `ol_pkts`, `last_qp` | enqueue, drain, dequeue; legacy and library variant | crypto PMDs (concurrent), routing |
| SA sessions (`ipsec.c:49-139`, `ipsec_process.c:75-101`) | `crypto.ses`, `cdev_id_qp` in SAs shared by lcores | create on first packet | contexts of all lcores of a socket, session pool |
| Crypto device mapping (`ipsec-secgw.c:2466-2660`) | `cdev_map_in/out`, `ipsec_ctx.tbl`, queue pairs | `cryptodevs_init` | contexts, sessions |
| SA/SP/SAD start-up (`sa.c`, `sp4.c`, `sp6.c`, `sad.c`) | rule arrays, per-socket SA tables, SADs, ACLs | sort, `sa_init`, `sp4_init`, `sp6_init` | the inbound and outbound paths read the result |
| Inbound path (`ipsec-secgw.c:553-941`, `sad.h`) | `ipsec_traffic`, per-lcore SAD cache, `priv->sa` in mbufs | sort, look up, decrypt, check policy | contexts, SAD, SPD, routing |
| Outbound path (`ipsec-secgw.c:943-1090`) | `ipsec_traffic`, `sa->seq` | SPD lookup, SA selection, single-SA variant | contexts, ESP, routing |
| ESP (`esp.c`, `ipip.h`) | packet headers and trailers | pre- and post-processing in both directions | contexts |
| Routing and TX (`ipsec-secgw.c:697-841, 1092-1218`) | `tx_mbufs` per port, mbuf reference counts | route, fragment, buffer, drain | NIC (concurrent) |
| Event mode (`event_helper.c`, `ipsec_worker.c`) | `eventmode_conf`, links, `eth_core_running`, session tables of workers | default configuration, device set-up, eth cores, workers, shutdown | event device, adapters, SPD, routing |
| Flow log (`ipsec-secgw.c:326-347, 1219-1230, 1366-1498`, `ngtl/logs`, `ngtl/hashtable`, `ngtl/db`) | NETSTAT hash, `netstatData`, list of new flows | record, flush after 15 s, write | lcores and two threads without a lock |
| KNI and process control (`ngtl/kni`, `ipsec-secgw.c` end of `main`) | `kni_pause`, `kni_stop`, `force_quit`, link state | RX and TX loop, callbacks of the kernel, signals, end of `main` | ports the lcores poll |
| Reassembly, statistics, rule parsing, port set-up, NATS subscriber | library tables, counters, rule arrays, message rows | | see the last section |

What is hard here, and what makes each part correct:

* **Concurrency without locks.** Crypto devices and NICs run beside the lcores;
  lcores share SAs, a flow table, flags. Correct: counters that decide whether a
  queue is polled are exact; a session is used only on a device that has it; a
  counter never protects two packets; a flow is logged once.
* **Unchecked array writes.** `cdev_qp.buf`, `ol_pkts` and `tx_mbufs.m_table`
  are written at `len++`; the bound rests on what earlier calls left behind.
* **Partial failure.** Devices take a prefix of a burst, fragmentation,
  transformation and set-up calls fail one by one; each mbuf must be freed
  exactly once, each pause taken back.
* **Stale state.** mbufs keep `priv->sa`, the SAD cache keeps SAs, the start-up
  overwrites SPIs with indices. Correct: none of it changes a decision.
* **Numeric edges.** SPI differences as `int`, 16-bit lengths, 32-bit sequence
  numbers, the room kept for fragments.
* **Progress.** Packets below a full burst leave only through drain timers and
  dequeue loops that skip idle queue pairs; `force_quit` has to reach every loop.

## Modules

| Module | Models | Instance |
|---|---|---|
| `IpsecCtx` | one IPsec context and its queue pairs, both modes | `MCIpsecCtx` |
| `PktLife` | what the context promises for each mbuf (abstract) | refinement in `IpsecCtx` |
| `SpdStartup` | configuration arrays to per-socket SA tables, SADs and ACLs | `MCSpdStartup` |
| `CdevMap` | `cryptodevs_init` | `MCSaSession` |
| `SaSession` | sessions of shared SAs; EXTENDS `CdevMap` and starts when it is done | `MCSaSession` |
| `PktLists` | the packet lists of `struct ipsec_traffic`, used by the two paths | |
| `InboundPath` | sorting, SAD cache, decryption, policy | `MCInboundPath` |
| `EspXform` | `esp.c` and `ipip.h` as operators on lengths and headers | `MCOutboundPath` |
| `OutboundPath` | policy, transformation step by step, results, routing; EXTENDS `EspXform` | `MCOutboundPath` |
| `TxPath` | routing, TX buffers, fragmentation, NIC | `MCTxPath` |
| `EventHelper` | default configuration, devices, eth cores, shutdown | `MCEventWorker` |
| `EventWorker` | workers of both IPsec modes; EXTENDS `EventHelper`, whose lcores become workers | `MCEventWorker` |
| `NetLog` | flow table, flush thread, list of new flows, log thread | `MCThreads` |
| `KniControl` | KNI loops, callbacks, flags, signals, end of `main` | `MCThreads` |
| `Threads` | the two in one process | `MCThreads` |

Proof modules, each EXTENDS the module it is about: `IpsecCtxProofs`,
`SpdStartupProofs`, `SaSessionProofs` (`CdevMap` too), `InboundPathProofs`,
`OutboundPathProofs` (`EspXform` too), `TxPathProofs`, `EventWorkerProofs`
(`EventHelper` too), `ThreadsProofs` (`NetLog` and `KniControl` too).

Operators named after another with a suffix, and introduced by "Mutant:" in a
comment, are plausible bugs in the code behind the definition that follows;
each property is violated once one of them takes the definition's place.
Variables marked "ghost" are read by no action, only by properties.

**IpsecCtx.** The variables are the fields of `struct ipsec_ctx` and `struct
cdev_qp`, the locals of the dequeue loops, the contents of the devices (`pmd`,
`ready`) and the owners of mbufs that are outside the context (`pool`, `out`).
Each iteration of each loop is an action: `EnqueueLookaside`, `EnqueueInline`
and `EnqueueDiscard` are the ways through the body of `ipsec_enqueue`,
`DequeueQp` that of `ipsec_dequeue`; `GroupCrypto`, `GroupSync` and
`GroupDiscard` handle a group in `ipsec_process`, `CtxDequeueFirst` and
`CtxDequeueSecond` are the two loops of `ctx_dequeue`. `PmdComplete` is the
device. The refinement maps an mbuf to the place where it is.

**SpdStartup.** `SortArrays`, then `SaInit`, `Sp4Init`, `Sp6Init` for each
socket. Sorting and searching use the code's comparator on words, of which there
are 2 `HALF`. `QSort` is a constant about which `SortAssumption` says what the C
standard says of `qsort`: a permutation, in order if the comparison is one; the
instance is glibc's merge sort. `BSearchIn` is `bsearch`, a recursive function on
intervals. An SA is its SPI, its mode and whether it can be added on this machine
(`ok`), a rule its user data.

**CdevMap, SaSession.** `MapParam` is the inner and `ConfigureCdev` the outer
loop of `cryptodevs_init`. The lcores start on the tables it built. In
`SaSession` every read or write of a shared SA is a step: test of the pointer,
lookup of the queue pair, the CPU device (`CpuDevice`), creation, initialisation, store
of the index, preparation (library mode), use. Creation, initialisation and
preparation may fail; the result of the second is ignored, as in `ipsec.c:128`, and
the ghost `refused` remembers it.

**InboundPath.** A packet is a record of what the code looks at: protocol,
family, SPI, end points, offload flag, and family and policy of what it carries.
`PrepareOne` is `prepare_one_packet`; `LookupCache` the first loop of
`sad_lookup`, `LookupSad` one result of the second; `Process` the
decryption, at once for inline SAs and through `crypto` for the others; `Drain`
the return from the crypto devices; `Policy` is `inbound_sp_sa` for both
families. `dec`, a ghost, remembers who decrypted a packet. Initially mbufs
carry any SA: both directions and all lcores share the pool.

**OutboundPath, EspXform.** A packet is its family, the lengths of its IP header
and of the whole, next protocol, tail room and policy. `Spd` is `outbound_spd_lookup` with the
checks around it (with `--single-sa` the packets skip it). `XformEsp` checks what
`esp_outbound` checks; `Inc` is the load and `sa->seq++` the store of the
increment, `Hdr`, `Iv` and `Icb` are the three reads after it, each a step in
which another lcore may come between. `LibTake` and `LibPut` are the library's
transformation. `XformEnd` returns what was processed inline, `Drain` what the
crypto device finished, in both to the routing table of the family the code
picks. `EspXform` computes lengths in 16 bits as the code does;
`EspOut`, `PostAccepts` and `EspIn` are the sender's and the receiver's side.

**TxPath.** `RoutePkt` is an iteration of the second loop of `route4_pkts` (the
IPv6 function is the same), `SendWhole`, `SendTooBig`, `FragmentFlush`,
`FragmentPut` and `SendIfFull` are `send_single_packet` and
`send_fragment_packet`. The NIC takes any prefix of a buffer, up to its free
descriptors.

**EventHelper, EventWorker.** `env` is the machine: lcores, ports, which of them
have internal ports of the adapters, limits of the event device. `CheckParams`
and `Validate` compute the default configuration, `InitEventdev`,
`InitRxAdapter`, `InitTxAdapter` and `StartDevs` set the devices up, and each
may fail. The lcores read and write `eth_core_running` in steps of their own, but
for `StopEthCores`: its test and its reset are one step, which is the reset's, as
the value stored does not depend on what came between.
`Work` is one event: a packet or a vector of up to `VectorSize` mbufs of one
port, in application or driver mode; `dyn` is the dynamic field in which the
NIC leaves the SA and which nobody clears.

**NetLog.** Each access to what the threads share is an action, in the order of the
source. `Dpi` takes a packet and the clock of its burst; `DpiLookup` and `DpiHit`,
or `DpiAdd`, `DpiFill` (the key), `DpiStatus` and `DpiStamp` (the time, eight
fields later) are the rest of `dpi`. `PushFails`, `Push`, `PushHead`, `PushWalk`
and `PushLink` are those of `push`, `Pop`, `PopNextRead` and `Take` those of `pop`,
`Insert` the write to the database, which may be refused. `FlushScan`, `FlushAge`
and `FlushLook` read the status, the time and the key of a row, `FlushDel` deletes
the key the row has by then, `FlushClear` zeroes the row. Merged are operations of
`rte_hash`, the fields no thread reads, and the zeroing of a row. The ghost `cause`
collects the accesses that came at the wrong moment, each put there by the step that
does the harm: a time read before it is written (`fill`), ahead of the scan's clock
(`clock`), set back (`back`), written after it was read (`refresh`); a row flushed
while it is filled (`undone`) or handed out before it is cleared (`reused`), cleared
before it is logged (`late`); a link written from what was there before (`list`), a
node used after it was given back (`freed`). Each conjunct of `FlowAccounted` excludes
those that refute it and no other: TLC finds it violated without any one of them
(`reused` and `undone` in `FlushedInTime` with a third packet). `seen`, a ghost, is
the time of the last packet of a row's flow, by which `Early` measures, at the deletion
and at the clearing, whether the flow was idle.

**KniControl.** Each lcore runs the KNI receive loop, the KNI transmit loop or a
polling worker. `Ingress` hands a request of the kernel to the callbacks
(`MtuStop`, `MtuSetup`; `IfPause` ... `IfResume`, each DPDK call of which may
fail); `LoopTop` reads `kni_stop`, `LoopTest` reads `kni_pause` and obeys both.
One lcore at most receives, as `kni_port_params` has one `lcore_rx`. `Threads`
composes it with `NetLog`: they share the process and no variable, and a
behaviour has traffic for the one, and then no KNI loop, or requests for the
other.

## Runs

| Run | Shows | Bounds |
|---|---|---|
| `ctx` | exact `in_flight`, no overrun, no mbuf lost or owned twice, refinement of `PktLife` | both modes, bursts of 3, 2 queue pairs of 3 descriptors, 10 mbufs with lookaside, inline, CPU and no SA: buffers fill, devices refuse, `last_qp` wraps |
| `ctx_live` | every operation leaves the crypto stage | both modes, bursts of 1, dequeues of 2, 2 queue pairs of 4 descriptors, 4 mbufs of the first and 1 of the second: as in the code (64 operations, 2048 descriptors) one dequeue does not empty a device, and the first queue pair uses up several in a row while the second has work |
| `startup` | policies select their SAs, also from a half-filled table; SADs match policies; exits have a cause | both modes, words of 4 bits; up to 3 SAs of all modes, 2 with failures or repeated SPIs, and a rule for each family, or up to 2 SAs that can be added and 2 rules for one family and 1 for the other |
| `startup_sockets` (violation) | databases of the second socket differ | 2 sockets; gateways in both directions, whose second `sa_init` exits, and gateways that only encrypt |
| `startup_wide_spis` (violation) | an SA that is present is not found | SPIs more than half the range apart |
| `session` | exclusive, configured queue pairs; sound and complete maps; every operation meets a device that has its session | both modes; every configuration of 3 devices with 1 or 2 queue pairs, 3 algorithms, 1 or 2 parameters on 3 contexts, tables of 2: tables and devices run out; lcores started in three of them, two with SAs shared by two lcores, with tables that are alike and that differ; 5 SAs, 2 of them processed on the lcore; devices that refuse sessions, a pool of 2 sessions that leaks dry |
| `inbound` | the SAD cache is transparent; what leaves is allowed; each drop frees once | cache of 2, 3 SPIs of which 2 share an entry, bursts of 2 in 3 mbufs used again and again, 12 kinds of packet |
| `tx_path` | no overrun, exact reference counts, right port, order, room for MAX_FRAG + 1 fragments, every mbuf comes back | buffers of 4, NIC of 2, bursts of 3 (`MaxRouted`), MAX_FRAG 2, packets of 1, 3 and 4 fragments |
| `outbound` | packets leave protected as their policy says and are routed once by the right table; counters do not repeat; the peer undoes the transformation | 2 lcores, 8 kinds of SA, three library modes, 3 packets in bursts of up to 2 so that `SEQ_MOD` = 3 wraps; single packets of every alignment, of every length from 65440 to 65535, with and without tail room |
| `event` | every enabled port leads to every worker and the TX queue to the adapter alone; eth cores live from start to `force_quit`; what workers forward obeys the policy | every machine with up to 4 lcores and 2 ports, 3 event queues, 4 event ports; lcores run on those of `MCRunEnvs`; traffic on a machine of 3 ports in application and driver mode, vectors of up to 2 in mbufs used again |
| `event_vector` (violation) | a vector passes a protect rule with the SA of an earlier packet | the same machine |
| `threads` | the table stays exact, every flow is logged once with its own row or known to be lost, none is flushed before its timeout, but for the accesses in `cause`; pauses end, the kernel is answered, `force_quit` ends a process without KNI loops | 2 receiving lcores, 2 keys, 2 rows; 2 packets of one flow on one lcore, or of one or two flows on both; `TIMEOUT` 0 and clock up to 1, so that a row is fresh or expired; 3 lcores in every assignment of roles up to exchange of two, 2 requests, 1 packet |

The bounds are small because every queue in the code is treated alike at every
size: what matters is a buffer that can be empty, partly full and full, a device
that can refuse, two users of one resource, two keys in one cache entry, a
counter that wraps. Words are 4 bits where overflow matters and the sizes of
`EspXform` are the real ones. Symmetry is used for mbufs and lcores of one kind,
in runs without temporal properties, except that of `ctx`, whose refinement
looks at single steps and is itself symmetric in the mbufs. Runs in which the
system may come to rest (start-up, traffic that ends, a process that exits)
do not check for deadlock.

**Fairness.** `FairSpec` of `IpsecCtx` and `TxPath` assumes that the lcore keeps
polling (`while (!force_quit)`), that the drain interval passes again and again
(`ipsec-secgw.c:1733`, strong fairness of the drain, because the loop visits the
test again and again with a larger clock), and that devices and NICs complete
what they accepted. `Threads` assumes weak fairness of each lcore and of the main
thread, which runs either `main` or the signal handler, once started; `EvFairness`
the same of `main` and the lcores. The threads of the flow log need none: their
properties are safety.
Nothing is assumed about arrivals, requests, events or signals, nor that a call
into DPDK succeeds.

## Findings

Three runs expect a violation:

* `startup_sockets`: the SPI of a rule is overwritten by an SA index before the
  next socket is initialised (`sp4.c:518`). The trace is a gateway with outbound
  SAs only: the SADs have fixed names, so that with inbound SAs the `sa_init` of a
  second socket already fails and exits (`sad.c:110-136`, `SadCreate`).
* `startup_wide_spis`: the comparator of SPIs wraps and is no order (`sa.c:1483`).
* `event_vector`: `check_sp_sa_bulk` takes the SA of an mbuf the NIC did not
  process (`ipsec_worker.c:192`).

Others are visible in the models, and a property names what it leaves out:

* Two lcores create one session or use it before it is initialised
  (`ipsec_process.c:306`), and a queue-pair index is used in the table of another
  lcore (`ipsec.c:134`): `SessionUsable` claims only the index for the packet of an
  lcore that met another one creating the session (`early`), and nothing where
  the lcores find different devices under the algorithm (`SameEntry`).
  In legacy mode neither an empty session pool (`CreateFails`) nor a device that
  refuses to initialise the session (`InitSession`, `ipsec.c:128`) is noticed.
* Plain ESP behind a UDP-encapsulated packet in a burst is looked up with a
  misread SPI (`Shifted` in `InboundPath`, `sad.h:86`).
* Without a fragment table, the default, oversize packets are dropped
  (`SendTooBig` in `TxPath`), although the usage text says fragmented.
* Two lcores inside one SA may give two packets one counter (`overlap` in
  `NonceUnique`, `esp.c:299`).
* Lengths near 64 KiB wrap in `pad_payload_len` and pass the size check
  (`Wraps`), and padding of inline crypto packets is left unfilled without the
  trailer offload (`Filled`, `esp.c:329`).
* `process_pkts_outbound_nosp` routes a whole burst by the family of its first
  result (`MixedFam` in `OutPolicy`, `ipsec-secgw.c:1074`).
* The accesses of `dpi`, the flush thread and the log thread that lose, repeat or
  flush a flow (`cause` in `FlowAccounted`). Two are worth naming: `dpi` sets the
  status of a new row (`ipsec-secgw.c:1470`) before its time (1482), so that the
  flush thread may take the row, which is of time 0, for idle (`fill`); and a row refreshed
  after the flush thread read its clock is idle for 2^64 seconds (`clock`, 332).
* A flow is lost without a trace when `push` has no memory (`logs.c:6-8`), and with
  a message only when the database refuses it (`db.c:252`): `lost` in `FlowsKept`.
* The KNI loops do not read `force_quit`: a process with one of them never ends
  (`HasRole` in `KniResponsive`).
* An eth core that starts after the last worker stopped runs for ever, an
  lcore without link stops the eth cores of the others (`late`, `Linkless` in
  `EthCoreLifetime`, `event_helper.c:924`).
* With one event queue RX and TX share it, and a machine without a second lcore
  has none to be the eth core (`PathComplete`).
* A driver-mode worker leaves the sessions of all ports but the first unwritten
  (`ipsec_worker.c:716`, `EvPolicy`).

Seen while reading, without a property of their own: packets whose userdata is
not found keep the SA of their mbuf (`ipsec-secgw.c:665`, `HasUserdata`); the
room test of `ipsec-secgw.c:785` flushes one packet early; an unsupported
algorithm consumes a sequence number (`esp.c:319`); the index of `--single-sa`
is not checked (`ipsec-secgw.c:2251`); `kni_change_mtu` stops the port without
a pause; the result of the enqueue to the TX adapter is ignored.

## Proofs

All theorems hold for every value of the constants that satisfies the named
ASSUMEs of the module; further hypotheses are stated in the theorem. TLC
evaluates the ASSUMEs in every run, and had checked each property before it was
proved. The invariants named here are the inductive ones; each proof has a lemma
per action or group of actions.

`IpsecCtxProofs` proves, from `CtxAssumption` alone: `TypeCorrect`,
`InFlightIsExact`, `BufNeverFull`, `OlPktsNeverOverflow`. None is inductive by
itself. `IInv` adds `BurstFits` (while a burst is enqueued, the packets left and
those in `ol_pkts` are together one burst at most, and the array is empty
outside) and `LoopBound` (the second dequeue loop stops at `last_qp`).

It then proves `EveryMbufAccounted` and the refinement `ContextImplementsLife`.
Counting slots is not inductive; the invariant `LifeInv` instead says that there
are functions `k` and `d` giving the kind of place and the queue pair of every
mbuf, that each set, list and queue holds exactly the mbufs `k` and `d` put there
(`SetsPlaced`, `ListsPlaced`, `QueuesPlaced`), that no list holds one twice
(`ListsDistinct`), that inline and lookaside mbufs are only where their SA allows
(`SasFit`), and that a burst is over before the next (`BurstDone`). Disjointness
of the places is then that `k` is a function. For every action a lemma builds the
new `k`, and shows that each mbuf's move is one of `PktLife`'s (`Moves`);
`OfferMoves` covers all enqueues to a device, `TakeMoves` all dequeues.

`SpdStartupProofs` first shows what `bsearch` returns, by induction on the size
of the interval, as the least size for which the claim would fail (`NatAll`):
that the recursion has a solution (`SearchSolves`), that what it finds has the
key in any array (`BSearchSound`), and that it finds what is there if the array
is in order and the comparison is an order (`BSearchFinds`), which the difference
as an `int` is below 2^31 - 1 (`CmpSmall`). From this follow:

* `StartupTypes`, for any number of sockets;
* `PolicySelects`, with one socket: the first half of `BSearchSound` is all it
  needs, so it holds for every SPI. `PolicyInv` adds that the rules of a family
  hold SPIs until its own init function runs (`Fresh`). More than one socket
  refutes it, as `startup_sockets` shows;
* `SpiPresentDecides`, for any number of sockets, if the SPIs are below 2^31 - 1
  (`NarrowTables`; `startup_wide_spis` shows why). `TablesInv`: the arrays are in
  order from the sort on, and `sa_init` copies all of them if every SA could be
  added (`AllAdded`);
* `ExitHasCause` and `SadHoldsThePolicys`, with one socket and such SPIs, from
  `SocketInv`: `sa_init` finds a rule exactly if there is one (`RulesSearched`),
  and resolving the rules changes no SPI of the configuration.

`SaSessionProofs` proves, when the hash tables hold a key for each context and
algorithm (`MapsFit`: 16384 entries), `QueuePairsExclusive`, `MapsSound` and
`MapIsComplete`; and, with nothing assumed of the pool, of the devices' answers or of
the number of lcores in one SA, `SessionIsUsable` and `SesTypeCorrect`. `MapInv` says
where the queue pairs given out can be from, and for the devices already passed that
the parameters that were not served found their table full or the device used up.
`SesInv` adds three claims. `SaOk`, of an SA: a session that is set was given to
the device the index leads to, or one of the lcores inside has still to do so. `CtxOk`,
of an lcore: what it is about to use has an index in its table. `Alone`: an lcore that is
not in `early` is the only one creating the session, and finds it NULL afterwards
only if the pool is exhausted.

`InboundPathProofs` proves `CacheAlwaysSound` and `LookupIsExact`, for a SAD with
at most one SA per SPI and family, when both tables exist. `LookInv` adds to the
soundness of the cache what is true in the middle of `sad_lookup`: the packets
are there, the SPIs read are theirs, and packets that are not among the misses
have their result. `LookupExact` speaks of the packets whose SPI is read from the
right place. With userdata found in addition, it proves `PolicyHolds`,
`EveryMbufInOnePlace` and `InTypeCorrect`. `PlaceInv` adds to `LookInv` that the
five places of an mbuf are disjoint and hold no mbuf twice; `PolicyInv` adds
`Decrypted`: the SA in an mbuf is the one that decrypted it, or the policy check
will not look at it.

`OutboundPathProofs` proves, for every number of lcores, SAs and packets and
every interleaving, `OutInvariant`, `PolicyIsObeyed`, `PeerUndoes`,
`CountersAreUnique` and `OutTypesCorrect`. `OutInv` says that a packet is in at
most one place (`Places`: a list of a lcore, a device, the packets sent), what
each place says of the packets in it (`Facts`), and that an ESP packet is what
`esp_outbound` made of a packet it accepted (`Built`). Each action moves packets
of one lcore only (`Moves`), which disturbs no other. `OutPolicy` is what the
last place says; `EspRoundTrip` follows from `Built` and lemmas about padding
and lengths. For the counters, `NInv` says, for an SA that no two lcores
were inside of at once, what the lcore between two accesses of `sa->seq` knows
of it and that all counters given out are below it; `Counted` bounds the
counters by the packets that are done with, so that `sa->seq` has its type.
`OutAssumption` restricts SAs to those of `sa.c:69-195` (block sizes 4, 8, 16 and
64) and packets to those not shorter than their own header. That no result is
longer than `IP_MAXPACKET` is claimed for legacy mode (`env.lib = "off"`): the
library checks the room in the mbuf and not the length.

`TxPathProofs` proves `BufferHasRoom`, `LeavesByItsPort`, `CountsAreExact`,
`TxTypeCorrect` and the action properties `EveryPacketQueued` and
`NothingOvertakes`. `TxInv` needs `HopsMatch`: the number of lookup results used
is the number of packets handled that are not offloaded, which is what keeps the
second counter of `route4_pkts` in step. `RefInv` says that each packet is at one
port at most and that its reference count is the number of positions it has there
and in the burst; cardinalities of sets of positions are followed through each
append, flush and take. `NothingOvertakes` needs only that every action removes
entries from the front of a port's packets and appends others.

`EventWorkerProofs` proves `ForwardedObeys`: every event in the TX adapter's queue
obeys the policy; `WorkerInv` remembers what the packet and the NIC were when the
event was enqueued, and `Forwards` states the effect of `Work` for all of its
cases. `EventTypes` is type correctness. `EventPathComplete` rests on `PathInv`:
`em` is what `eh_validate_conf` derives from the machine (`Derived`), deriving it
again from the result gives the same, and the links are those of the set-up
calls. Its hypothesis on the machine, in `EnvOK`, is that the set of lcores is
finite, which makes the lowest free lcore well defined and the lcores countable
(`MemberByRank`). `EthCoresServe` is the safety half of `EthCoreLifetime`
(`EthCoreServes`): `CoreInv` says that, until `force_quit` or an lcore without
work, no lcore is about to reset `eth_core_running` and the flag is set while an
eth core runs.

`ThreadsProofs` proves `TableStaysExact`, `FlushesInTime`, `ThreadsTypes` and
`PauseIsHeld`, for every number of lcores, keys, rows and packets and every
interleaving of the accesses. `TableExact` holds of rows nobody is working at; `TableInv`
says what holds between: two keys have two indices (`OneIndex`), an lcore that
fills a row has the index of its key (`FillsOwn`) and has written the key before the
status (`StatusKey`), a live row is in the table unless it is being cleared
(`LiveListed`), what is in the table is live or being filled (`ListedLive`), and the
flush thread deletes the row it looked at (`FlushHas`); all this until an index is
reused or a row is undone. `FlushesInTime` needs `TimeInv` beside it: no row is older
than its last packet but for an lcore that has still to write its time (`SeenOk`), and a
row the flush thread has taken for idle is idle (`DoomedOk`). `KniInv`: the pause is
that of the one lcore that answers the kernel.

Only model-checked:

* what assumes fairness (`CryptoCompletes`, `TxCompletes`, `KniResponsive` and
  the second half of `EthCoreLifetime`): liveness, which the prover does not
  handle;
* `FlowsKept`, the third part of `FlowAccounted`: that every flow is in the list, logged
  or lost, once;
* the three runs that refute a statement.

## What is not modelled

* The cryptographic algorithms, ACL, LPM and hash libraries: a device decrypts or
  fails, a lookup is a constant function, a hash operation is atomic.
* Reassembly: an RX callback around a table that is inside DPDK.
* The token parsers of the configuration: string handling that fills the arrays
  `SpdStartup` starts from.
* Ports, memory pools, hardware flows and the command line: sequential calls at
  start-up that succeed or exit. The mode switches are chosen in `Init`.
* The NATS subscriber: it formats messages that nothing in the program reads.
* Statistics, logging of the polling lcores, pcap dumps: written, never read for
  a decision. The rows of the flow log are reduced to the flow they are of.
* Tests and scripts.

Partly modelled: inline sessions are created before the lcores start and are not
in `SaSession`; `InboundPath` has no single-SA variant; event-mode
configurations supplied by a caller, which this program never supplies, are not
in `EventHelper`. `InboundPath` takes both SAD tables to exist and userdata to be
found in its run and, but for the cache, in its theorems; the model has the other
outcomes (`HasSad`, `HasUserdata`).
