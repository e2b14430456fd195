# TLA+ models of WSC_datapath

The repository simulates a wafer-scale GPU: `akita` is a discrete-event framework with
components, ports, connections, caches, address translation, DRAM and on-chip networks;
`mgpusim` builds GPUs from it (compute units, command processors, reorder buffers, RDMA
engines, a driver); `akkalat` holds the configurations and experiments of the wafer, among
them *T18*, a mechanism of the RDMA engines that merges remote reads, and the *remote
datapath*, which batches them into bitmap requests and keeps copies of remote lines.

These modules model the parts whose correctness depends on the order in which things happen:
the event engine, the network, the caches, the RDMA engines, the memory path of a compute
unit, the control path from the driver down to the wavefronts, and the driver's memory.
`PROJECT.json` lists the components, runs, mutants, findings, hazards and theorems and, for
every definition, the lines it models.

## 1. Inventory

| component | state | operations | what is hard | correct means |
|---|---|---|---|---|
| **Event engine, TickScheduler** (`akita/sim`: `serialengine.go`, `parallelengine.go`, `eventqueue.go`, `ticker.go`, `freq.go`) | time, primary and secondary event queue, `nextTickTime` of every component | `Schedule`, `Run`, `TickNow`, `TickLater`, `Handle` | ParallelEngine runs the events of one time concurrently; components sleep and rely on notifications; ticks are rounded to cycles | nobody sleeps who has something to do; no event in the past; the connection ticks after its components |
| **Ports, buffers, DirectConnection** (`port.go`, `buffer.go`, `directconnection.go`) | incoming buffer and `portBusy` of a port, source-side buffers and `busy` of a connection | `Send`, `Recv`, `Retrieve`, `Tick` | refused sends and deliveries, remembered by one mark each | no message lost, duplicated, misrouted or overtaken; no overflow |
| **NoC** (`akita/noc`: `endpoint.go`, `switch.go`, `mesh.go`, `channel.go`) | flits in endpoints, lanes, routing, forward and output buffers, `multicastSplits` | cut into flits, route, forward, split, assemble, deliver | back pressure; flits of one packet split one by one; wake-up of refused devices | every message arrives whole, once, everywhere it was sent |
| **Write-back cache** (`akita/mem/cache/writeback`) | directory, MSHR, bank and write-buffer queues, flusher | read, write, fetch, fill, evict, flush, reset | lines that are evicted, fetched and written at once; partial writes; flush while transactions are under way | it is a memory; a flush leaves nothing behind and ends |
| **L1 caches** (`writearound`, `writethrough`, `writeevict`) | group to coalesce, transactions, directory with its pipeline, MSHR, bank | coalesce, hit, miss, write past the cache, answer, flush, restart | writes that meet fetches and each other; overtaking in the directory; flush | no read returns what was replaced before it was asked for; every request answered |
| **Ideal memory controller, DRAM** (`idealmemcontroller`, `dram`) | requests, storage | read, write; command scheduling | any order of answers | |
| **RDMA engine** (`mgpusim/timing/rdma/comp.go`) | transactions from inside and outside, drain flags | requests and responses between L1, network and L2; drain, restart | shared windows, shared ports, draining while others still send | reads keep their order; nothing is under way when pages move |
| **T18** (`t18_requester.go`, `t18_owner.go`, `t18_credits.go`, `t18_cuckoo.go`) | merge tables, queues, waiters, fan-out, in-flight counts, cuckoo slots | accept, merge, issue, respond, fan out; join, close, multicast; acquire, release; lookup, insert, delete | writes against merged reads; overflow and bypass; borrowed credits; failed insertions | every request answered once, with a value the baseline could have returned; limits kept; nobody starves |
| **Remote datapath** (`remote_requester.go`, `remote_owner.go`) | entries, epochs, lookups, batches, bitmaps, fills; owner's batches | lookup, batch, bitmap request, partial responses, fill, drain | a dozen queues in which one line may be; stale copies; a filter that may be wrong | as for T18 |
| **Driver** (`mgpusim/driver`) | command queues, migration state and counters | launches, copies, flushes, migration | one counter for all GPUs; copies and migrations side by side | copies see what kernels wrote; pages move whole; commands end |
| **Memory allocator** (`driver/internal`, `distributor.go`) | free ranges, buddy lists and bit fields, page mapping | allocate, free, remap, distribute, migrate | bits that are toggled; calls of several threads between the steps of `Distribute` | allocated memory stays, on pages of its own |
| **Command processor, DMA** (`timing/cp`) | counters of acknowledgements, requests in process | launch, flush, copy, shootdown, restart | counters reused between phases | order of flush and restart |
| **Dispatchers, resources** (`cp/internal`) | launches, reserved registers, LDS, slots | place, map, complete | several dispatchers share compute units | no resource used twice or lost |
| **Compute unit** (`timing/cu`) | wavefronts, instruction buffers, units, accesses in flight, barriers, shadow lists | fetch, decode, issue, execute, retire, flush, resume, resend | a flush at any moment, also during the resend of an earlier one | program order, barriers, exact counters, every access answered once |
| **Reorder buffer** (`timing/rob`) | transaction list and table | top-down, bottom-up, discard, restart | stale messages after a restart | in-order answers; no orphan |
| **Address translator, TLBs, MMU** (`akita/mem/vm`) | translations under way, TLB sets, MSHRs, walks, page table, migration queue | translate, fill, walk, queue, migrate, flush, restart | copies of entries that a migration changes | nobody uses a translation that was replaced |
| **Page migration controller** (`pagemigrationcontroller`) | the request, pending blocks, write addresses | pull, read, write, acknowledge | blocks out of order; both roles at once | the page arrives whole |
| **Pipelines** (`akita/pipelining`) | stages | `Accept`, `Tick` | | part of `Noc` |
| **Emulator, ISA, benchmarks, runners, analysis** | | | sequential code, configuration, Python | out of scope |

Components interact through ports and connections only: a component's `Tick` retrieves messages
from its ports, changes its state and sends messages; a connection's `Tick` moves messages
between ports; notifications wake whoever sleeps. Exceptions are pointers in messages (the
compute unit and its ROB share the request object, whose ID changes when it is sent again),
the page table, and the resource pool that the dispatchers of a GPU share.

## 2. Modules

```
TickScheduler <- DirectConnection <- PingSystem <- MCPing              run ping
                                        |   \ INSTANCE FifoChannel
                                        PingSystem_proofs              theorems
Noc <- MCNoc        (INSTANCE PacketNetwork)                           run noc
CacheDirectory <- WritebackCache <- MemorySystem <- MCMemory           runs l2, l2_stale
                                        \ INSTANCE WordMemory
              MemorySystem, SequenceLemmas <- MemorySystem_proofs      theorems
CacheDirectory <- L1Cache <- L1System <- MCL1                          run l1
RdmaEngine <- T18Requester <- T18Owner <- T18System <- MCT18           run t18
              T18System, SequenceLemmas <- T18System_proofs            theorems
T18CuckooTable <- MCCuckoo      (INSTANCE EntryTable)                  run cuckoo
T18CuckooTable <- T18CuckooTable_proofs                                theorems
RemoteOwner, ReplicaCache <- RemoteRequester <- RemoteSystem                   run remote
RemoteSystem, SequenceLemmas <- RemoteSystem_proofs                    theorems
VectorMemoryPath                                                       run path
VectorMemoryPath, SequenceLemmas <- VectorMemoryPath_proofs            theorems
MemoryAllocator                                                        run alloc
ComputeUnit <- Dispatcher <- CommandProcessor <-\
                            PageTranslation  <- Driver <-\
                             PageMigrationController  <- GpuSystem <- MCGpu    runs gpu, migration
GpuSystem, SequenceLemmas <- GpuSystem_proofs                          theorems
```
(`A <- B`: B extends A.)

### The framework

**TickScheduler** is the engine. An event is a pair of a time and a handler; its two
classes are those of the engine's two queues. A tick is not one step: `pc[h]` walks through the
locations of h's Tick function, and with `Parallel = TRUE` the walks of the handlers of one
round interleave as the goroutines of `runEventWithTempWorker` do. `Tick(soon, late)` is
`TickNow` and `TickLater`, including the request that is dropped because a tick at this time, or
later, was scheduled already. `NextTick` has the rounding of `Freq.NextTick`. A step of a
Tick is a call that locks the port, the connection or the scheduler, with what precedes it.

**DirectConnection** is `port.go`, `buffer.go` and `directconnection.go`: bounded source-side
and incoming buffers, `portBusy` and `endBusy`, `forwardMany` one message at a time, round-robin
from `nextPortID`. **PingSystem** completes them to a program, the ping agent of
`ticking_ping_test.go`, generalised to N agents with frequencies of their own, several pings
and chosen destinations. Its Tick has the shape of all components of the simulator: try every
stage, report whether anything was done, sleep if not. **FifoChannel** is what
`connection_system.md` promises: per pair of ends, messages arrive in order, none is dropped,
duplicated or misrouted. `PingSystem!ReliableDelivery` is the refinement.

In all other modules a stage of a component's `Tick` is an action and the stages interleave
freely: which of them act in one cycle, and after which latency, only selects among these
orders. That a component with work ticks again is what `ping` establishes.

### The network

**Noc** is a mesh: devices, endpoints (message queue, flits to send, assembly) and switches
(pipeline lanes, route buffer, forward buffer, output buffers, `multicastSplits`), with the
mesh's routing Z, Y, X, links of several flits per cycle, and a multicast that is replicated
where its routes part and becomes sub-packets with IDs of their own. A device whose `Send` was
refused sleeps until `NotifyAvailable`. **PacketNetwork** is the promise it keeps (`Delivery`),
and what **RdmaEngine** assumes of it: its `net` is the NoC as the RDMA engines see it, packets
that arrive once, in order per pair for links of one flit per cycle, at ports of finite room.

### The caches

**CacheDirectory** is the LRU and the victim finder; **WritebackCache** the write-back cache of
`akita/mem/cache/writeback`, one set with one bank: top parser, directory stage (hits, misses,
MSHR hits, evictions, partial and full writes, `evictingList`), bank stage with its lanes,
`downwardInflightTransCount`, MSHR stage, write buffer with local fetches, and the flusher. A
value is the number of the request that wrote it. **MemorySystem** puts it between the agent of
the acceptance tests, the ideal memory controller, whose answers come in any order, and the
command processor, which flushes it at the end of a kernel or resets it in a shootdown.
**WordMemory** is the memory it refines (`ServesMemory`): words that hold what was written last.

**L1Cache** is the write-around, the write-through and the write-evict cache. The three packages
differ in what a write does to the directory only, so that they are one module, with `policy`
chosen by `Init`: coalescer (one operator per case of `processReq`), directory with its buffer,
its pipeline of several lanes and the buffer behind it, hits, misses and MSHR hits, bank,
bottom parser, respond stage, control stage, and the write-around cache's limit of transactions
below the RDMA engine. Address and PID are one line number: PID is 0 below the translator.
**L1System** adds the requester, memory and the command processor.

### The RDMA engines

**RdmaEngine** is `comp.go` without T18 and the remote datapath. Requests are numbers, and
a value of a line is its version, the number of writes that L2 has served. L2 is external:
it serves the requests for one line in order. `LocalWrite` is a write by the owner's
own L1, which does not pass the engine. **T18Requester** (with the credits of `t18_credits.go`) and
**T18Owner** follow their files function by function. A table is the set of its entries, and an insertion may fail as
soon as `Ways` slots are taken; **T18CuckooTable** justifies this (`FailsOnlyWhenFull`,
`IsEntryTable`). **T18System** composes them, with configuration switches (`ReqMerge`, `OwnerMerge`, ...,
and in `setup`, which `Init` chooses, `reqActive` and `ownerMulticast`), so that the baseline is an instance as well, and with the drain
that a migration asks of all engines.

**T18CuckooTable** is `t18_cuckoo.go`: each displacement is a step, so that the invariants speak
about the table in the middle of the walk and of the undo. Hashes are constants, `nextRand` is
a choice. **EntryTable** is the set it implements.

**RemoteRequester** and **RemoteOwner** are the remote datapath: the line table by line and
epoch, probes of the filter, of the exact table and of the requester's L2, batches per page,
single and bitmap requests, responses in parts, fan-out of ready lines, fills, writes that begin
an epoch, drain and restart. The typed filter appears by its answers: SEEN and RESIDENT are hints that
may be wrong both ways; a PENDING lookup may be positive without a key. **ReplicaCache** is what
the engine sees of its own L2: clean copies that may be displaced at any time, and a generation
that a flush advances. **RemoteSystem** adds the owner's L2, the links and the ends of kernels,
at which lines may change.

### The compute unit's path to memory

**VectorMemoryPath** is a compute unit's vector accesses through the ROB and the AT, with the
buffers of the connections, and the command processor's sequence: flush CU, discard AT, discard
ROB, (caches, TLBs, migration), restart AT, restart ROB, resume CU. The message to the ROB is the
access itself because the code passes a pointer: when the CU sends it again with a new ID, a
stale copy gets the new ID too.

### The control path

**ComputeUnit** holds the wavefronts of all compute units: fetch into an instruction buffer of
cache lines, decode at the program counter, issue to a unit (a queue of the unit's depth) or to
the scheduler's internal list, `s_waitcnt`, barriers with their buffer, `s_endpgm`, the three
lists of accesses in flight and their shadows, flush, resume and resend. A kernel is a sequence
of instructions; what they compute is left out, what they wait for is not. That the answers to
requests from before a flush are discarded is VectorMemoryPath's subject and assumed here.

**Dispatcher** is the dispatcher with the placement algorithms round-robin, greedy and partition, and the
resources of a compute unit: registers, LDS and wavefront slots, reserved for the wavefronts of
a work-group one after the other and given back when it is complete.

**CommandProcessor** takes one request of the driver at a time and hands it on: launches to a free
dispatcher, copies to the DMA engine, flushes to the caches, and leads shootdown and restart from one class of components to the
next with its counters, one operator per handler of the source. **Driver** works off command
queues, divides a launch among GPUs, flushes before a copy of a buffer that a kernel may have
written, and runs the migration protocol of `driver.go`. **PageTranslation** has TLBs, MMU and
page table, **PageMigrationController** both sides of the transfer of a page.

**GpuSystem** composes them, with the rest of the GPU reduced to what the control path relies
on: which frame an access goes to, of which frames L2 may hold dirty lines (`dirty`), which parts are paused, which
writes of flushed compute units are still under way (`orphans`), whether RDMA runs. A flush of L2 ends when all that is
dirty is in memory; the reset of a shootdown (`DiscardInflight`) writes the dirty blocks back, but may throw away any of the
victims that are on their way to memory. The history variable `lost` has the frames of those.

### The allocator

**MemoryAllocator** has the memory of a device in its two forms, a range with a queue of returned
pages and the buddy allocator with its free lists and its two bit fields that are only ever
toggled; on them the calls of `memoryallocator.go`, each under its lock, and
`Distribute`, which is a sequence of `Remap` calls with other threads in between. The field `parts` of a buddy
allocator is history: a block that is not the whole memory has been split. From then on a merge bit is wrong (section 4),
and what the properties say of free pages is said of a buddy allocator only until then.

## 3. Runs

| run | instance | question |
|---|---|---|
| `ping` | 3 agents of periods 1, 2, 3, connection of period 1, one place per incoming buffer, 1 or 2 at the source, up to 2 pings each to any other agent, ParallelEngine | does the engine ever stop with work left (`NoLostWakeup`), does a buffer overflow (`TypeOK`), is the connection a set of FIFO channels, under every interleaving of concurrent Ticks |
| `noc` | 3 tiles in a row, links of 2 flits per cycle, endpoints of 1; a multicast of two flits that the middle switch splits, and two other messages | the mesh implements `PacketNetwork`; everything arrives |
| `l2` | 3 lines for 2 ways of 2 words, 5 requests with alternatives, buffers of 1, MSHR and write buffer of 1, 2 bank lanes, up to 2 flushes of both kinds | the cache implements `WordMemory`; a flush finds no locked block, takes everything to memory, ends |
| `l2_stale` (violation) | 2 lines for 1 way, a write buffer of 2 | a read returns overwritten data; see Findings |
| `l1` | all three policies; 2 lines of 2 words for 1 way, one of them remote, 4 requests with alternatives, MSHR of 1, buffers and directory pipeline of 2, a kernel-end flush or a shootdown, which may leave requests in the pipeline | reads are fresh; everything is answered, unless a request that a shootdown left there opens an MSHR entry |
| `t18` | 3 GPMs. With merging at both sides, multicast, credits, window 3, tables of 3 and 2 slots with bypass: GPM 1 and 2 read and write one line of GPM 0 (3 + 1 requests, the third one a read), or GPM 0 reads 4 lines of a near and a far GPM. With the baseline requester with `maxOutstanding` 2 and owner merging with unicast responses: three requests, one local write, one migration | order and number of answers, counters, who is sent first and who may borrow, merged reads, no starvation, a drained system when pages move; `LargestRemainder` for every window up to 9 and every wafer of up to 4 GPMs at up to 4 hops |
| `cuckoo` | 3 buckets of 2 ways, 3 keys with colliding hashes and fingerprints, 3 kicks | table = set of entries; undo |
| `remote` | 2 lines of one page, 3 requests of any kind, batches of up to 2 lines, one batch at a time, window 2, links and ports of 1, one drain, one kernel end | order of reads, nothing left at a drain, every response expected, everything answered |
| `path` | 2 accesses, ROB of 2, one place in every buffer, two flushes | in-order answers, no orphan in the ROB, everything done, also when a flush meets the resend of an earlier one |
| `alloc` | CPU and 2 GPUs of 4 pages (`Order` 2), both kinds of memory, two processes with 3 virtual pages between them, 6 calls | what is allocated stays, unless the other process frees the page of its number, and is nobody else's; `Distribute` reports what it did; free lists. Of a buddy allocator: until a part of its memory is split |
| `gpu` | 2 GPUs with 2 and 1 compute units of 2 SIMDs, 2 dispatchers each, 2 pages of 2 blocks, six programs (below) | no work-group twice, program order, barriers, counters, resources, copies, migrations, translations; deadlock is checked |
| `migration` (violation) | 2 GPUs with one compute unit each, pages of one block; two kernels that use a page of each other's GPU | a page migrates to where it is; see Findings |

The programs of `gpu`: *copies* (copy in, a kernel that uses every unit, a kernel that writes,
copy out), *share* (a launch on both GPUs, one of which writes to a page of the other, which
migrates), *move* (a barrier while a page leaves the GPU), *drain* (a write over RDMA before
the migration of another page), *jump* (a branch, so that fetches go astray, during a flush), *fit*
(two kernels that do not fit together, all three placement algorithms).

ParallelEngine may also run the events of a round one after the other, so the orders of
SerialEngine are behaviours of `ping`.

**Why the bounds are enough.** The hazards need two messages of one sender, a full buffer,
two merged requests, one write between two reads, one flush between a request and its answer,
two flushes in a row, a line that is evicted while it is wanted again, one page that moves while
its users run; every instance has at least these, and capacities are so small that each "full"
branch is taken. More messages repeat the same situations. Bounds that are not in the code:
`MaxPing`; `MaxReq`, `MaxFlush`, `FlushKind`, `Workload` of the cache (a shootdown comes before the
first write, a kernel-end flush after the third request: see section 6 for what a later
shootdown does); the same for the L1 caches (a shootdown after the second
request, a kernel-end flush after the third); `maxLocal`, `maxDrain` and the requests in `Setup` of T18; `MaxWindow`,
`MaxHops`, `MaxDst` of `LargestRemainder`; `MaxReq`, `MaxKernel`, `MaxDrain`, `WireCap` of the remote datapath;
`MaxAccess`, `MaxFlush` of the path; `MaxPages` and `MaxCalls` of the allocator: six calls suffice for blocks to be split over two levels,
returned in any order, merged up to the whole and allocated again, and for a queue of returned pages to be used; the programs of `gpu`.

**Restrictions of `alloc`.** The buddy allocator's merge bits are wrong once a block that is not the whole memory has
been split, and a free takes the page of the process that was given its number last: section 4. The properties say
what the code keeps in spite of that. Without `BitsAgree` TLC finds both `KeepsItsMemory` and `FreeListsSound` violated in this instance, and
without the exception for the other process (`MayHaveFreed`) it finds `KeepsItsMemory` violated.

**Restrictions of `gpu`.** Only vector accesses are translated; remote ones are with the RDMA
engine from their translation on. The TLB levels are one TLB; responses reach its port at
once, and an entry may be evicted before its use. Branches go forward. All waves of a
work-group meet the same barriers and the barrier buffer has room (otherwise see Findings). Kernels at one time are no more than
dispatchers, and a copy that needs a flush does not overlap a migration; the driver handles one migration at a time. The GPU that holds the migrating page has no request for a migrating
page with the MMU (otherwise see Findings). A page walk that began before the driver's response
to a migration is over when the MMU processes the response (`Walk`'s guard: the walk takes 100
cycles and more, the response one). In *move* and *jump* the stopped wavefronts of GPU 2 and the
access that asked for the page go on when the migration has ended (`MCNext`); in *share* and
*drain* at once.

**Restrictions of `l1`.** `MCNext` lets the directory's pipeline move whenever it can, unless a
group waits in the coalescer. A shootdown resets the cache at any time, with requests in that pipeline and the buffer behind it that
survive it. `AllAnswered` makes one exception for them: a survivor that opens an MSHR entry (`Orphaned`, section 4); without it TLC
finds the property violated. Groups are smaller than
`maxNumConcurrentTrans`, and the requests of a group are all reads or all writes.

**Fairness.** `PingSystem` and `Noc`: `WF_vars(Next)`, because `Engine.Run` handles events until
none is left, a handler never blocks, and in these finite systems some step leads on.
`L1System`: weak fairness of everything but new requests and flushes. `MemorySystem`: weak fairness of the cache, the agent's reception, the memory and
the command processor's reception, each of which ticks while it can do something, and not of new
requests or flushes. `T18System`: weak fairness of `Sure`, everything that a stage of
an engine, the network or an L2 can do, without starting a migration, local writes, or an
insertion that finds `Ways` slots taken: the hash decides whether it succeeds.
`RemoteSystem`: of requester, owner, caches, and of the driver's answer to a drain; not of new requests,
kernel ends, drains, or displacements. `VectorMemoryPath`: the same, without the start of a flush.
`GpuSystem` states none: ENABLED of its next-state relation costs too much for TLC. Its
programs are finite, so that checking deadlock is what remains of liveness: no run
of a program gets stuck before its end, except in a cycle of steps, of which the model has none
besides the end's stuttering.

`AllAnswered` of `T18System` holds for buffers and owner windows that take all requests
in flight, as in this instance; section 4 says what happens otherwise.

**Deadlock.** `PingSystem` and `GpuSystem` have an explicit `Finished` step and the cuckoo table
never stops: their runs check deadlock. The other systems stop when their finite workload is
done (`CHECK_DEADLOCK FALSE`); stopping earlier violates `AllAnswered`, `AllArrive`, `FlushEnds`
or `AllDone`. An allocator whose memory or `MaxPages` is used up stops legitimately.

**Mutants.** For every property of every passing run, `PROJECT.json` names a definition and a
variant of it with a plausible mistake (marked `Mutant:` in the modules, and otherwise unused);
with the variant in its place TLC finds that property violated.

Some invariants that hold in these instances are in no run (`WakeInv`, `OneOpenEntry`, `OwnerCounters`, `OneFetch`, `OneCopy`,
`CopyInSync`, `NothingLost`, the `TypeOK` of some modules, `LookupFinds`, `AnsweredInOrder`): they are the stuff of
inductive invariants. Section 5 says which of them are proved.

## 4. Findings

1. *Two evictions of a line in the write buffer* (`l2_stale`). `findDataLocally` searches the
   evictions that memory has not acknowledged before those that wait, each from the oldest on. A
   line that is evicted, fetched back from the write buffer, written, evicted again and read
   returns the older data. The agent of the acceptance tests calls that a mismatch.
2. *Stale page copies in the MMU's migration queue* (`migration`). A request waits in the queue
   with the page table entry that its walk found. A shootdown makes a TLB forget that it waits,
   and ask again after the restart. Then two requests of one GPU for one page are with the MMU; the first
   moves the page, the second decides by its copy, reverts the page table to the frame that the page
   has left, and asks the driver to migrate the page to where it is. In the shortest trace the
   first walk takes as long as a whole migration; the same happens when both walks are over and both
   requests are in the queue. The unit test of the MMU expects an answer without migration.

Observed while modelling, from the code and outside the listed runs:

*RDMA and T18.*
- Merged reads and the owner's own writes: `t18_owner.go` says that merged reads get exactly what
  they would get if each had been forwarded on arrival. A write by the owner's own L1 does not
  pass the engine and closes no entry; a read that joins after L2 has served such a write returns
  the older value.
- Head-of-line blocking: requests and responses share `ToOutside`. A request refused because the
  owner window is full holds up the responses behind it that would free the window of another owner; two
  such owners wait for each other, against `connection_system.md`. Sizes decide whether
  a workload meets it.
- `processRDMARestartReq` (comp.go:309) retrieves the request before its response is sent, and would lose both if the send
  failed. It does not fail: the port's place in the connection is empty, because the answer to the drain has been received before the
  driver asks for the restart. Therefore this is one step of the model.
- Links of several flits per cycle do not keep the order of packets of a pair (`Noc!MovePipeline`);
  the order of reads is checked for ordered links only.

*Remote datapath.*
- The PENDING key of a line has no epoch: two entries of a line share it, the first to end
  removes it, and a filter that then denies the line lets a third entry take the second's place in
  the line table. Its waiters are never answered, and a drain panics ("RDMA drained with remote
  read waiters outstanding"). With a filter that always sends such a read to the exact table, as in `remote`,
  this does not happen.
- Entries that were never probed have `replicaGeneration` 0, so that after the first flush their
  fills are never installed.
- With `DisableDedup` and batching, two reads of one line overwrite each other in their batch.
- `remoteUncacheable` survives a drain. A kernel that begins before the last fill is acknowledged
  would read the old line; the model starts kernels later than that.

*Caches.*
- `finalizeWriteHit` (bankstage.go:298) decrements `downwardInflightTransCount`, which a write
  hit never incremented: the lane that is to be kept for data on their way up is not.
- A shootdown discards transactions with the dirty victims they have already taken from their
  blocks (the bank stages and `writeBufferBuffer` are cleared, writebackcache.go:188, writebufferstage.go:1015), and leaves `evictingList` and
  `downwardInflightTransCount` as they are. What was written to those lines is gone, and a page that is then migrated is copied without
  it: with `lost[h]` added to `dirty[h] \cup orphans[h]` in `PagesMoveWhole`, TLC finds it violated in the instance of `gpu`.
- With fill forwarding a read is answered while its block is locked for the fill, and a
  kernel-end flush panics on the locked block.

*L1 caches.*
- `hardResetCache` leaves the directory's pipeline and the buffer behind it as they are. A read that
  survives a shootdown there locks a block and opens an MSHR entry after the restart; its
  transaction is gone, so that the answer is dropped and later reads of the line wait for ever: `Orphaned` in `AllAnswered`. A survivor to a
  line below the RDMA engine also keeps its place in `remoteBottomTrans`; the requests to such lines in `l1` are reads,
  which open an entry as well.
- A write that joins an MSHR entry is answered when the fetch returns. A kernel-end flush may
  therefore be answered while a write is on its way to memory; the acknowledgement of that write is then dropped
  without `releaseBottomTransaction`.
- `mergeMSHRData` applies all writes that joined before any read is answered: an earlier read
  returns the data of a later write.
- `canReqCoalesce` compares addresses only: a read and a write of one line in one group panic. A
  group larger than `maxNumConcurrentTrans` waits for ever. A request that may be coalesced waits for the next
  request, possibly for ever: the translator sends requests on in the order of their translations,
  so that the last one of an instruction may come first.
- In a pipeline of several lanes a load may overtake an earlier store to its line (five requests
  are needed, more than `l1` has).

*Network.* A multicast flit needs room in the forward buffer for all its branches at once, and
blocks for ever if the buffer has fewer places. An endpoint with more input than output channels per cycle would
stick at `prepareFlits`.

*Driver.*
- `vAddrToPageMapping` is keyed by the virtual address alone, and processes use the same
  addresses: a free takes the page of the process that was given the number last from its page table and returns it. That process still
  counts on it; the page of the process that called is never returned.
- `Free` returns the first page of a buffer only; the old pages of a `Remap` or of a migration
  are never returned; a second `Free` returns a page twice. When the
  buddy allocator splits a free block that is not the whole memory, it toggles the merge bits of the blocks it splits but not the
  bit of the parent (devicebuddymemstate.go:112), as it does when it takes a block undivided. From then on the bit tells the opposite: a block merges with
  a buddy that is in use, and memory is handed out twice. With 4 pages, three single pages and one free are enough.
- `Distribute` and `allocateMultiplePages`: no lock over the whole call; only one page is
  checked for room.
- `commandqueue.go`: `Notify` does not block, and `DrainCommandQueue` checks before it waits, so that
  a wake-up can be lost; `runAsync` and `runEngine` race on the engine's state.
- A copy's physical address is computed when the command starts, one timer serves all delayed copies, `l2Dirty` is never cleared, `removeFreedBuffers`
  cuts the slice it ranges over, `ctx.buffers` has no lock, and `findContext`'s check for nil is never true.
- The responses of a shootdown are awaited for ever if `accessingGPUs` is empty.

*Command processor and dispatchers.*
- A flush request during a shootdown shares `numCacheACK`: the shootdown is reported early, and
  the flush's own answer finds no `currFlushRequest`.
- A launch that no dispatcher can take stays at the head of `ToDriver`, with the drain and
  shootdown behind it that a running kernel may be waiting for.
- Kernels of several queues are not separated by cache flushes. LDS accounting ignores dynamic
  local memory; a work-group that fits no compute unit waits for ever, and so does one for an
  unlimited pool (-1). DMA goes past L2, so that a frame that is freed and used again may meet
  old lines.
- The page migration controller keeps one requester (`requestingPMCtrlPort`); a second request before the answer to the first would
  get both answers. The driver handles one migration at a time.

*Compute unit.*
- A full barrier buffer. A wavefront that reaches a barrier when the 16 places are taken stays in `internalExecuting`
  (`evalSBarrier` returns false, scheduler.go:444). When the last wavefront of its work-group arrives, all become ready,
  but only the buffer is cleared: `removeAllWfFromBuffer`, which clears both, is called by nobody. In the next
  cycle the wavefront is evaluated again, behind the barrier: it stops at an instruction that is no barrier,
  or, if that has been issued, the scheduler evaluates an instruction of another unit. Six
  work-groups of four on a compute unit are enough. The test "should continue execution if all wavefronts from a
  workgroup hits barrier" (scheduler_test.go:479) has three wavefronts in the buffer. The scenario *crowd* of `MCGpu` (two
  work-groups of two) with a `BarrierBufferSize` of 1 and one compute unit with room for four wavefronts violates
  `ProgramOrder`.
- A wave that ends early leaves its work-group at the barrier.
- `FetchArbiter` takes a read lock that it does not return; `IssueArbiter` stays at one SIMD while it has
  work; `numTransactionInFlight` of the vector memory unit only goes down; `runExecStage` of the
  scalar unit reports progress when its buffer is full.
- `handlePipelineResume` panics if its response does not fit. A second flush while the CU is
  paused loses the shadow lists. Answers out of order to instruction or scalar accesses are
  dropped. Sampled completion events block a flush.

*Translation.* A TLB flush does not clear `respondingMSHREntry`. A host's own queued request with
an old copy reverts the page table as in finding 2, with a third GPU the pages are read from the wrong
host, and a request queued while its page migrates keeps an unpinned copy, so that a pinned page
may migrate again.

Also observed, and harmless: requests whose copies survive a flush in a connection are executed
twice, and the second answer is dropped.

## 5. Proofs

`PingSystem_proofs` proves, for every number of agents, every frequency, capacity, workload
and both engines (the ASSUMEs of `TickScheduler`, `DirectConnection` and `PingSystem`):

- `TypeCorrect`: `Spec => []TypeOK`, so no `Buffer.Push` ever panics;
- `WakeCorrect`: `Spec => []WakeInv`;
- `NoLostWakeupCorrect`: `Spec => []NoLostWakeup`.

`NoLostWakeup` is not inductive. `WakeInv` says where the memory of unfinished work is: in
`ConnAwake`, a message in a source-side buffer keeps the connection awake, or its receiver's port is
marked `portBusy`, or the scan of the running Tick has yet to come to it; in `AgentAwake`, the
same for input, pings and answers of an agent. A mark is good only while its buffer is full
(`BusyMeansFull`), because then the notification is still to come. And a `TickNow` may
be dropped only if the connection has not ticked at this time yet: `ConnRunsLast`, the reason why
connections are secondary. `SchedInv` ties queue and `nextTickTime` together.

The proof goes action by action, one step per conjunct that an action can disturb; lemmas about
`NextTick` (it is later than now) and about `Tick` are stated once.

### The cuckoo table

`T18CuckooTable_proofs`, for every number of buckets and ways, every hash functions, every `MaxKicks`
and every set of entries (`TableAssumption`, `EntryAssumption`): `TypeCorrect`, `IndexCorrect`,
`FailsOnlyWhenFullCorrect`, `LookupCorrect` and, for the refinement of `EntryTable`,
`ImplementsEntryTable`. `IndexAgrees` is not inductive: that an undo ends with the new entry in hand, so that a
failed insertion leaves no trace, depends on what the slots on the undo log hold. `IInv` says it with the walk
so far (`Walk`): slot `moves[j]` held `h[j + 1]` until `h[j]` displaced it and holds `h[j]` now, unless the walk came
back to that slot; then what it displaced there is `h[j]` again. `Housed` (an entry is in one of its
two buckets) is what makes `Lookup` complete. The refinement follows: a step of a walk or of an undo is a stutter, and
the last step of the call adds its entry or nothing.

### The T18 engines

`T18System_proofs`, for every set of GPMs (finite), lines and owners, every workload, all
sizes of tables, windows, queues and buffers, links that keep the order or not, T18 on or off at
either side, and any number of migrations (the ASSUMEs of `RdmaEngine`, `T18Requester`,
`T18Owner`). `SequenceLemmas` states what `Append`, `Tail`, `Front`, `\o` and `RemoveAt` do to length and elements.

- The requesters: `WellTyped`, which needs to know that an entry of the owner always has a
  request to answer, because the code takes the first; and `RequesterInvariant`, from which `RequesterCountersCorrect` and
  `AnsweredOnceCorrect` follow. `RequesterCounters` is not inductive alone: that `Issue` counts an entry once, and
  that `Response` takes back what `Issue` has counted, needs that the FIFOs hold the entries that are not sent, each
  in one place (`QueueOK`), and that an entry is found by one number (`SeqOK`). The counters are stated over
  these numbers (`SentSeqs`), which closing and merging leave alone, and not over the entries, which they change.
  `PlaceOK` puts every accepted request in exactly one of an entry, the fan-out, the baseline's
  transactions and the answers.
- The requesters and owners together: `SystemInvariant`, and from it `DrainedBeforeMoveCorrect` and `MergedAsForwardedCorrect`.
  - `PlacedOK`: a request is in one place between its `Send` and its response - a link, a port,
    `fromOutside`, the merge table or the response queue of the owner - and only while its requester waits for it
    (`Outstanding`). So when all requesters have nothing to wait for, nothing is under way anywhere,
    although the owners' engines may have answered the drain request long before the others: this is the argument
    that the driver relies on. `DrainInv` is the driver's side: the number of acknowledgements it waits for is
    that of the engines that have not drained, and an engine that has drained stays quiet, since it takes
    nothing from L1 until it is restarted.
  - `L2OK`: what is at the L2 belongs to a request or an entry and comes back once; `OwnedOK`: all requests for a
    line go to its owner. `ReadOK`: after the L2 read of an open entry comes no write of its line that
    passes the engine, neither among the requests at the L2 nor among the writes already served. A write
    closes the entry when it is seen, before it is forwarded, also if it is blocked; the L2 serves a
    line in order. A write by an L1 cache of the owner itself does not pass the engine and is not counted.

The proofs go action by action; an action's effect on a buffer is one of a few lemmas (`InAppend`, `InTail`,
`InRemoveAt`, ...), and what it leaves alone is a frame lemma (`Untouched`, `OwnerFrame`, `KeepStep`).

### The path of the vector memory accesses

`VectorMemoryPath_proofs`, for any number of accesses and flushes and any sizes of the lists and buffers
(`PathAssumption`): `PathInvariant`, and from it `RightDataCorrect`, `NoOrphanCorrect` and
`NothingLostCorrect`. (`NothingLost` is checked by no run, because `AllDone` fails with it; it is
the safety half of `AllDone`.) The conjuncts of the invariant `PathInv`:

- `PhaseOK`: which of CU, ROB and AT is stopped in which phase of the command processor's sequence; in
  the phases from `discardAT` to `resume` the CU has nothing in flight.
- `OrderOK`: the accesses are numbered in program order; answered, in flight and to be sent again are
  three consecutive ranges. `ReachOK`: no message is for an access that was never sent.
- `TransactionsOK`, `DataOK`: a message between ROB and AT has the ID of a transaction for the access that the message
  is for, or of one that is gone. IDs are never reused, so an answer from before the flush is dropped. `DataOK` is what makes
  a response that the CU takes the right one.
- `FlowOK`: the ports, the connections and the ROB's list between the CU and itself are one queue of
  accesses (`Way`), in which a response with an earlier ID counts as 0, because the CU will drop it. The accesses
  that have been sent are in it, in program order (`InOrder`). Copies from before the flush stand between
  them and may be answered with the current ID, since a request that is sent again is the same object;
  the order is what makes such an answer harmless: the CU drops it only if it is not for the oldest
  access, and then a later copy of its access is still behind that of the oldest one.

Most steps leave the queue as it is, because a message that is delivered, or a request that becomes a
transaction, or a transaction that becomes a response, keeps its place (`MovesOver`, `MovesIn`, `MovesOut`,
`MovesBack`). The lemmas about `InOrder` say what appending, taking the head and changing marks of other accesses do.

### The remote datapath

`RemoteSystem_proofs`, for every finite set of lines, every page size, all limits of batches, wires and
outstanding requests, any number of requests, kernels and drains, with or without deduplication and the
requester's L2 (`OwnerAssumption`, `TopAssumption`, `RequesterAssumption`, `SystemAssumption`):
`RemoteInvariant`, and from it `ResponseExpectedCorrect` and `DrainedAnsweredCorrect`. The conjuncts of the
invariant `IInv`:

- `FlowInv`: a line that is asked for is a token (class of the request, number, line). A token is in at most
  one of six places (`Flow`: the wire, the owner's list of reads, its L2, the L2's responses, the data of a
  batch, the way back), once, and only while the requester waits for it (`Asked`). A response is the union of
  tokens that the owner had, so it brings only lines that the requester's batch has not got: this is
  `ResponseExpected`. `OwnerInv` ties the owner's books to the tokens: `subReqs` has the lines that the owner reads
  from its L2, and `remaining` counts them.
- `SentInv`: what the requester has sent belongs to entries: a line of a batch that has not come back is of an
  entry in flight for that line, and of no second batch or single request.
- `CacheInv`, `QueueInv`: which queue has an entry says what its state is, and no queue has one twice.
- `TableInv`, `WaitersInTable`: no read waits at two entries, the waiters of all entries are the reads that
  `outstandingReads` counts, and an entry with waiters is in the line table.

`DrainedAnsweredCorrect` has a hypothesis, `Exact`: deduplication is off, or the filter never denies a line that
has an entry. With the cuckoo filter it may (section 4: the PENDING key has no epoch), then an entry is
replaced in the line table although reads wait at it, and the conclusion is false.

Values of lines are left out of the invariant but for their type. For the prover's sake the model has names for
functions with one more element (`With`) and for entries queued in the order of their lines (`QueuedInOrder`).

### The write-back cache

`MemorySystem_proofs`, for any number of lines, words, ways and requests, all sizes of the cache's buffers, either
policy for the MSHR and any flushes and shootdowns at any time (`CacheAssumption`, `SystemAssumption`): `LockInvariant`,
and from it `FlushFindsUnlockedCorrect`: the panic of `prepareBlockToFlushList` never strikes. That property is far from
inductive. A way is locked in the directory stage and unlocked in the bank's pipeline, by the write buffer or by the MSHR
stage, and between the two its transaction passes queues that know nothing of locks; a shootdown forgets the requests in
flight and leaves their transactions in these queues. The conjuncts of the invariant `LockInv`:

- `PlacesOK`, `OnceOK`: behind the directory stage a transaction is in one of eight places (`Held`: the three of the bank,
  the write buffer, its fetches, the way back to the bank, the queue and the register of the MSHR stage), once,
  and each place has only transactions of some kinds (`ActAt`). `FrontOK`: what has yet to be looked up is in none.
- `LocksOK`: a locked way has a transaction in flight that has yet to unlock it (`Owns`), and the readers of a way are
  as many as the read hits in flight on it (`ReadsOf`), none of which the bank has dropped.
- `JoinedOK`: an entry of the MSHR has a request, its way is that of its leader, and who joined has no transaction of
  its own; so the stage that answers the waiting requests unlocks the way that the leader has locked.
- `OrphansOK`: a transaction that a shootdown orphaned is not in flight. `MemoryOK`: memory answers each fetch once,
  so that no answer comes for a fetch that is over. `QuietOK`: nothing is in flight while the directory is flushed.

Sixteen actions change these books in eight ways only, and each is a lemma: a transaction stays (`StayStep`), moves to
another place (`MoveStep`), enters, leaves, is filled, is served. The proof of an action says which one it is. TLC checked `LockInv` on
the constants of `l2` and, with flushes and shootdowns at any time, on a smaller workload, before it was proved.

### The compute units

`GpuSystem_proofs`, for any GPUs, kernels, programs and sizes, and whatever the rest of the GPU and the driver do in between
- launches, flushes, migrations, copies (the ASSUMEs of `ComputeUnit`, `Dispatcher`, `CommandProcessor`, `PageTranslation`,
`PageMigrationController`, `Driver` and `GpuSystem`).

*No work-group is dispatched twice* (`NewWorkGroupsCorrect`): a work-group that a compute unit is asked to map is not in a pool
already, for each algorithm, any number of dispatchers and kernels divided among any GPUs. Two dispatchers share
the compute units, a work-group that does not fit is held and offered again, and an exhausted partition takes what another one
holds; so the property relates the driver's queues, the messages, the dispatchers and the pools. The conjuncts of the
invariant `FreshInv`, which TLC checked on `gpu` first:

- `PendingOK`, `QueuesOK`: a launch is in one place, the driver's queue, the wire or the port of one command processor, once,
  and its ID is one the driver has given out, so that launches of one kernel are told apart.
- `DispatchersOK`: a launch that a dispatcher works on is in none of those places and with no other dispatcher. What a partition
  holds is its next work-group (`HoldsNext`), and a work-group that waits to be sent is among those the partitions have counted.
- `OutOK`: what is on the way to the compute units or in their pools has been counted by its dispatcher if the launch is still there,
  and belongs to no launch still pending; two requests on the way are for different work-groups. As partitions are
  disjoint (`OnePartition`), what an algorithm offers next has not been counted (`AlgorithmGood`), so it is in neither.

The programs are those of `ProgramsAssumption`: commands for existing GPUs, and a unified launch names none of them twice.

*Instructions in order*: `OrderInvariant`, and from it `InstructionsInOrder`, the
theorem of `ProgramOrder`: what a wavefront executes is the instruction at its program counter, over flushes,
discarded fetches, branches and barriers. It has one hypothesis about the behaviour:

- `[]RoomAtBarrier`: a wavefront that executes a barrier either is the last of its work-group to reach it or finds room in the
  barrier buffer. Without room the code lets the wavefront run on before its time, and `ProgramOrder` is false (section 4).
  So the hypothesis marks the bound under which the scheduler is right.

The conjuncts of the invariant `OrderInv`:

- `WavesOK`: the instruction buffer of a wavefront holds consecutive lines, beginning with the line of
  the program counter or an earlier one; while a wavefront runs or waits at a barrier its instruction is that at its program counter. A fetch is
  answered after the wavefront may have branched, been flushed or have fetched the same line again; the answer is recognised by
  its address alone, and it is because the buffer is consecutive that an answer for another address is dropped.
- `GroupsOK`: the wavefronts of a work-group come together, stay on one compute unit and go together.
- `BusyOK`: a wavefront that is in a unit or with the scheduler is there once, in one of them, and is running; no unit has an
  `end`. The end of the last wavefront and a barrier change the records of all wavefronts of the group; none of those
  is in a unit then, so that no result comes late for an instruction that has been replaced.

*Resources* (`ResourcesDisjointCorrect`): the SGPR, LDS, VGPR and pool entries that a compute unit's books show as used are
exactly those of the work-groups it holds, and no two wavefronts or work-groups share one; for any sizes of kernels,
SIMD units and dispatchers. A work-group's resources are reserved when a dispatcher places it and freed by `FreeResourcesForWG` when
its completion arrives, long after; the masks do not say whose a unit is. So the property depends on the dispatchers:
each places a work-group once and frees it once, on the compute unit that took it, after its wavefronts have left the pools. The invariant
also excludes the panics of `neverReserveTwice` and of `FreeResourcesForWG`. It is `PlacedOK`, which rests on `FreshInv`:

- `BooksOK`: the books of each compute unit are consistent (`Booked`; what is used is what the holders own, `Owned`), and who
  holds something has been counted by its dispatcher (`Begun`), so that what is reserved next is held by nobody.
- `SentOK`: what a dispatcher has placed, and what it waits for, is held on the compute unit it was placed on, and each work-group is
  waited for once. So a completion that is taken for one in flight frees what is there to free.
- `DoneOK`: a work-group reported as completed is in no pool, in no request and not about to be sent, so no wavefront
  is left without its place when the dispatcher frees it.
- `InPlace`: a wavefront in a pool runs on the SIMD unit that its place names, and its work-group is
  held there.

What is free is found by a search (`FirstFit`, `MatchSIMDs`). The model states what the search finds - the lowest region
that fits, the next SIMD unit with room - and `FirstFitFree` and `MatchedFree` show that it overlaps neither what is
used nor itself.

### Only model-checked

- All liveness properties: the prover has no rules for fairness and ENABLED here.
- `LargestRemainder`, `OwedFirst`: they are about sums over sets (`MapThenSumSet`, `FoldSet`), whose
  properties need induction over data.
- `ReadsInOrder` of `T18System` and `RemoteSystem`: the invariant would have to follow all requests of a GPM for
  a line, in order, through entries, FIFOs, links and the L2 at once.
- `OneCopy`: that a miss finds its line in no way rests on what `FindVictim` returns, which searches the ways in
  the order of their use (`SelectSeq`, a recursive operator that is opaque to the prover). The same holds for the
  folds in `MemoryAllocator`.
- `KeepsItsMemory`, `PlacedAsReported`, `FreeListsSound`: about what folds over free lists and pages return.
- `CountersExact`: the counters are compared with what filtered sequences (`SelectSeq`) hold. `BarrierSync` counts barriers
  passed, and holds if all wavefronts of a work-group meet the same barriers, which depends on the branches taken.
- `TranslationsCurrent`, `PagesMoveWhole`, `CopySeesFlushed`: about the whole protocol of a migration, and true only under the
  restrictions of `gpu` that section 3 lists; of what a reset has discarded `PagesMoveWhole` says nothing. `ReadsFresh` of `L1System`: under those of `l1`.
- The refinements `ReliableDelivery`, `Delivery` and `ServesMemory`, and the components that section 7 lists.

## 6. Not modelled, and abstractions

- Statistics, tracing, hooks, monitoring, latencies other than the order of events.
- *Network*: table-based routing, PCIe and NVLink topologies.
- *Caches*: GL0 invalidation, which nobody sends; of the write-back cache its
  filters, prefetchers, pairing of DRAM reads and fill forwarding; several sets, banks and requests per cycle.
  A shootdown after a write is left out of `l2` because it loses data, as section 4 says; `GpuSystem` has it as `lost`.
- *DRAM* command scheduling: timing constraints, with no protocol towards others than the ideal controller's.
- *Remote datapath*: prefetcher and speculation, `DisableBatching`, the authoritative audit; more
  than one requester or owner; links that reorder. The owner's L2 is external and serves a line's requests in order.
- *T18*: credits are computed in exact arithmetic; `float64` may break ties between equal
  remainders differently. Requests that wait at `ToL1` during a migration while the L1 caches are reset.
- *Vector memory path*: coalesced translations, GL0 invalidation.
- *Compute unit*: what instructions compute, register files, several accesses per instruction,
  sampled execution.
- *Translation*: the levels of the TLB hierarchy, GMMU, MMU caches, translation prefetch.
- *Driver*: host threads and their subscription to queues, pausing the engine, magic copies and
  global storage, code objects.
- *Emulator, ISA, benchmarks, runners, Python*: sequential functional code and configuration, with
  no protocol to check.

## 7. Plan

The components above are modelled as far as their protocols go. What remains is to prove more:

1. `KeepsItsMemory` for the regular kind of `MemoryAllocator`.
2. `ReliableDelivery` of `PingSystem`.
3. `OneCopy` of the write-back cache; `TranslationsCurrent`.
