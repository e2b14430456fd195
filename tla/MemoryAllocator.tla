---------------------------- MODULE MemoryAllocator ----------------------------
(***************************************************************************)
(* The driver's memory allocator: virtual pages of the processes, the page *)
(* table, and the physical pages of the devices.  Every call holds the     *)
(* allocator's lock, so a call is one step; Distribute is a sequence of    *)
(* Remap calls, between which other threads may call.  A process numbers   *)
(* its virtual pages from 1; a physical page is <<device, page>>.  Running *)
(* out of memory is a panic, and not a step.                               *)
(***************************************************************************)
EXTENDS Naturals, Sequences, SequencesExt, FiniteSets, FiniteSetsExt, Functions

CONSTANTS
    Order,      \* a device has 2^Order pages, numbered from 0
    Process,
    NumGPU,     \* device 0 is the CPU, NumGPU + 1 the unified GPU
    Kinds,      \* of device memory
    MaxPages,   \* bound on the virtual pages of all processes
    MaxCalls    \* bound on the calls

ASSUME AllocatorAssumption ==
    /\ Order \in Nat /\ NumGPU \in Nat \ {0} /\ {MaxPages, MaxCalls} \subseteq Nat
    /\ Kinds \subseteq {"regular", "buddy"} /\ Kinds # {}

GPU     == 1 .. NumGPU
Unified == NumGPU + 1

-------------------------------------------------------------------------------
(* The physical pages of one device, in the two forms that MemoryAllocatorType *)
(* selects: a range that has never been allocated and a queue of returned      *)
(* pages, or a buddy allocator with a free list per level and two bit fields   *)
(* that are only ever toggled.                                                 *)

Level == 0 .. Order
PagesOf(level) == 2 ^ (Order - level)
Flip(set, bits) == (set \ bits) \cup (bits \ set)

-------------------------------------------------------------------------------
(* deviceMemoryStateImpl *)

NewRegular == [next |-> 0, returned |-> <<>>]

\* What popNextAvailablePAddrs will return, in this order.
RegularQueue(m) == [i \in 1 .. 2 ^ Order - m.next |-> m.next + i - 1] \o m.returned

RegularTake(m, n) ==
    LET fresh == Min({n, 2 ^ Order - m.next}) IN
    [memory |-> [next |-> m.next + fresh,
                 returned |-> SubSeq(m.returned, n - fresh + 1, Len(m.returned))],
     pages  |-> SubSeq(RegularQueue(m), 1, n)]

RegularReturn(m, page) == [m EXCEPT !.returned = Append(@, page)]

-------------------------------------------------------------------------------
(* deviceBuddyMemoryState.  A bit of a field belongs to a block: the number of its level *)
(* and its index there; "merge" tells that one of the two halves is allocated.  "parts"  *)
(* is history, read by the properties alone: a block that is not the whole memory has    *)
(* been split.  The code toggles the merge bits of the blocks it splits and not that of  *)
(* the parent of the first one, which from then on tells the opposite.                   *)

NewBuddy == [free |-> [l \in Level |-> IF l = 0 THEN <<0>> ELSE <<>>],
             split |-> {}, merge |-> {}, tracker |-> <<>>, left |-> <<>>, parts |-> FALSE]

Block(page, level) == <<level, page \div PagesOf(level)>>
BuddyOf(page, level) ==
    IF (page \div PagesOf(level)) % 2 = 0 THEN page + PagesOf(level) ELSE page - PagesOf(level)

LevelFor(n) == Max({l \in Level : PagesOf(l) >= n})
SplitFrom(m, n) == {l \in 0 .. LevelFor(n) : m.free[l] # <<>>}

\* allocateMultiplePages: the deepest level that has a block large enough; the
\* right halves of the blocks that are split go to the free lists.
BuddyTake(m, n) ==
    LET want  == LevelFor(n)
        from  == Max(SplitFrom(m, n))
        block == Head(m.free[from])
        cut   == {Block(block, l) : l \in from .. want - 1}
        taken == IF from = want /\ want > 0 THEN {Block(block, want - 1)} ELSE cut
        pages == [i \in 1 .. n |-> block + i - 1] IN
    [memory |->
        [free    |-> [l \in Level |-> IF l = from THEN Tail(m.free[l])
                                      ELSE IF l \in from + 1 .. want
                                      THEN Append(m.free[l], BuddyOf(block, l))
                                      ELSE m.free[l]],
         split   |-> Flip(m.split, cut),
         merge   |-> Flip(m.merge, taken),
         tracker |-> [p \in DOMAIN m.tracker \cup Range(pages) |->
                          IF p \in Range(pages) THEN block ELSE m.tracker[p]],
         left    |-> [b \in DOMAIN m.left \cup {block} |-> IF b = block THEN n ELSE m.left[b]],
         parts   |-> m.parts \/ (0 < from /\ from < want)],
     pages |-> pages]

LevelOfBlock(m, page) ==
    Max({0} \cup {l \in 1 .. Order : Block(page, l - 1) \in m.split})

\* Mutant: the buddy stays in its list when the blocks merge.
FreeKeepsBuddy(m, page) ==
    LET level == LevelOfBlock(m, page)
        stops == {l \in 1 .. level : Block(page, l - 1) \notin m.merge}
        stop  == Max(stops \cup {0})
        First(l) == (page \div PagesOf(l)) * PagesOf(l)
        gone  == stop + 1 .. level IN
    [m EXCEPT !.merge = Flip(@, {Block(page, l - 1) : l \in gone \cup (stops \cap {stop})}),
              !.split = Flip(@, {Block(page, l - 1) : l \in gone}),
              !.free  = [l \in Level |-> IF l = stop THEN Append(@[l], First(l)) ELSE @[l]]]

\* freeBlock: blocks merge upwards as long as the toggled bit says that the
\* buddy is free as well; the block of a level is the lower one of the two.
FreeBlock(m, page) ==
    LET level == LevelOfBlock(m, page)
        stops == {l \in 1 .. level : Block(page, l - 1) \notin m.merge}
        stop  == Max(stops \cup {0})
        First(l) == (page \div PagesOf(l)) * PagesOf(l)
        gone  == stop + 1 .. level IN
    [m EXCEPT !.merge = Flip(@, {Block(page, l - 1) : l \in gone \cup (stops \cap {stop})}),
              !.split = Flip(@, {Block(page, l - 1) : l \in gone}),
              !.free  = [l \in Level |-> IF l \in gone THEN RemoveFirst(@[l], BuddyOf(First(l), l))
                                         ELSE IF l = stop THEN Append(@[l], First(l))
                                         ELSE @[l]]]

\* addSinglePAddr: the block is free when all its pages have been returned.
BuddyReturn(m, page) ==
    IF page \notin DOMAIN m.tracker THEN m
    ELSE LET block == m.tracker[page]
             now   == [m EXCEPT !.tracker = [p \in DOMAIN @ \ {page} |-> @[p]],
                                !.left[block] = @ - 1] IN
         IF now.left[block] = 0 THEN FreeBlock(now, block) ELSE now

-------------------------------------------------------------------------------
VARIABLES
    kind,       \* MemoryAllocatorType
    memory,     \* of each device
    pageTable,  \* [process -> virtual page -> physical page and flag]
    pageOf,     \* vAddrToPageMapping: virtual page -> process and physical page
    nextVAddr,
    nextActualGPU,  \* of the unified GPU
    buffers,    \* what a process has allocated and not freed: first page and length
    plan,       \* the Remap calls that Distribute has still to make
    placed,     \* what it has returned for a buffer: pages on each GPU
    calls       \* made so far

vars == <<kind, memory, pageTable, pageOf, nextVAddr, nextActualGPU, buffers, plan, placed, calls>>

Init == /\ kind \in Kinds
        /\ memory = [d \in 0 .. NumGPU |-> IF kind = "regular" THEN NewRegular ELSE NewBuddy]
        /\ pageTable = [p \in Process |-> <<>>] /\ pageOf = <<>>
        /\ nextVAddr = [p \in Process |-> 1] /\ nextActualGPU = 1
        /\ buffers = [p \in Process |-> {}] /\ plan = <<>> /\ placed = <<>> /\ calls = 0

-------------------------------------------------------------------------------
Take(m, n) == IF kind = "regular" THEN RegularTake(m, n) ELSE BuddyTake(m, n)
Return(m, page) == IF kind = "regular" THEN RegularReturn(m, page) ELSE BuddyReturn(m, page)

\* The pages that are free, in any form.
FreePages(m) ==
    IF kind = "regular" THEN Range(RegularQueue(m))
    ELSE UNION {b .. b + PagesOf(l) - 1 : <<l, b>> \in
                    {x \in Level \X (0 .. 2 ^ Order - 1) : x[2] \in Range(m.free[x[1]])}}

HasRoom(m, n) == IF kind = "regular" THEN Len(RegularQueue(m)) >= n
                                     ELSE n <= 2 ^ Order /\ SplitFrom(m, n) # {}

\* n pages, one call of popNextAvailablePAddrs each.
TakeSingly(m, n) ==
    LET after[i \in 0 .. n] ==
            IF i = 0 THEN [memory |-> m, pages |-> <<>>]
            ELSE LET one == Take(after[i - 1].memory, 1) IN
                 [memory |-> one.memory, pages |-> after[i - 1].pages \o one.pages] IN
    after[n]

\* selectActualGPUForDistributedPage
GPUOfPage(i, n) == IF n < NumGPU THEN 1 ELSE Min({(i - 1) \div (n \div NumGPU) + 1, NumGPU})

\* The pages of an allocation that go to device d, in order.
Portion(dev, n, d) ==
    SelectSeq([i \in 1 .. n |-> i], LAMBDA i: d = IF dev = Unified THEN GPUOfPage(i, n) ELSE dev)

\* The virtual pages numbered so far.
Pages == MapThenSumSet(LAMBDA q : nextVAddr[q] - 1, Process)

\* Allocate and AllocateUnified (on device 1).
Allocate(p, n, dev, unified) ==
    LET first == nextVAddr[p]
        need  == [d \in 0 .. NumGPU |-> Portion(dev, n, d)]
        got   == [d \in 0 .. NumGPU |-> TakeSingly(memory[d], Len(need[d]))]
        frame == [v \in first .. first + n - 1 |->
                     LET i == v - first + 1
                         d == IF dev = Unified THEN GPUOfPage(i, n) ELSE dev IN
                     <<d, got[d].pages[CHOOSE j \in DOMAIN need[d] : need[d][j] = i]>>] IN
    /\ Pages + n <= MaxPages
    /\ \A d \in 0 .. NumGPU : Cardinality(FreePages(memory[d])) >= Len(need[d])
    /\ memory' = [d \in 0 .. NumGPU |-> got[d].memory]
    /\ pageTable' = [pageTable EXCEPT ![p] =
           [v \in DOMAIN frame |-> [frame |-> frame[v], unified |-> unified]] @@ @]
    /\ pageOf' = [v \in DOMAIN frame |-> [pid |-> p, frame |-> frame[v]]] @@ pageOf
    /\ nextVAddr' = [nextVAddr EXCEPT ![p] = @ + n]
    /\ buffers' = [buffers EXCEPT ![p] = @ \cup {[first |-> first, n |-> n]}]
    /\ UNCHANGED <<kind, nextActualGPU, plan, placed>>

\* Mutant: the page table keeps the page.
FreeMemoryOnly(p, b) ==
    LET page == pageOf[b.first] IN
    /\ plan = <<>>
    /\ b.first \in DOMAIN pageTable[page.pid]
    /\ memory' = [memory EXCEPT ![page.frame[1]] = Return(@, page.frame[2])]
    /\ buffers' = [buffers EXCEPT ![p] = @ \ {b}]
    /\ UNCHANGED <<kind, pageTable, pageOf, nextVAddr, nextActualGPU, plan, placed>>

\* removePage: the page of the process that allocated this virtual page last.
Free(p, b) ==
    LET page == pageOf[b.first] IN
    /\ plan = <<>>
    /\ b.first \in DOMAIN pageTable[page.pid]
    /\ memory' = [memory EXCEPT ![page.frame[1]] = Return(@, page.frame[2])]
    /\ pageTable' = [pageTable EXCEPT ![page.pid] = Restrict(@, DOMAIN @ \ {b.first})]
    /\ buffers' = [buffers EXCEPT ![p] = @ \ {b}]
    /\ UNCHANGED <<kind, pageOf, nextVAddr, nextActualGPU, plan, placed>>

\* The page table and the mapping when the pages from v on move to these frames.
Move(p, v, d, frames, unified) ==
    LET range == v .. v + Len(frames) - 1
        frame == [w \in range |-> <<d, frames[w - v + 1]>>] IN
    /\ range \subseteq DOMAIN pageTable[p]
    /\ pageTable' = [pageTable EXCEPT ![p] =
           [w \in range |-> [frame |-> frame[w], unified |-> unified]] @@ @]
    /\ pageOf' = [w \in range |-> [pid |-> p, frame |-> frame[w]]] @@ pageOf

\* Remap to a device, or to the next one of the unified GPU.  Nothing returns the old pages.
Remap(p, v, n, dev) ==
    LET d == IF dev = Unified THEN nextActualGPU ELSE dev
        got == Take(memory[d], n) IN
    /\ HasRoom(memory[d], n)
    /\ memory' = [memory EXCEPT ![d] = got.memory]
    /\ Move(p, v, d, got.pages, FALSE)
    /\ nextActualGPU' = IF dev = Unified THEN (nextActualGPU % NumGPU) + 1 ELSE nextActualGPU

RemapCall(p, b, dev) ==
    /\ plan = <<>> /\ b \in buffers[p]
    /\ Remap(p, b.first, b.n, dev)
    /\ placed' = Restrict(placed, DOMAIN placed \ {<<p, b.first>>})
    /\ UNCHANGED <<kind, nextVAddr, buffers, plan>>

\* AllocatePageWithGivenVAddr, which the driver calls to migrate a page.
MigratePage(p, v, gpu) ==
    LET got == Take(memory[gpu], 1) IN
    /\ v \in DOMAIN pageTable[p] /\ pageTable[p][v].unified /\ pageTable[p][v].frame[1] # gpu
    /\ HasRoom(memory[gpu], 1)
    /\ memory' = [memory EXCEPT ![gpu] = got.memory]
    /\ Move(p, v, gpu, got.pages, TRUE)
    /\ UNCHANGED <<kind, nextVAddr, nextActualGPU, buffers, plan, placed>>

\* Mutant: the rest is not reported.
DistributeRest(p, b) ==
    LET each  == b.n \div NumGPU
        used  == IF each = 0 THEN 0 ELSE Min({NumGPU, b.n \div each})
        last  == Max({used, 1})
        extra == b.n % NumGPU
        even  == [i \in 1 .. used |->
                     [p |-> p, v |-> b.first + (i - 1) * each, n |-> each, dev |-> i]]
        rest  == [i \in 1 .. extra |->
                     [p |-> p, v |-> b.first + each * used + i - 1, n |-> 1, dev |-> last]] IN
    /\ plan = <<>> /\ NumGPU > 1
    /\ plan' = even \o rest
    /\ placed' = [x \in {<<p, b.first>>} |->
                     [g \in GPU |-> IF g <= used THEN each ELSE 0]] @@ placed
    /\ UNCHANGED <<kind, memory, pageTable, pageOf, nextVAddr, nextActualGPU, buffers>>

\* Distribute computes how many pages of a buffer each GPU gets.
Distribute(p, b) ==
    LET each  == b.n \div NumGPU
        used  == IF each = 0 THEN 0 ELSE Min({NumGPU, b.n \div each})
        last  == Max({used, 1})
        extra == b.n % NumGPU
        even  == [i \in 1 .. used |->
                     [p |-> p, v |-> b.first + (i - 1) * each, n |-> each, dev |-> i]]
        rest  == [i \in 1 .. extra |->
                     [p |-> p, v |-> b.first + each * used + i - 1, n |-> 1, dev |-> last]] IN
    /\ plan = <<>> /\ NumGPU > 1
    /\ plan' = even \o rest
    /\ placed' = [x \in {<<p, b.first>>} |->
                     [g \in GPU |-> (IF g <= used THEN each ELSE 0)
                                      + (IF g = last THEN extra ELSE 0)]] @@ placed
    /\ UNCHANGED <<kind, memory, pageTable, pageOf, nextVAddr, nextActualGPU, buffers>>

DistributeStep ==
    /\ plan # <<>>
    /\ LET r == Head(plan) IN Remap(r.p, r.v, r.n, r.dev)
    /\ plan' = Tail(plan)
    /\ UNCHANGED <<kind, nextVAddr, buffers, placed>>

Call == \/ \E p \in Process, n \in 1 .. MaxPages, d \in GPU \cup {Unified} :
               Allocate(p, n, d, FALSE)
        \/ \E p \in Process, n \in 1 .. MaxPages : Allocate(p, n, 1, TRUE)
        \/ \E p \in Process : \E b \in buffers[p] :
               Free(p, b) \/ Distribute(p, b) \/ \E d \in 0 .. Unified : RemapCall(p, b, d)
        \/ \E p \in Process, v \in 1 .. MaxPages, g \in GPU : MigratePage(p, v, g)

Next == \/ calls < MaxCalls /\ Call /\ calls' = calls + 1
        \/ DistributeStep /\ UNCHANGED calls

Spec == Init /\ [][Next]_vars

\* The processes are interchangeable.
Symmetry == Permutations(Process)

-------------------------------------------------------------------------------
\* The merge bits of a buddy allocator can be relied upon.
BitsAgree(d) == kind = "buddy" => ~ memory[d].parts

\* The process may have freed the page with this number.
MayHaveFreed(q, v) ==
    v < nextVAddr[q] /\ \A b \in buffers[q] : v \notin b.first .. b.first + b.n - 1

\* "The pointer must be allocated with the function AllocateMemory earlier": memory that a
\* process has allocated and not freed stays in its page table until another process frees
\* the page of that number (removePage takes the page of the process that was given the
\* number last), on a page that is not free and that no other virtual page of any process
\* has, whatever is allocated, remapped, migrated or freed: always with pages from a
\* queue, and with a buddy allocator as long as no part of the memory has been split.
KeepsItsMemory ==
    \A p \in Process : \A b \in buffers[p] : \A v \in b.first .. b.first + b.n - 1 :
        /\ v \in DOMAIN pageTable[p] \/ \E q \in Process \ {p} : MayHaveFreed(q, v)
        /\ v \in DOMAIN pageTable[p] =>
               LET f == pageTable[p][v].frame IN
               BitsAgree(f[1]) =>
                   /\ f[2] \notin FreePages(memory[f[1]])
                   /\ \A q \in Process : \A w \in DOMAIN pageTable[q] :
                          <<q, w>> # <<p, v>> => pageTable[q][w].frame # f

\* Distribute puts as many pages on each GPU as it reports, whatever the GPUs' memories hold
\* (a launch on the unified GPU divides the work accordingly).
PlacedAsReported == plan = <<>> =>
    \A p \in Process : \A b \in buffers[p] :
        (/\ <<p, b.first>> \in DOMAIN placed
         /\ \A v \in b.first .. b.first + b.n - 1 :
                v \in DOMAIN pageTable[p] /\ ~ pageTable[p][v].unified) =>
            \A g \in GPU : placed[<<p, b.first>>][g] =
                Cardinality({v \in b.first .. b.first + b.n - 1 : pageTable[p][v].frame[1] = g})

\* The free lists of a device hold a page once, and never both halves of a block: blocks
\* merge, over all the levels, as soon as both are free, in whatever order their pages come
\* back.  Of a buddy allocator this is so as long as no part of the memory has been split.
FreeListsSound == \A d \in DOMAIN memory :
    IF kind = "regular" THEN IsInjective(RegularQueue(memory[d]))
    ELSE BitsAgree(d) => \A l \in Level :
        /\ IsInjective(memory[d].free[l])
        /\ \A b \in Range(memory[d].free[l]) :
               /\ l > 0 => BuddyOf(b, l) \notin Range(memory[d].free[l])
               /\ \A k \in 0 .. l - 1 :
                      (b \div PagesOf(k)) * PagesOf(k) \notin Range(memory[d].free[k])
===============================================================================
