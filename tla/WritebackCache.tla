---------------------------- MODULE WritebackCache ----------------------------
(***************************************************************************)
(* The write-back cache (akita/mem/cache/writeback), the L2 of a GPU: top  *)
(* parser, directory stage, banks, MSHR stage, write buffer and flusher,   *)
(* with the buffers between them.  Every stage is an action; Cache.Tick    *)
(* tries them all in every cycle, and latencies, which the actions leave   *)
(* open, decide how they interleave.                                       *)
(*                                                                         *)
(* One set of the cache with one bank and one request per cycle.  A trans- *)
(* action is named by the number of its request, and the value of a word   *)
(* is the number of the request that wrote it.  The transactions of a      *)
(* flush have numbers above MaxReq, one for each way.                      *)
(*                                                                         *)
(* Left out: the options that forward fills or prefetch and pair DRAM      *)
(* reads, the filters of resident lines and remote replicas.               *)
(***************************************************************************)
EXTENDS Integers, CacheDirectory

CONSTANTS
    NumLine,        \* lines of the set, 1 .. NumLine
    Word,           \* words of a line; a write may cover some of them
    NumWays,
    MaxReq,         \* bound: requests
    BufCap,         \* capacity of the buffers between the stages (numReqPerCycle)
    DirCap,         \* dirStageBuffer, directory pipeline and its post buffer
    PortCap,        \* messages that wait at a port
    MshrCap, WriteBufferCap, MaxFetch, MaxEvict,
    Lanes           \* pipelineWidth of the bank

ASSUME CacheAssumption ==
    /\ {NumLine, NumWays, BufCap, DirCap, PortCap, MshrCap,
        WriteBufferCap, MaxFetch, MaxEvict} \subseteq Nat \ {0}
    /\ MaxReq \in Nat
    /\ Lanes \in Nat \ {0, 1}

VARIABLES
    reqs,           \* reqs[t]: [op, line, words]
    trans,          \* trans[t]: the transaction of request t
    cstate,         \* "running", "preflushing", "flushing" or "paused"
    inFlight,       \* inFlightTransactions
    topPort,        \* requests that have arrived
    dirQ,           \* those on their way to the directory lookup
    blocks, lru,    \* the directory and the storage
    evictList,      \* evictingList: lines whose data the bank has yet to read
    dirToBank, wbToBank,
    bank, post,     \* bank pipeline, and the buffer behind it
    down,           \* downwardInflightTransCount
    mshr,           \* leaders of the entries in the MSHR
    entry,          \* entry[t]: the MSHR entry that t leads
    mshrQ,          \* mshrStageBuffer
    processing,     \* processingMSHREntry, 0 if there is none
    wbQ,            \* writeBufferBuffer
    pending,        \* pendingEvictions
    fetching,       \* inflightFetch
    evicting,       \* inflightEviction
    topOut,         \* responses in the top sender and beyond
    toMem,          \* requests sent to memory
    botIn,          \* responses of memory at the bottom port
    flushing,       \* the FlushReq being processed, or "none"
    toEvict,        \* blockToEvict: the ways that it has yet to take, in their order
    ctlIn, ctlOut   \* control port

dirVars   == <<blocks, lru>>
frontVars == <<inFlight, topPort, dirQ>>
bankVars  == <<dirToBank, wbToBank, bank, post, down>>
mshrVars  == <<mshr, entry, mshrQ, processing>>
wbVars    == <<wbQ, pending, fetching, evicting>>
memPorts  == <<toMem, botIn>>
flushVars == <<cstate, flushing, toEvict, ctlIn, ctlOut>>
cacheVars == <<reqs, trans, dirVars, evictList, frontVars, bankVars, mshrVars, wbVars,
               topOut, memPorts, flushVars>>

Line  == 1 .. NumLine
Way   == 1 .. NumWays
Req   == 1 .. MaxReq
Trans == 1 .. MaxReq + NumWays

\* The transaction that evicts the block of way w in a flush.
Flush(w) == MaxReq + w

ZeroData == [x \in Word |-> 0]
NoTrans  == [act |-> "none", way |-> 0, vline |-> 0, vmask |-> {}, vdata |-> ZeroData,
             orphan |-> FALSE]
NoEntry  == [reqs |-> <<>>, way |-> 0, data |-> ZeroData, shares |-> 0]
NoReq    == [op |-> "none", line |-> 0, words |-> {}]

LineOf(t)  == reqs[t].line
IsRead(t)  == reqs[t].op = "read"
FullLine(t) == reqs[t].op = "write" /\ reqs[t].words = Word
Ways1ToN   == [w \in Way |-> w]

CacheInit ==
    /\ reqs = [t \in Req |-> NoReq] /\ trans = [t \in Trans |-> NoTrans]
    /\ blocks = [w \in Way |-> EmptyBlock(ZeroData)] /\ lru = Ways1ToN /\ evictList = {}
    /\ inFlight = {} /\ topPort = <<>> /\ dirQ = <<>>
    /\ dirToBank = <<>> /\ wbToBank = <<>> /\ bank = <<>> /\ post = <<>> /\ down = 0
    /\ mshr = {} /\ entry = [t \in Req |-> NoEntry] /\ mshrQ = <<>> /\ processing = 0
    /\ wbQ = <<>> /\ pending = <<>> /\ fetching = {} /\ evicting = <<>>
    /\ topOut = <<>> /\ toMem = {} /\ botIn = <<>>
    /\ cstate = "running" /\ flushing = "none" /\ toEvict = {}
    /\ ctlIn = <<>> /\ ctlOut = <<>>

HasRoom(buffer) == Len(buffer) < BufCap

\* runPipeline does not run while the cache is paused.
PipelineRuns == cstate # "paused"

\* topSender.Send, for the words of request t that a read returns.
Respond(t, data) ==
    /\ Len(topOut) < PortCap
    /\ topOut' = Append(topOut, [req |-> t,
           data |-> [x \in IF IsRead(t) THEN reqs[t].words ELSE {} |-> data[x]]])

-------------------------------------------------------------------------------
\* Top parser: a request becomes a transaction.
TopParser ==
    /\ cstate = "running" /\ topPort # <<>> /\ Len(dirQ) < DirCap
    /\ dirQ' = Append(dirQ, Head(topPort))
    /\ inFlight' = inFlight \cup {Head(topPort)}
    /\ topPort' = Tail(topPort)
    /\ UNCHANGED <<reqs, trans, dirVars, evictList, bankVars, mshrVars, wbVars, topOut,
                   memPorts, flushVars>>

-------------------------------------------------------------------------------
\* Directory stage.  The request at the head waits while its line is on the way
\* from the bank to the write buffer.

Looks(t) == PipelineRuns /\ dirQ # <<>> /\ t = Head(dirQ) /\ LineOf(t) \notin evictList

\* mshr.Query.
Query(l) == {e \in mshr : LineOf(e) = l}

PushToBank(t) == /\ HasRoom(dirToBank)
                 /\ dirToBank' = Append(dirToBank, t)
                 /\ dirQ' = Tail(dirQ)

dirOther == <<reqs, inFlight, topPort, wbToBank, bank, post, down, mshrQ, processing, wbVars,
              topOut, memPorts, flushVars>>

\* handleReadMSHRHit, doWriteMSHRHit.
DirMergeIntoEntry(t) ==
    /\ Looks(t)
    /\ \E e \in Query(LineOf(t)) : entry' = [entry EXCEPT ![e].reqs = Append(@, t)]
    /\ dirQ' = Tail(dirQ)
    /\ UNCHANGED <<trans, dirVars, evictList, dirToBank, mshr, dirOther>>

\* handleReadHit, readFromBank.
DirReadHit(t) ==
    /\ Looks(t) /\ IsRead(t) /\ Query(LineOf(t)) = {}
    /\ \E w \in Lookup(blocks, LineOf(t)) :
        /\ ~ blocks[w].locked
        /\ blocks' = [blocks EXCEPT ![w].readers = @ + 1]
        /\ lru' = Visit(lru, w)
        /\ trans' = [trans EXCEPT ![t].act = "readHit", ![t].way = w]
    /\ PushToBank(t)
    /\ UNCHANGED <<evictList, mshr, entry, dirOther>>

\* writeToBank.
WriteToBank(t, w) ==
    /\ blocks' = [blocks EXCEPT ![w].locked = TRUE, ![w].valid = TRUE, ![w].line = LineOf(t)]
    /\ lru' = Visit(lru, w)
    /\ trans' = [trans EXCEPT ![t].act = "writeHit", ![t].way = w]
    /\ PushToBank(t)
    /\ UNCHANGED <<evictList, mshr, entry>>

\* doWriteHit.
DirWriteHit(t) ==
    /\ Looks(t) /\ ~ IsRead(t) /\ Query(LineOf(t)) = {}
    /\ \E w \in Lookup(blocks, LineOf(t)) :
        /\ ~ blocks[w].locked /\ blocks[w].readers = 0
        /\ WriteToBank(t, w)
    /\ UNCHANGED dirOther

AddEntry(t, w) ==
    /\ mshr' = mshr \cup {t}
    /\ entry' = [entry EXCEPT ![t] = [NoEntry EXCEPT !.reqs = <<t>>, !.way = w]]

\* fetch.
Fetch(t, w) ==
    /\ AddEntry(t, w)
    /\ blocks' = [blocks EXCEPT ![w].locked = TRUE, ![w].valid = TRUE, ![w].line = LineOf(t)]
    /\ lru' = Visit(lru, w)
    /\ trans' = [trans EXCEPT ![t].act = "fetch", ![t].way = w]
    /\ PushToBank(t)
    /\ UNCHANGED evictList

\* evict, with updateTransForEviction and updateVictimBlockMetaData.
Evict(t, w) ==
    /\ trans' = [trans EXCEPT ![t] = [@ EXCEPT
           !.act = IF FullLine(t) THEN "evictWrite" ELSE "evictFetch",
           !.way = w, !.vline = blocks[w].line, !.vmask = blocks[w].mask]]
    /\ IF FullLine(t) THEN UNCHANGED <<mshr, entry>> ELSE AddEntry(t, w)
    /\ blocks' = [blocks EXCEPT ![w].locked = TRUE, ![w].dirty = FALSE, ![w].line = LineOf(t)]
    /\ lru' = Visit(lru, w)
    /\ evictList' = evictList \cup {blocks[w].line}
    /\ PushToBank(t)

\* handleReadMiss, writePartialLineMiss, writeFullLineMiss.
DirMiss(t) ==
    LET w == FindVictim(blocks, lru) IN
    /\ Looks(t) /\ Query(LineOf(t)) = {} /\ Lookup(blocks, LineOf(t)) = {}
    /\ FullLine(t) \/ Cardinality(mshr) < MshrCap
    /\ ~ blocks[w].locked /\ blocks[w].readers = 0
    /\ \/ blocks[w].valid /\ blocks[w].dirty /\ Evict(t, w)
       \/ ~ (blocks[w].valid /\ blocks[w].dirty) /\ ~ FullLine(t) /\ Fetch(t, w)
       \/ ~ (blocks[w].valid /\ blocks[w].dirty) /\ FullLine(t) /\ WriteToBank(t, w)
    /\ UNCHANGED dirOther

DirectoryStage == \E t \in Req :
    DirMergeIntoEntry(t) \/ DirReadHit(t) \/ DirWriteHit(t) \/ DirMiss(t)

-------------------------------------------------------------------------------
\* Bank.

IsEviction(act) == act \in {"evict", "evictWrite", "evictFetch"}

bankOther == <<reqs, lru, topPort, dirQ, toMem, botIn, flushVars>>

\* pullFromBuf.  Data on the way up go first; of those on the way down, a fetch goes
\* through to the write buffer, and the last lane is reserved.
PullFromBuf ==
    /\ PipelineRuns /\ Len(bank) < Lanes
    /\ \/ /\ wbToBank # <<>>
          /\ bank' = Append(bank, Head(wbToBank))
          /\ wbToBank' = Tail(wbToBank)
          /\ UNCHANGED <<dirToBank, down, wbQ>>
       \/ /\ wbToBank = <<>> /\ dirToBank # <<>>
          /\ HasRoom(wbQ) /\ down < Lanes - 1
          /\ LET t == Head(dirToBank) IN
             IF trans[t].act = "fetch"
             THEN wbQ' = Append(wbQ, t) /\ UNCHANGED <<bank, down>>
             ELSE /\ bank' = Append(bank, t)
                  /\ down' = IF IsEviction(trans[t].act) THEN down + 1 ELSE down
                  /\ UNCHANGED wbQ
          /\ dirToBank' = Tail(dirToBank)
          /\ UNCHANGED wbToBank
    /\ UNCHANGED <<bankOther, trans, blocks, evictList, inFlight, post, mshrVars, pending,
                   fetching, evicting, topOut>>

\* pipeline.Tick.  All spend the same time in it, but when the buffer behind it has been
\* full, the first lane goes first.
BankPipeline ==
    /\ PipelineRuns /\ Len(post) < Lanes
    /\ \E i \in DOMAIN bank :
        /\ i = 1 \/ post # <<>>
        /\ bank' = RemoveAt(bank, i) /\ post' = Append(post, bank[i])
    /\ UNCHANGED <<bankOther, trans, blocks, evictList, inFlight, dirToBank, wbToBank, down,
                   mshrVars, wbVars, topOut>>

\* Mutant: the reader does not leave the block.
ReadHitKeepsBlock(t) ==
    /\ trans[t].act = "readHit"
    /\ Respond(t, blocks[trans[t].way].data)
    /\ inFlight' = inFlight \ {t}
    /\ UNCHANGED <<blocks, trans, evictList, down, mshrQ, wbQ>>

\* finalizeReadHit.
FinalizeReadHit(t) ==
    LET w == trans[t].way IN
    /\ trans[t].act = "readHit"
    /\ Respond(t, blocks[w].data)
    /\ inFlight' = inFlight \ {t}
    /\ blocks' = [blocks EXCEPT ![w].readers = @ - 1]
    /\ UNCHANGED <<trans, evictList, down, mshrQ, wbQ>>

\* finalizeWriteHit.  A write that evicted shares the mask of its block with the eviction.
FinalizeWriteHit(t) ==
    LET w == trans[t].way
        words == reqs[t].words
    IN
    /\ trans[t].act = "writeHit"
    /\ Respond(t, ZeroData)
    /\ inFlight' = inFlight \ {t}
    /\ blocks' = [blocks EXCEPT ![w] = [@ EXCEPT !.valid = TRUE, !.locked = FALSE, !.dirty = TRUE,
           !.mask = @ \cup words, !.data = [x \in Word |-> IF x \in words THEN t ELSE @[x]]]]
    /\ trans' = IF trans[t].vline = 0 THEN trans ELSE [trans EXCEPT ![t].vmask = @ \cup words]
    /\ down' = down - 1
    /\ UNCHANGED <<evictList, mshrQ, wbQ>>

\* The data of an entry; findDataLocally lets it share the buffer of an eviction.
EntryData(e) == IF entry[e].shares = 0 THEN entry[e].data ELSE trans[entry[e].shares].vdata

\* finalizeBankWriteFetched.  The block is no longer in the directory if a flush has
\* ended meanwhile, but its place in the storage is written all the same.
FinalizeBankWriteFetched(t) ==
    LET w == entry[t].way IN
    /\ trans[t].act = "fetched"
    /\ HasRoom(mshrQ) /\ mshrQ' = Append(mshrQ, t)
    /\ blocks' = [blocks EXCEPT ![w] = IF trans[t].orphan THEN [@ EXCEPT !.data = EntryData(t)]
           ELSE [@ EXCEPT !.data = EntryData(t), !.locked = FALSE, !.valid = TRUE]]
    /\ UNCHANGED <<trans, inFlight, evictList, down, wbQ, topOut>>

\* finalizeBankEviction.
FinalizeBankEviction(t) ==
    /\ IsEviction(trans[t].act)
    /\ HasRoom(wbQ) /\ wbQ' = Append(wbQ, t)
    /\ trans' = [trans EXCEPT ![t].vdata = blocks[trans[t].way].data]
    /\ evictList' = evictList \ {trans[t].vline}
    /\ down' = down - 1
    /\ UNCHANGED <<blocks, inFlight, mshrQ, topOut>>

Finalize(t) == \/ FinalizeReadHit(t) \/ FinalizeWriteHit(t)
               \/ FinalizeBankWriteFetched(t) \/ FinalizeBankEviction(t)

\* What keeps a transaction at the end of the bank.
Blocked(t) == CASE trans[t].act \in {"readHit", "writeHit"} -> Len(topOut) >= PortCap
                [] trans[t].act = "fetched" -> ~ HasRoom(mshrQ)
                [] OTHER -> ~ HasRoom(wbQ)

\* finalizeTrans: the first one that is not blocked.
FinalizeTrans ==
    /\ PipelineRuns
    /\ \E i \in DOMAIN post :
        /\ \A j \in 1 .. i - 1 : Blocked(post[j])
        /\ Finalize(post[i])
        /\ post' = RemoveAt(post, i)
    /\ UNCHANGED <<bankOther, dirToBank, wbToBank, bank, mshr, entry, processing, pending,
                   fetching, evicting>>

-------------------------------------------------------------------------------
\* Mutant: only the first request of an entry is answered.
MshrStageOnce ==
    LET e == IF processing # 0 THEN processing ELSE Head(mshrQ)
        t == Head(entry[e].reqs)
    IN
    /\ PipelineRuns /\ (processing # 0 \/ mshrQ # <<>>)
    /\ IF t \in inFlight THEN Respond(t, EntryData(e))
                         ELSE Len(topOut) < PortCap /\ UNCHANGED topOut
    /\ inFlight' = inFlight \ {t}
    /\ entry' = [entry EXCEPT ![e].reqs = Tail(@)]
    /\ processing' = 0
    /\ mshrQ' = IF processing # 0 THEN mshrQ ELSE Tail(mshrQ)
    /\ UNCHANGED <<reqs, trans, dirVars, evictList, topPort, dirQ, bankVars, mshr, wbVars,
                   memPorts, flushVars>>

\* MSHR stage: one request of the entry at a time is answered.  Requests that a flush
\* has discarded get no answer.
MshrStage ==
    LET e == IF processing # 0 THEN processing ELSE Head(mshrQ)
        t == Head(entry[e].reqs)
    IN
    /\ PipelineRuns /\ (processing # 0 \/ mshrQ # <<>>)
    /\ IF t \in inFlight THEN Respond(t, EntryData(e))
                         ELSE Len(topOut) < PortCap /\ UNCHANGED topOut
    /\ inFlight' = inFlight \ {t}
    /\ entry' = [entry EXCEPT ![e].reqs = Tail(@)]
    /\ processing' = IF Len(entry[e].reqs) > 1 THEN e ELSE 0
    /\ mshrQ' = IF processing # 0 THEN mshrQ ELSE Tail(mshrQ)
    /\ UNCHANGED <<reqs, trans, dirVars, evictList, topPort, dirQ, bankVars, mshr, wbVars,
                   memPorts, flushVars>>

-------------------------------------------------------------------------------
\* Write buffer.

wbOther == <<reqs, lru, evictList, frontVars, dirToBank, bank, post, down, processing, topOut,
             flushVars>>

\* combineData: what the data become when the writes of the entry are applied.
Combine(data, ts) ==
    LET Writes(x) == {i \in DOMAIN ts : ~ IsRead(ts[i]) /\ x \in reqs[ts[i]].words}
    IN  [x \in Word |-> IF Writes(x) = {} THEN data[x] ELSE ts[Max(Writes(x))]]

CombinedBlock(b, ts) ==
    LET writes == {t \in Range(ts) : ~ IsRead(t)}
    IN  [b EXCEPT !.dirty = @ \/ writes # {}, !.mask = UNION {reqs[t].words : t \in writes}]

\* Mutant: the buffered evictions are not searched.
FindNothing(l) == <<>>

\* findDataLocally: the transactions in the write buffer that evict the line, in the order
\* of the search.
FindDataLocally(l) ==
    LET Evicts(e) == trans[e].vline = l
    IN  SelectSeq(evicting \o pending, Evicts)

\* writeBufferFull.
WriteBufferFull == Len(pending) + Len(evicting) >= WriteBufferCap

\* The block of entry t, unless a flush has taken it out of the directory.
CombineBlock(t) ==
    blocks' = IF trans[t].orphan THEN blocks
              ELSE [blocks EXCEPT ![entry[t].way] = CombinedBlock(@, entry[t].reqs)]

\* processWriteBufferFetch with sendFetchedDataToBank: the entry and the eviction share
\* the buffer that is combined.
FetchLocally(t) ==
    LET found == FindDataLocally(LineOf(t))
        e     == Head(found)
    IN
    /\ trans[t].act = "fetch" /\ found # <<>> /\ HasRoom(wbToBank)
    /\ wbToBank' = Append(wbToBank, t)
    /\ entry' = [entry EXCEPT ![t].shares = e]
    /\ trans' = [trans EXCEPT ![e].vdata = Combine(@, entry[t].reqs), ![t].act = "fetched"]
    /\ CombineBlock(t)
    /\ mshr' = mshr \ {t}
    /\ wbQ' = Tail(wbQ)
    /\ UNCHANGED <<pending, fetching, toMem>>

\* processWriteBufferFetch with issueSingleFetch.
FetchFromBottom(t) ==
    /\ trans[t].act = "fetch" /\ FindDataLocally(LineOf(t)) = <<>>
    /\ Cardinality(fetching) < MaxFetch
    /\ toMem' = toMem \cup {[op |-> "read", id |-> t]}
    /\ fetching' = fetching \cup {t}
    /\ wbQ' = Tail(wbQ)
    /\ UNCHANGED <<trans, blocks, wbToBank, mshr, entry, pending>>

\* processWriteBufferEvictAndWrite, ...FetchAndEvict (the transaction stays at the head,
\* to fetch) and ...Flush.
BufferEviction(t) ==
    /\ IsEviction(trans[t].act) /\ ~ WriteBufferFull
    /\ pending' = Append(pending, t)
    /\ CASE trans[t].act = "evictWrite" ->
               /\ HasRoom(wbToBank) /\ wbToBank' = Append(wbToBank, t)
               /\ trans' = [trans EXCEPT ![t].act = "writeHit"]
               /\ wbQ' = Tail(wbQ)
         [] trans[t].act = "evictFetch" ->
               /\ trans' = [trans EXCEPT ![t].act = "fetch"]
               /\ UNCHANGED <<wbToBank, wbQ>>
         [] trans[t].act = "evict" ->
               /\ wbQ' = Tail(wbQ)
               /\ UNCHANGED <<trans, wbToBank>>
    /\ UNCHANGED <<blocks, mshr, entry, fetching, toMem>>

\* processNewTransaction.
ProcessNewTransaction ==
    /\ PipelineRuns /\ wbQ # <<>>
    /\ LET t == Head(wbQ) IN FetchLocally(t) \/ FetchFromBottom(t) \/ BufferEviction(t)
    /\ UNCHANGED <<wbOther, mshrQ, evicting, botIn>>

\* write.
WriteEviction ==
    /\ PipelineRuns /\ pending # <<>> /\ Len(evicting) < MaxEvict
    /\ toMem' = toMem \cup {[op |-> "write", id |-> Head(pending)]}
    /\ evicting' = Append(evicting, Head(pending))
    /\ pending' = Tail(pending)
    /\ UNCHANGED <<wbOther, trans, blocks, wbToBank, mshr, entry, mshrQ, wbQ, fetching, botIn>>

\* processDataReadyRsp.
ProcessDataReady ==
    LET t == Head(botIn).id IN
    /\ PipelineRuns /\ botIn # <<>> /\ Head(botIn).op = "data" /\ HasRoom(wbToBank)
    /\ entry' = [entry EXCEPT ![t].data = Combine(Head(botIn).data, entry[t].reqs)]
    /\ CombineBlock(t)
    /\ mshr' = mshr \ {t}
    /\ trans' = [trans EXCEPT ![t].act = "fetched"]
    /\ wbToBank' = Append(wbToBank, t)
    /\ fetching' = fetching \ {t}
    /\ botIn' = Tail(botIn)
    /\ UNCHANGED <<wbOther, mshrQ, wbQ, pending, evicting, toMem>>

\* processWriteDoneRsp.
ProcessWriteDone ==
    /\ PipelineRuns /\ botIn # <<>> /\ Head(botIn).op = "done"
    /\ evicting' = Remove(evicting, Head(botIn).id)
    /\ botIn' = Tail(botIn)
    /\ UNCHANGED <<wbOther, trans, blocks, wbToBank, mshr, entry, mshrQ, wbQ, pending,
                   fetching, toMem>>

-------------------------------------------------------------------------------
\* Flusher.

flushOther == <<reqs, wbToBank, pending, fetching, evicting, toMem>>

\* discardInflightTransactions: the stages are reset, but not the write buffer behind
\* its queue, the counter of the bank, or evictingList.
DiscardInflight ==
    /\ blocks' = [w \in Way |-> [blocks[w] EXCEPT !.readers = 0, !.locked = FALSE]]
    /\ topPort' = <<>> /\ dirQ' = <<>> /\ inFlight' = {}
    /\ dirToBank' = <<>> /\ bank' = <<>> /\ post' = <<>>
    /\ mshrQ' = <<>> /\ processing' = 0
    /\ wbQ' = <<>> /\ topOut' = <<>>

\* startProcessingFlush.  A flush is "kernel" when it comes at the end of a kernel, and
\* "shootdown" when it discards what is in flight and leaves the cache paused.
StartFlush ==
    /\ flushing = "none" /\ ctlIn # <<>> /\ Head(ctlIn) # "restart"
    /\ flushing' = Head(ctlIn)
    /\ ctlIn' = Tail(ctlIn)
    /\ cstate' = "preflushing"
    /\ IF Head(ctlIn) = "shootdown" THEN DiscardInflight
       ELSE UNCHANGED <<blocks, frontVars, dirToBank, bank, post, mshrQ, processing, wbQ, topOut>>
    /\ UNCHANGED <<flushOther, trans, lru, evictList, down, mshr, entry, botIn, toEvict, ctlOut>>

AllUnlocked == \A w \in Way : ~ blocks[w].locked /\ blocks[w].readers = 0

\* processPreFlushing; the program panics if a block is locked.
PreFlush ==
    /\ flushing # "none" /\ cstate = "preflushing" /\ inFlight = {} /\ AllUnlocked
    /\ toEvict' = {w \in Way : blocks[w].valid /\ blocks[w].dirty}
    /\ cstate' = "flushing"
    /\ UNCHANGED <<flushOther, trans, dirVars, evictList, frontVars, dirToBank, bank, post, down,
                   mshrVars, wbQ, topOut, botIn, flushing, ctlIn, ctlOut>>

\* processFlush.
FlushBlock ==
    LET w == Min(toEvict) IN
    /\ flushing # "none" /\ cstate = "flushing" /\ toEvict # {} /\ HasRoom(dirToBank)
    /\ trans' = [trans EXCEPT ![Flush(w)] = [NoTrans EXCEPT !.act = "evict", !.way = w,
                     !.vline = blocks[w].line, !.vmask = blocks[w].mask]]
    /\ dirToBank' = Append(dirToBank, Flush(w))
    /\ toEvict' = toEvict \ {w}
    /\ UNCHANGED <<flushOther, dirVars, evictList, frontVars, bank, post, down, mshrVars, wbQ,
                   topOut, botIn, cstate, flushing, ctlIn, ctlOut>>

\* Mutant: evictions that memory has yet to acknowledge do not count.
FlushCompletedEarly ==
    /\ dirToBank = <<>> /\ bank = <<>> /\ post = <<>> /\ wbQ = <<>>
    /\ fetching = {} /\ pending = <<>>

\* flushCompleted.
FlushCompleted ==
    /\ dirToBank = <<>> /\ bank = <<>> /\ post = <<>> /\ wbQ = <<>>
    /\ fetching = {} /\ evicting = <<>> /\ pending = <<>>

\* finalizeFlushing, with the resets of MSHR and directory.
FinalizeFlush ==
    /\ flushing # "none" /\ cstate = "flushing" /\ toEvict = {} /\ FlushCompleted
    /\ ctlOut' = Append(ctlOut, "flushed")
    /\ mshr' = {}
    /\ blocks' = [w \in Way |-> EmptyBlock(blocks[w].data)] /\ lru' = Ways1ToN
    /\ trans' = [t \in Trans |-> IF t \in Range(wbToBank) THEN [trans[t] EXCEPT !.orphan = TRUE]
                                 ELSE trans[t]]
    /\ cstate' = IF flushing = "shootdown" THEN "paused" ELSE "running"
    /\ flushing' = "none"
    /\ UNCHANGED <<flushOther, evictList, frontVars, dirToBank, bank, post, down, entry, mshrQ,
                   processing, wbQ, topOut, botIn, toEvict, ctlIn>>

\* handleCacheRestart: the ports are emptied.
CacheRestart ==
    /\ flushing = "none" /\ ctlIn # <<>> /\ Head(ctlIn) = "restart"
    /\ topPort' = <<>> /\ botIn' = <<>>
    /\ cstate' = "running"
    /\ ctlOut' = Append(ctlOut, "restarted")
    /\ ctlIn' = Tail(ctlIn)
    /\ UNCHANGED <<flushOther, trans, dirVars, evictList, inFlight, dirQ, dirToBank, bank, post,
                   down, mshrVars, wbQ, topOut, flushing, toEvict>>

Flusher == StartFlush \/ PreFlush \/ FlushBlock \/ FinalizeFlush \/ CacheRestart

\* Cache.Tick.
CacheTick ==
    \/ TopParser \/ DirectoryStage \/ PullFromBuf \/ BankPipeline \/ FinalizeTrans \/ MshrStage
    \/ ProcessNewTransaction \/ WriteEviction \/ ProcessDataReady \/ ProcessWriteDone
    \/ Flusher
===============================================================================
