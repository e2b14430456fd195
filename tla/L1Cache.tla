-------------------------------- MODULE L1Cache --------------------------------
(***************************************************************************)
(* The caches of a compute unit, which never hold data that memory will    *)
(* not get: write-around (akita/mem/cache/writearound, the vector cache),  *)
(* write-through (the scalar and instruction caches) and write-evict.      *)
(* The three packages are one program but for what a write does to the     *)
(* directory; policy says which one this is.  Stages are actions: the      *)
(* coalescer makes transactions of the requests for one line, the          *)
(* directory looks them up, the bank reads and writes the storage, the     *)
(* bottom parser takes what memory answers, the respond stage answers.     *)
(*                                                                         *)
(* One set and one bank.  A transaction is named by the first request in   *)
(* it, and the value of a word is the number of the request that wrote it. *)
(***************************************************************************)
EXTENDS Naturals, CacheDirectory

CONSTANTS
    Line,           \* lines of the set
    Word,           \* words of a line
    NumWays,
    MaxReq,         \* bound: requests
    MaxTrans,       \* maxNumConcurrentTrans
    MshrCap,        \* entries of the MSHR
    BufCap,         \* room of every buffer and port: numReqPerCycle
    Lanes,          \* width of the directory pipeline: numReqPerCycle, too
    Remote,         \* lines below the RDMA engine
    MaxRemote       \* maxRemoteBottomTrans of the write-around cache; 0: no limit

ASSUME CacheAssumption ==
    /\ {NumWays, MaxReq, MaxTrans, MshrCap, BufCap, Lanes} \subseteq Nat \ {0}
    /\ Remote \subseteq Line /\ MaxRemote \in Nat

VARIABLES
    policy,         \* "around", "through" or "evict"
    reqs,           \* reqs[t]: [op, line, words, last]
    topPort,        \* requests that have arrived
    toCoalesce,     \* the group that waits for its last request
    transactions,   \* requests accepted and not answered
    done,           \* those that can be answered
    data,           \* data[t]: the words for read t
    trans,          \* trans[g]: the transaction
    post,           \* postCoalesceTransactions
    dirBuf, pipe, dirQ,  \* on the way to the directory: buffer, pipeline, its buffer
    blocks, lru,    \* directory and storage
    mshr,           \* entries [line, reqs]; the first of reqs fetches the line
    bank,           \* [trans, act, data] on the way to and through the bank
    toBottom,       \* messages to memory: [trans, op, line, data]
    bottomPort,     \* answers of memory: [trans, op, data]
    remoteCount,    \* remoteBottomTrans
    isPaused,
    currFlush,      \* currFlushReq, "none", "kernel" or "shootdown"
    ctrl            \* the request at the control port, or "none"

topVars   == <<reqs, topPort, toCoalesce>>
transVars == <<transactions, done, data, trans, post>>
dirVars   == <<dirBuf, pipe, dirQ>>
setVars   == <<blocks, lru, mshr, bank>>
lowVars   == <<toBottom, bottomPort, remoteCount>>
ctrlVars  == <<isPaused, currFlush, ctrl>>
cacheVars == <<policy, topVars, transVars, dirVars, setVars, lowVars, ctrlVars>>

Req  == 1 .. MaxReq
Way  == 1 .. NumWays
Lane == 1 .. Lanes

ZeroData == [x \in Word |-> 0]
NewTrans == [parts |-> <<>>, way |-> 0, fetches |-> FALSE, writes |-> FALSE,
             merges |-> FALSE, remote |-> FALSE]
EmptyDir == [w \in Way |-> EmptyBlock(ZeroData)]
OldestFirst == [w \in Way |-> w]

LineOf(t) == reqs[t].line
IsRead(t) == reqs[t].op = "read"
HasRoom(buffer) == Len(buffer) < BufCap

\* coalesceWrite: a later write of the group covers an earlier one.
Writer(g, x)  == {t \in Range(trans[g].parts) : x \in reqs[t].words}
WrittenBy(g)  == {x \in Word : ~ IsRead(g) /\ Writer(g, x) # {}}
Apply(g, old) == [x \in Word |-> IF x \in WrittenBy(g) THEN Max(Writer(g, x)) ELSE old[x]]

CacheInit ==
    /\ policy \in {"around", "through", "evict"}
    /\ topPort = <<>> /\ toCoalesce = <<>>
    /\ transactions = <<>> /\ done = {} /\ data = [t \in Req |-> <<>>]
    /\ trans = [t \in Req |-> NewTrans] /\ post = {}
    /\ dirBuf = <<>> /\ pipe = [l \in Lane |-> 0] /\ dirQ = <<>>
    /\ blocks = EmptyDir /\ lru = OldestFirst /\ mshr = {} /\ bank = <<>>
    /\ toBottom = <<>> /\ bottomPort = <<>> /\ remoteCount = 0
    /\ isPaused = FALSE /\ currFlush = "none" /\ ctrl = "none"

-------------------------------------------------------------------------------
\* Coalescer.  A request that may wait for the next one of its wavefront is held
\* back, without limit; a request for another line or the last one of an
\* instruction sends the group on.

\* canReqCoalesce.
Joins(t) == \A u \in Range(toCoalesce) : LineOf(u) = LineOf(t)

\* coalesceAndSend, for the groups gs.
SendGroups(gs) ==
    LET Id(group) == Head(group)
        ids == [i \in DOMAIN gs |-> Id(gs[i])]
    IN  /\ dirBuf' = dirBuf \o ids
        /\ post' = post \cup Range(ids)
        /\ trans' = [g \in Req |-> IF \E i \in DOMAIN gs : ids[i] = g
                                   THEN [NewTrans EXCEPT !.parts = gs[CHOOSE i \in DOMAIN gs : ids[i] = g]]
                                   ELSE trans[g]]

\* createTransaction, Retrieve.
Take(t) == /\ transactions' = Append(transactions, t)
           /\ topPort' = Tail(topPort)

\* processReqCoalescable.
ReqCoalescable(t) ==
    /\ ~ reqs[t].last /\ Joins(t)
    /\ Take(t) /\ toCoalesce' = Append(toCoalesce, t)
    /\ UNCHANGED <<dirBuf, post, trans>>

\* processReqNoncoalescable.
ReqNoncoalescable(t) ==
    /\ ~ reqs[t].last /\ ~ Joins(t) /\ HasRoom(dirBuf)
    /\ Take(t) /\ SendGroups(<<toCoalesce>>) /\ toCoalesce' = <<t>>

\* processReqLastInWaveCoalescable.
LastCoalescable(t) ==
    /\ reqs[t].last /\ Joins(t) /\ HasRoom(dirBuf)
    /\ Take(t) /\ SendGroups(<<Append(toCoalesce, t)>>) /\ toCoalesce' = <<>>

\* processReqLastInWaveNoncoalescable: with room for the waiting group only, the
\* request stays at the port.
LastNoncoalescable(t) ==
    /\ reqs[t].last /\ ~ Joins(t) /\ HasRoom(dirBuf)
    /\ toCoalesce' = <<>>
    /\ \/ /\ Len(dirBuf) + 1 < BufCap
          /\ Take(t) /\ SendGroups(<<toCoalesce, <<t>>>>)
       \/ /\ Len(dirBuf) + 1 = BufCap
          /\ SendGroups(<<toCoalesce>>)
          /\ UNCHANGED <<transactions, topPort>>

Coalesce ==
    /\ ~ isPaused /\ topPort # <<>> /\ Len(transactions) < MaxTrans
    /\ LET t == Head(topPort)
       IN  \/ ReqCoalescable(t) \/ ReqNoncoalescable(t)
           \/ LastCoalescable(t) \/ LastNoncoalescable(t)
    /\ UNCHANGED <<policy, reqs, done, data, pipe, dirQ, setVars, lowVars, ctrlVars>>

-------------------------------------------------------------------------------
\* Directory stage.

dirMoved == <<policy, topVars, transVars, setVars, lowVars, ctrlVars>>

\* Pipeline.Accept: the first lane that is free.
DirAccept ==
    /\ ~ isPaused /\ dirBuf # <<>>
    /\ \E l \in Lane : /\ pipe[l] = 0 /\ \A k \in 1 .. l - 1 : pipe[k] # 0
                       /\ pipe' = [pipe EXCEPT ![l] = Head(dirBuf)]
    /\ dirBuf' = Tail(dirBuf)
    /\ UNCHANGED <<dirQ, dirMoved>>

\* Pipeline.Tick empties the lanes from the first one on, as far as the buffer has
\* room.  A transaction that was left behind is overtaken by a later one in an
\* earlier lane.
DirPipeline ==
    LET full == SelectSeq([l \in Lane |-> l], LAMBDA l : pipe[l] # 0)
        n    == Min({Len(full), BufCap - Len(dirQ)})
        out  == SubSeq(full, 1, n)
    IN  /\ ~ isPaused /\ n > 0
        /\ dirQ' = dirQ \o [i \in 1 .. n |-> pipe[out[i]]]
        /\ pipe' = [l \in Lane |-> IF l \in Range(out) THEN 0 ELSE pipe[l]]
        /\ UNCHANGED <<dirBuf, dirMoved>>

Query(l)  == {e \in mshr : e.line = l}
Hits(l)   == Lookup(blocks, l)
Victim    == FindVictim(blocks, lru)
InUse(w)  == blocks[w].locked \/ blocks[w].readers > 0

\* The writes and fetches of transaction g that the bottom port accepts, in order.
\* Only the write-around cache counts those to the RDMA engine (canSendToBottomModule,
\* trackBottomTransaction).
Counted(g) == policy = "around" /\ LineOf(g) \in Remote
CanSendToBottom(g) == Counted(g) /\ MaxRemote > 0 => remoteCount < MaxRemote

Bottom(g, op) == [trans |-> g, op |-> op, line |-> LineOf(g),
                  data |-> IF op = "read" THEN <<>>
                           ELSE [x \in WrittenBy(g) |-> Max(Writer(g, x))]]

Send(g, ops) ==
    /\ CanSendToBottom(g) /\ Len(toBottom) + Len(ops) <= BufCap
    /\ toBottom' = toBottom \o [i \in DOMAIN ops |-> Bottom(g, ops[i])]
    /\ remoteCount' = IF Counted(g) THEN remoteCount + 1 ELSE remoteCount

\* What becomes of transaction g when these messages were sent.
Sent(g, ops) == [trans[g] EXCEPT !.writes = @ \/ "write" \in Range(ops),
                                 !.fetches = @ \/ "read" \in Range(ops),
                                 !.remote = @ \/ (ops # <<>> /\ Counted(g))]

PushToBank(g, act, value) ==
    /\ HasRoom(bank)
    /\ bank' = Append(bank, [trans |-> g, act |-> act, data |-> value])

\* processMSHRHit.
JoinEntry(g) ==
    mshr' = {IF e.line = LineOf(g) THEN [e EXCEPT !.reqs = Append(@, g)] ELSE e : e \in mshr}

ReadMSHRHit(g) ==
    /\ IsRead(g) /\ Query(LineOf(g)) # {}
    /\ JoinEntry(g)
    /\ UNCHANGED <<trans, blocks, lru, bank, toBottom, remoteCount>>

\* processReadHit.
ReadHit(g) ==
    /\ IsRead(g) /\ Query(LineOf(g)) = {}
    /\ \E w \in Hits(LineOf(g)) :
        /\ ~ blocks[w].locked
        /\ PushToBank(g, "readHit", ZeroData)
        /\ trans' = [trans EXCEPT ![g].way = w]
        /\ blocks' = [blocks EXCEPT ![w].readers = @ + 1]
        /\ lru' = Visit(lru, w)
    /\ UNCHANGED <<mshr, toBottom, remoteCount>>

\* fetchFromBottom, after the messages ops: the line takes the place of the victim.
FetchAfter(g, ops) ==
    LET w == Victim
    IN  /\ ~ InUse(w) /\ Cardinality(mshr) < MshrCap
        /\ Send(g, Append(ops, "read"))
        /\ trans' = [trans EXCEPT ![g] = [Sent(g, Append(ops, "read")) EXCEPT
                                              !.way = w, !.merges = ~ IsRead(g)]]
        /\ mshr' = mshr \cup {[line |-> LineOf(g), reqs |-> <<g>>]}
        /\ blocks' = [blocks EXCEPT ![w].line = LineOf(g), ![w].valid = TRUE, ![w].locked = TRUE]
        /\ lru' = Visit(lru, w)
        /\ UNCHANGED bank

\* processReadMiss.
ReadMiss(g) == /\ IsRead(g) /\ Query(LineOf(g)) = {} /\ Hits(LineOf(g)) = {}
               /\ FetchAfter(g, <<>>)

\* writeBottom, and nothing else.
WriteBottom(g) == /\ Send(g, <<"write">>)
                  /\ trans' = [trans EXCEPT ![g] = Sent(g, <<"write">>)]

\* Mutant: a write goes past the fetch of its line.
WritePastFetch(g) ==
    /\ ~ IsRead(g) /\ Query(LineOf(g)) # {}
    /\ WriteBottom(g)
    /\ UNCHANGED <<blocks, lru, mshr, bank>>

\* processWrite: a write to a line that is being fetched goes to memory and waits
\* for the fetch.
WriteMSHRHit(g) ==
    /\ ~ IsRead(g) /\ Query(LineOf(g)) # {}
    /\ WriteBottom(g) /\ JoinEntry(g)
    /\ UNCHANGED <<blocks, lru, bank>>

\* processWriteHit, on the block of way w.
WriteInto(g, w) ==
    /\ ~ InUse(w)
    /\ PushToBank(g, "write", ZeroData)
    /\ Send(g, <<"write">>)
    /\ trans' = [trans EXCEPT ![g] = [Sent(g, <<"write">>) EXCEPT !.way = w]]
    /\ blocks' = [blocks EXCEPT ![w].line = LineOf(g), ![w].valid = TRUE, ![w].locked = TRUE]
    /\ lru' = Visit(lru, w)
    /\ UNCHANGED mshr

WriteHit(g) ==
    /\ policy # "evict" /\ ~ IsRead(g) /\ Query(LineOf(g)) = {}
    /\ \E w \in Hits(LineOf(g)) : WriteInto(g, w)

\* writeevict, processWriteHit: the block is given up.
WriteEvict(g) ==
    /\ policy = "evict" /\ ~ IsRead(g) /\ Query(LineOf(g)) = {}
    /\ \E w \in Hits(LineOf(g)) :
        /\ ~ InUse(w) /\ HasRoom(bank)
        /\ WriteBottom(g)
        /\ blocks' = [blocks EXCEPT ![w].valid = FALSE]
    /\ UNCHANGED <<lru, mshr, bank>>

MissingWrite(g) == ~ IsRead(g) /\ Query(LineOf(g)) = {} /\ Hits(LineOf(g)) = {}

\* writeMiss.
WriteMiss(g) ==
    /\ policy # "through" /\ MissingWrite(g)
    /\ WriteBottom(g)
    /\ UNCHANGED <<blocks, lru, mshr, bank>>

\* writethrough, fullLineWriteMiss.
FullLineWriteMiss(g) ==
    /\ policy = "through" /\ MissingWrite(g) /\ WrittenBy(g) = Word
    /\ WriteInto(g, Victim)

\* writethrough, partialWriteMiss: write, then fetch the line.
PartialWriteMiss(g) ==
    /\ policy = "through" /\ MissingWrite(g) /\ WrittenBy(g) # Word
    /\ FetchAfter(g, IF trans[g].writes THEN <<>> ELSE <<"write">>)

DirStage ==
    /\ ~ isPaused /\ dirQ # <<>> /\ dirQ' = Tail(dirQ)
    /\ LET g == Head(dirQ)
       IN  \/ ReadMSHRHit(g) \/ ReadHit(g) \/ ReadMiss(g)
           \/ WriteMSHRHit(g) \/ WriteHit(g) \/ WriteEvict(g) \/ WriteMiss(g)
           \/ FullLineWriteMiss(g) \/ PartialWriteMiss(g)
    /\ UNCHANGED <<policy, topVars, transactions, done, data, post, dirBuf, pipe,
                   bottomPort, ctrlVars>>

\* partialWriteMiss, when the port takes the write and not the fetch: the
\* transaction stays, and the fetch is tried again.
PartialWriteSent ==
    /\ ~ isPaused /\ dirQ # <<>> /\ policy = "through"
    /\ LET g == Head(dirQ)
       IN  /\ MissingWrite(g) /\ WrittenBy(g) # Word /\ ~ trans[g].writes
           /\ ~ InUse(Victim) /\ Cardinality(mshr) < MshrCap
           /\ Len(toBottom) + 1 = BufCap /\ Send(g, <<"write">>)
           /\ trans' = [trans EXCEPT ![g] = [Sent(g, <<"write">>) EXCEPT !.merges = TRUE]]
    /\ UNCHANGED <<policy, topVars, transactions, done, data, post, dirVars, setVars,
                   bottomPort, ctrlVars>>

-------------------------------------------------------------------------------
\* Bank and bottom parser.

\* Mutant: only the first request of a transaction is answered.
FinishFirst(gs, value) ==
    LET parts == {Head(trans[g].parts) : g \in gs}
    IN  /\ done' = done \cup parts
        /\ data' = [t \in Req |-> IF t \in parts /\ IsRead(t)
                                  THEN [x \in reqs[t].words |-> value[x]] ELSE data[t]]
        /\ post' = post \ gs

\* The requests of the transactions gs can be answered, the reads from value.
Finish(gs, value) ==
    LET parts == UNION {Range(trans[g].parts) : g \in gs}
    IN  /\ done' = done \cup parts
        /\ data' = [t \in Req |-> IF t \in parts /\ IsRead(t)
                                  THEN [x \in reqs[t].words |-> value[x]] ELSE data[t]]
        /\ post' = post \ gs

\* finalizeReadHitTrans, finalizeWriteTrans, finalizeWriteFetchedTrans.
BankStage ==
    /\ ~ isPaused /\ bank # <<>> /\ bank' = Tail(bank)
    /\ LET b == Head(bank)
           g == b.trans
           w == trans[g].way
           new == IF b.act = "write" THEN Apply(g, blocks[w].data) ELSE b.data
       IN  \/ /\ b.act = "readHit"
              /\ Finish({g}, blocks[w].data)
              /\ blocks' = [blocks EXCEPT ![w].readers = @ - 1]
           \/ /\ b.act # "readHit"
              /\ blocks' = [blocks EXCEPT ![w].data = new, ![w].locked = FALSE]
              /\ UNCHANGED <<done, data, post>>
    /\ UNCHANGED <<policy, topVars, transactions, trans, dirVars, lru, mshr, lowVars, ctrlVars>>

\* releaseBottomTransaction.
Release(g) ==
    /\ remoteCount' = IF trans[g].remote /\ remoteCount > 0 THEN remoteCount - 1 ELSE remoteCount
    /\ trans' = [trans EXCEPT ![g].remote = FALSE]

HeadOfBottom(op) == ~ isPaused /\ bottomPort # <<>> /\ Head(bottomPort).op = op

\* processDoneRsp and processDataReady, for an answer that nobody waits for.
Known(m) == /\ m.trans \in post
            /\ IF m.op = "read" THEN trans[m.trans].fetches
               ELSE trans[m.trans].writes /\ ~ trans[m.trans].merges

StaleRsp ==
    /\ ~ isPaused /\ bottomPort # <<>> /\ ~ Known(Head(bottomPort))
    /\ bottomPort' = Tail(bottomPort)
    /\ UNCHANGED <<policy, topVars, transVars, dirVars, setVars, toBottom, remoteCount, ctrlVars>>

DoneRsp ==
    /\ HeadOfBottom("write") /\ Known(Head(bottomPort))
    /\ LET g == Head(bottomPort).trans
       IN  Finish({g}, ZeroData) /\ Release(g)
    /\ bottomPort' = Tail(bottomPort)
    /\ UNCHANGED <<policy, topVars, transactions, dirVars, setVars, toBottom, ctrlVars>>

\* mergeMSHRData: all writes that joined, then finalizeMSHRTrans: all requests.
Merged(gs, value) == FoldLeft(LAMBDA old, g : Apply(g, old), value, gs)

DataReady ==
    /\ HeadOfBottom("read") /\ Known(Head(bottomPort))
    /\ LET g == Head(bottomPort).trans
       IN  \E e \in Query(LineOf(g)) :
            LET new == Merged(e.reqs, Head(bottomPort).data)
            IN  /\ PushToBank(g, "fetched", new)
                /\ Finish(Range(e.reqs) \cup {g}, new)
                /\ mshr' = mshr \ {e}
                /\ Release(g)
    /\ bottomPort' = Tail(bottomPort)
    /\ UNCHANGED <<policy, topVars, transactions, dirVars, blocks, lru, toBottom, ctrlVars>>

\* respondStage.Tick: the first request that is done is answered.
FirstDone == SelectInSeq(transactions, LAMBDA t : t \in done)

Respond ==
    /\ ~ isPaused /\ FirstDone # 0
    /\ transactions' = RemoveAt(transactions, FirstDone)
    /\ done' = done \ {transactions[FirstDone]}
    /\ UNCHANGED <<policy, topVars, data, trans, post, dirVars, setVars, lowVars, ctrlVars>>

-------------------------------------------------------------------------------
\* Control stage.

ctrlOther == <<policy, reqs, data, trans, pipe, dirQ, toBottom>>

\* startCacheFlush.
StartFlush ==
    /\ ctrl \in {"kernel", "shootdown"} /\ currFlush = "none"
    /\ currFlush' = ctrl /\ ctrl' = "none"
    /\ UNCHANGED <<policy, topVars, transVars, dirVars, setVars, lowVars, isPaused>>

\* processCurrentFlush, hardResetCache: the pipeline of the directory and the buffer
\* behind it keep what they hold.  The coalescer has run before in the same Tick, so
\* that nothing waits at the port of a cache without transactions.
EndFlush ==
    /\ currFlush # "none"
    /\ currFlush = "kernel" => transactions = <<>> /\ topPort = <<>>
    /\ topPort' = <<>> /\ bottomPort' = <<>> /\ dirBuf' = <<>> /\ bank' = <<>>
    /\ blocks' = EmptyDir /\ lru' = OldestFirst /\ mshr' = {}
    /\ toCoalesce' = <<>> /\ transactions' = <<>> /\ done' = {} /\ post' = {}
    /\ remoteCount' = 0
    /\ isPaused' = (isPaused \/ currFlush = "shootdown")
    /\ currFlush' = "none"
    /\ UNCHANGED <<ctrlOther, ctrl>>

\* doCacheRestart.
Restart ==
    /\ ctrl = "restart" /\ ctrl' = "none"
    /\ isPaused' = FALSE /\ topPort' = <<>> /\ bottomPort' = <<>>
    /\ UNCHANGED <<ctrlOther, toCoalesce, transactions, done, post, dirBuf, setVars,
                   remoteCount, currFlush>>
===============================================================================
