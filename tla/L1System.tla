------------------------------- MODULE L1System -------------------------------
(***************************************************************************)
(* A first-level cache between its requester, the address translator, the  *)
(* memory below it and the command processor that flushes it.              *)
(***************************************************************************)
EXTENDS L1Cache

CONSTANTS
    Workload,       \* the sequences of requests that there may be
    MaxFlush,       \* bound: flushes
    FlushKind       \* FlushKind[t]: the flushes that may come after the t-th request

\* An instruction only reads or only writes, and the requests that are to be
\* coalesced come after one another.
ASSUME WorkloadAssumption ==
    \A w \in Workload :
        /\ w \in [Req -> [op : {"read", "write"}, line : Line, words : SUBSET Word \ {{}},
                          last : BOOLEAN]]
        /\ \A t \in Req \ {1} : ~ w[t-1].last /\ w[t-1].line = w[t].line => w[t-1].op = w[t].op
ASSUME FlushAssumption ==
    MaxFlush \in Nat /\ FlushKind \in [0 .. MaxReq -> SUBSET {"kernel", "shootdown"}]

VARIABLES
    issued,     \* requests sent
    answered,   \* requests answered
    before,     \* before[t]: the requests answered when t was sent
    dropped,    \* requests that a shootdown made their sender give up
    mem,        \* what memory holds
    cp,         \* "idle", or what the command processor waits for
    flushes     \* flushes so far

requesterVars == <<issued, answered, before, dropped>>
vars == <<cacheVars, requesterVars, mem, cp, flushes>>

Init ==
    /\ CacheInit /\ reqs \in Workload
    /\ issued = 0 /\ answered = {} /\ dropped = {} /\ before = [t \in Req |-> {}]
    /\ mem = [l \in Line |-> ZeroData]
    /\ cp = "idle" /\ flushes = 0

-------------------------------------------------------------------------------
Issue ==
    /\ issued < MaxReq /\ cp \in {"idle", "kernel"} /\ HasRoom(topPort)
    /\ issued' = issued + 1
    /\ before' = [before EXCEPT ![issued'] = answered]
    /\ topPort' = Append(topPort, issued')
    /\ UNCHANGED <<policy, reqs, toCoalesce, transVars, dirVars, setVars, lowVars, ctrlVars,
                   answered, dropped, mem, cp, flushes>>

\* The requester takes the answer.
Answer ==
    /\ Respond
    /\ answered' = answered \cup {transactions[FirstDone]}
    /\ UNCHANGED <<issued, before, dropped, mem, cp, flushes>>

\* A write stores the words that its mask names.
Stored(m, value) == [x \in Word |-> IF x \in DOMAIN m.data THEN m.data[x] ELSE value[x]]

\* The memory serves the requests for one line in order, for others in any.
Serve ==
    /\ HasRoom(bottomPort)
    /\ \E i \in DOMAIN toBottom :
        LET m == toBottom[i]
        IN  /\ \A j \in 1 .. i - 1 : toBottom[j].line # m.line
            /\ toBottom' = RemoveAt(toBottom, i)
            /\ mem' = IF m.op = "read" THEN mem ELSE [mem EXCEPT ![m.line] = Stored(m, @)]
            /\ bottomPort' = Append(bottomPort, [trans |-> m.trans, op |-> m.op,
                                data |-> IF m.op = "read" THEN mem[m.line] ELSE <<>>])
    /\ UNCHANGED <<policy, topVars, transVars, dirVars, setVars, remoteCount, ctrlVars,
                   requesterVars, cp, flushes>>

\* The command processor flushes the cache at the end of a kernel or in a shootdown,
\* after which the requester has forgotten its requests, and restarts it.
FlushReq ==
    /\ cp = "idle" /\ flushes < MaxFlush
    /\ \E kind \in FlushKind[issued] : cp' = kind /\ ctrl' = kind
    /\ flushes' = flushes + 1
    /\ dropped' = IF cp' = "shootdown" THEN 1 .. issued \ answered ELSE dropped
    /\ UNCHANGED <<policy, topVars, transVars, dirVars, setVars, lowVars, isPaused, currFlush,
                   issued, answered, before, mem>>

FlushRsp ==
    /\ EndFlush
    /\ cp' = IF currFlush = "shootdown" THEN "paused" ELSE "idle"
    /\ UNCHANGED <<requesterVars, mem, flushes>>

RestartReq ==
    /\ cp = "paused" /\ cp' = "restart" /\ ctrl' = "restart"
    /\ UNCHANGED <<policy, topVars, transVars, dirVars, setVars, lowVars, isPaused, currFlush,
                   requesterVars, mem, flushes>>

RestartRsp ==
    /\ Restart /\ cp' = "idle"
    /\ UNCHANGED <<requesterVars, mem, flushes>>

\* The stages of the cache.
Stage == /\ \/ Coalesce \/ DirAccept \/ DirPipeline \/ DirStage \/ PartialWriteSent
            \/ BankStage \/ StaleRsp \/ DoneRsp \/ DataReady \/ StartFlush
         /\ UNCHANGED <<requesterVars, mem, cp, flushes>>

Sure == Stage \/ Answer \/ Serve \/ FlushRsp \/ RestartReq \/ RestartRsp

Next == Sure \/ Issue \/ FlushReq

\* Whatever can be done is done at some time; requests and flushes need not come.
Spec == Init /\ [][Next]_vars /\ WF_vars(Sure)

-------------------------------------------------------------------------------
(* Properties. *)

TypeOK ==
    /\ topPort \in Seq(Req) /\ toCoalesce \in Seq(Req) /\ transactions \in Seq(Req)
    /\ {Len(topPort), Len(dirBuf), Len(dirQ), Len(bank), Len(toBottom), Len(bottomPort)}
           \subseteq 0 .. BufCap
    /\ Len(transactions) <= MaxTrans /\ Cardinality(mshr) <= MshrCap
    /\ done \subseteq Range(transactions) /\ post \subseteq Req
    /\ \A w \in Way : blocks[w].readers \in 0 .. MaxReq
    /\ \A e \in mshr : e.line \in Line /\ e.reqs \in Seq(Req)

\* A read returns no value that was replaced before it was asked for: not of a write
\* that had been answered when a later one was sent which, in turn, had been answered
\* when the read was sent -- whether the value comes from a block, from a fetch, or from
\* writes that joined the fetch, and whatever overtakes it in the directory's pipeline.
Older(v, t) == v = 0 \/ v \in before[t]
WritesTo(l, x) == {t \in 1 .. issued : ~ IsRead(t) /\ LineOf(t) = l /\ x \in reqs[t].words}

ReadsFresh == \A t \in answered : \A x \in DOMAIN data[t] :
    /\ data[t][x] \in WritesTo(LineOf(t), x) \cup {0}
    /\ ~ \E u \in WritesTo(LineOf(t), x) \cap before[t] : Older(data[t][x], u)

\* A block that may be read holds what memory holds once it has served the writes on
\* their way: dropping the block, at any moment, loses nothing.
OnTheWay(l) == SelectSeq(toBottom, LAMBDA m : m.line = l /\ m.op = "write")
InMemory(l) == FoldLeft(LAMBDA value, m : Stored(m, value), mem[l], OnTheWay(l))

CopyInSync == \A w \in Way : blocks[w].valid /\ ~ blocks[w].locked =>
    blocks[w].data = InMemory(blocks[w].line)

\* Every request is answered, unless a shootdown drops it -- or it waits, as one that
\* may be coalesced, for a next request that never comes.  The exception is a request
\* that a shootdown drops and leaves in the directory's pipeline (hardResetCache): after
\* the restart it opens an MSHR entry, the answer to whose fetch is thrown away; the entry
\* and its block are never released, and requests may wait for them for ever.  Nothing
\* else is lost to a flush.
Orphaned == \E e \in mshr : Head(e.reqs) \in dropped

AllAnswered ==
    \/ \A t \in Req : <>[](t <= issued => t \in answered \cup dropped \cup Range(toCoalesce))
    \/ <>[]Orphaned
===============================================================================
