----------------------------- MODULE MemorySystem -----------------------------
(***************************************************************************)
(* A write-back cache between the agent of the acceptance tests (akita/    *)
(* mem/acceptancetests/memoryagent.go) and the ideal memory controller     *)
(* (akita/mem/idealmemcontroller), flushed and restarted by the command    *)
(* processor.                                                              *)
(***************************************************************************)
EXTENDS WritebackCache

CONSTANTS
    MaxWaiting,     \* requests of the agent under way
    MaxFlush,       \* bound: flushes
    FlushKind,      \* FlushKind[t]: the flushes that may come after the t-th request
    Workload        \* Workload[t]: the requests that may be the t-th one

ASSUME SystemAssumption ==
    /\ MaxWaiting \in Nat \ {0} /\ MaxFlush \in Nat
    /\ FlushKind \in [0 .. MaxReq -> SUBSET {"kernel", "shootdown"}]
    /\ \A t \in 1 .. MaxReq : Workload[t] \subseteq
           [op : {"read", "write"}, line : 1 .. NumLine, words : (SUBSET Word) \ {{}}]

VARIABLES
    issued,     \* requests that the agent has sent
    waiting,    \* PendingReadReq and PendingWriteReq
    known,      \* KnownMemValue
    result,     \* the data of the answers
    dropped,    \* requests that a shootdown made their sender give up
    mem,        \* the storage of the controller
    cp,         \* "idle", or what the command processor waits for
    flushes     \* flushes so far

agentVars == <<issued, waiting, known, result, dropped>>
cpVars    == <<cp, flushes>>
vars      == <<cacheVars, agentVars, mem, cpVars>>

Init ==
    /\ CacheInit
    /\ issued = 0 /\ waiting = {} /\ dropped = {} /\ result = [t \in Req |-> <<>>]
    /\ known = [l \in Line |-> [x \in Word |-> <<0>>]]
    /\ mem = [l \in Line |-> ZeroData]
    /\ cp = "idle" /\ flushes = 0

-------------------------------------------------------------------------------
\* Agent.  No two requests for one word are under way.

IsInPending(l, words) == \E t \in waiting : LineOf(t) = l /\ reqs[t].words \cap words # {}

\* doRead, doWrite.
AgentSend ==
    /\ issued < MaxReq /\ Cardinality(waiting) < MaxWaiting
    /\ cp \notin {"shootdown", "restart"} /\ Len(topPort) < PortCap
    /\ \E r \in Workload[issued + 1] :
        /\ ~ IsInPending(r.line, r.words)
        /\ reqs' = [reqs EXCEPT ![issued + 1] = r]
        /\ known' = IF r.op = "read" THEN known
                    ELSE [known EXCEPT ![r.line] = [x \in Word |->
                              IF x \in r.words THEN Append(@[x], issued + 1) ELSE @[x]]]
    /\ issued' = issued + 1
    /\ waiting' = waiting \cup {issued + 1}
    /\ topPort' = Append(topPort, issued + 1)
    /\ UNCHANGED <<trans, dirVars, evictList, inFlight, dirQ, bankVars, mshrVars, wbVars, topOut,
                   memPorts, flushVars, result, dropped, mem, cpVars>>

\* The values from the one that was read: checkReadResult drops those before it.
From(values, v) == SubSeq(values, SelectInSeq(values, LAMBDA u : u = v), Len(values))

\* checkReadResult panics if a word has none of the values that it may have.
Match(rsp) == IsRead(rsp.req) => \A x \in DOMAIN rsp.data :
                  rsp.data[x] \in Range(known[LineOf(rsp.req)][x])

\* processMsgRsp; an answer that comes after its requester gave up goes nowhere.
AgentReceive ==
    LET rsp == Head(topOut)
        t   == rsp.req
        l   == LineOf(t)
    IN
    /\ topOut # <<>> /\ (t \in waiting => Match(rsp))
    /\ waiting' = waiting \ {t}
    /\ result' = IF t \in waiting THEN [result EXCEPT ![t] = rsp.data] ELSE result
    /\ known' = IF ~ IsRead(t) \/ t \notin waiting THEN known
                ELSE [known EXCEPT ![l] = [x \in Word |->
                          IF x \in reqs[t].words THEN From(@[x], rsp.data[x]) ELSE @[x]]]
    /\ topOut' = Tail(topOut)
    /\ UNCHANGED <<reqs, trans, dirVars, evictList, frontVars, bankVars, mshrVars, wbVars,
                   memPorts, flushVars, issued, dropped, mem, cpVars>>

-------------------------------------------------------------------------------
\* Memory: a response that finds the port full is tried again later, so that
\* requests are served in any order.

MemServe ==
    /\ Len(botIn) < PortCap
    /\ \E m \in toMem :
        /\ toMem' = toMem \ {m}
        /\ IF m.op = "read"
           THEN /\ botIn' = Append(botIn, [op |-> "data", id |-> m.id, data |-> mem[LineOf(m.id)]])
                /\ UNCHANGED mem
           ELSE /\ botIn' = Append(botIn, [op |-> "done", id |-> m.id, data |-> ZeroData])
                /\ mem' = [mem EXCEPT ![trans[m.id].vline] = [x \in Word |->
                              IF x \in trans[m.id].vmask THEN trans[m.id].vdata[x] ELSE @[x]]]
    /\ UNCHANGED <<reqs, trans, dirVars, evictList, frontVars, bankVars, mshrVars, wbVars, topOut,
                   flushVars, agentVars, cpVars>>

-------------------------------------------------------------------------------
\* Command processor.

cpOther == <<reqs, trans, dirVars, evictList, frontVars, bankVars, mshrVars, wbVars, topOut,
             memPorts, cstate, flushing, toEvict, issued, known, result, mem>>

\* flushCache, at the end of a kernel; flushAndResetL2Cache, in a shootdown, when the CUs
\* have given up what they wait for.
CpFlush ==
    /\ cp = "idle" /\ flushes < MaxFlush
    /\ \E kind \in FlushKind[issued] :
        /\ cp' = kind /\ ctlIn' = Append(ctlIn, kind)
        /\ IF kind = "shootdown" THEN waiting' = {} /\ dropped' = dropped \cup waiting
                                 ELSE UNCHANGED <<waiting, dropped>>
    /\ flushes' = flushes + 1
    /\ UNCHANGED <<cpOther, ctlOut>>

\* processCacheFlushRsp, restartCache.
CpReceive ==
    /\ ctlOut # <<>> /\ ctlOut' = Tail(ctlOut)
    /\ IF cp = "shootdown" THEN cp' = "restart" /\ ctlIn' = Append(ctlIn, "restart")
                           ELSE cp' = "idle" /\ UNCHANGED ctlIn
    /\ UNCHANGED <<cpOther, waiting, dropped, flushes>>

-------------------------------------------------------------------------------
Cache == CacheTick /\ UNCHANGED <<agentVars, mem, cpVars>>

Next == AgentSend \/ AgentReceive \/ Cache \/ MemServe \/ CpFlush \/ CpReceive

\* Every component ticks as long as there is something that it can do; how much the
\* agent sends and how often the command processor flushes is up to them.
Fairness ==
    /\ WF_vars(AgentReceive) /\ WF_vars(MemServe) /\ WF_vars(CpReceive)
    /\ WF_vars(Cache)

Spec == Init /\ [][Next]_vars /\ Fairness

-------------------------------------------------------------------------------
\* "all the blocks should be unlocked before flushing": once no transaction is in
\* flight, the flusher finds no block in use.
FlushFindsUnlocked == cstate = "preflushing" /\ inFlight = {} => AllUnlocked

\* A line is in one way at most, and a way that waits for data belongs to the one
\* transaction that will unlock it; a shootdown unlocks it sooner, but then nobody uses it
\* before the directory is reset.
OneCopy ==
    /\ \A v, w \in Way : v # w /\ blocks[v].valid /\ blocks[w].valid
                             => blocks[v].line # blocks[w].line
    /\ flushing # "shootdown" =>
           \A e \in mshr : blocks[entry[e].way].locked /\ blocks[entry[e].way].line = LineOf(e)

\* The assertion of the agent: a read returns one of the values that it may return.
NoMismatch == topOut # <<>> /\ Head(topOut).req \in waiting => Match(Head(topOut))

\* The last write to the word that was acknowledged.
LastAcknowledged(l, x) ==
    Max({0} \cup {t \in 1 .. issued : /\ reqs[t].op = "write" /\ LineOf(t) = l
                                      /\ x \in reqs[t].words /\ t \notin waiting \cup dropped})

\* When the cache reports the end of a flush, memory has every acknowledged write.
FlushedAll == [][
    cstate = "flushing" /\ cstate' # "flushing" =>
        \A l \in Line : \A x \in Word : mem'[l][x] >= LastAcknowledged(l, x)]_vars

\* The agent sees a memory that holds the last write of every word and answers everything.
Latest(l) == [x \in Word |-> Last(known[l][x])]

Memory == INSTANCE WordMemory WITH value <- [l \in Line |-> Latest(l)], request <- reqs

ServesMemory == Memory!Spec

\* Every flush ends, and after a shootdown the cache is restarted.
FlushEnds == cp # "idle" ~> cp = "idle"
===============================================================================
