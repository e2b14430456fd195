----------------------------- MODULE T18Requester -----------------------------
(***************************************************************************)
(* mgpusim/timing/rdma/t18_requester.go: the requester engine of T18.  A   *)
(* table entry stands for one network transaction; full-line reads of a    *)
(* line whose entry is open join the entry, everything else gets an entry  *)
(* of its own and waits in the FIFO of its destination for the window.     *)
(*                                                                         *)
(* The in-flight table is the set of the tracked entries.  An insertion    *)
(* may fail as soon as Ways slots are taken (T18CuckooTable).              *)
(***************************************************************************)
EXTENDS RdmaEngine

CONSTANTS
    ReqMerge,       \* merge reads into open entries
    Window,         \* in-flight limit W
    DistCredits,    \* divide W into per-destination credits
    Hops,           \* Hops[g][d]: mesh distance, -1 for g itself
    TableCap,       \* slots of a table
    Ways,           \* slots of a bucket
    WaiterCap,      \* waiterCap
    BypassWhenFull, \* send untracked when the table is full
    FanoutCap       \* t18FanoutCap

ASSUME RequesterAssumption ==
    /\ {ReqMerge, DistCredits, BypassWhenFull} \subseteq BOOLEAN
    /\ {Window, TableCap, Ways, WaiterCap, FanoutCap} \subseteq Nat \ {0}
    /\ Ways <= TableCap

-------------------------------------------------------------------------------
\* t18_credits.go: how the window is divided into credits of the destinations, and when
\* a destination may send.

\* t18RTTNS in units of 0.2 ns: 84 ns, and 71.4 ns for every hop.
RTT(hops) == 420 + 357 * hops

\* Mutant: a destination comes before itself.
BeforeOrEqual(frac, d, e) == frac[d] > frac[e] \/ (frac[d] = frac[e] /\ d <= e)

\* The order in which destinations get what the division leaves over.
Before(frac, d, e) == frac[d] > frac[e] \/ (frac[d] = frac[e] /\ d < e)

\* t18RTTProportionalCredits: window is split over the destinations in the
\* proportion of their round trips, by largest remainder, ties to the lower
\* index.  hops[d] = -1 marks the requester itself.
RTTProportionalCredits(window, hops) ==
    LET Dst       == {d \in DOMAIN hops : hops[d] >= 0}
        sum       == MapThenSumSet(LAMBDA d : RTT(hops[d]), Dst)
        share     == [d \in Dst |-> (window * RTT(hops[d])) \div sum]
        frac      == [d \in Dst |-> (window * RTT(hops[d])) % sum]
        remaining == window - MapThenSumSet(LAMBDA d : share[d], Dst)
        rank(d)   == Cardinality({e \in Dst : Before(frac, e, d)})
    IN  [d \in DOMAIN hops |->
            IF d \notin Dst THEN 0
            ELSE IF rank(d) < remaining THEN share[d] + 1 ELSE share[d]]

\* The unused own credits of the destinations in waiting, those with requests
\* queued: what a borrower must leave free.
Reserved(credits, inflight, waiting) ==
    MapThenSumSet(LAMBDA e : credits[e] - inflight[e],
                  {e \in waiting : inflight[e] < credits[e]})

\* Mutant: a borrower takes the last slot that is reserved.
CanSendGreedily(d, window, total, distCredits, credits, inflight, waiting) ==
    /\ total < window
    /\ \/ ~ distCredits
       \/ inflight[d] < credits[d]
       \/ window - total >= Reserved(credits, inflight, waiting)

\* t18CreditAllocator.CanSend.
CanSend(d, window, total, distCredits, credits, inflight, waiting) ==
    /\ total < window
    /\ \/ ~ distCredits
       \/ inflight[d] < credits[d]
       \/ window - total > Reserved(credits, inflight, waiting)
-------------------------------------------------------------------------------
VARIABLES
    entries,        \* entries[g]: the t18ReqEntry's of g, by seq
    reqQueues,      \* reqQueues[g][d]: the seq's waiting for the window
    inflight, total,\* the credit allocator
    waiters,        \* waiters[g]: requests accepted and not answered
    fanout          \* fanout[g]: responses ready for L1

reqVars == <<entries, reqQueues, inflight, total, waiters, fanout>>

\* The seq of an entry is the number of the request it was made for.
Entry == [seq : Nat, line : Line, dst : Gpm, open : BOOLEAN, inTable : BOOLEAN,
          sent : BOOLEAN, waiters : Seq(Nat)]

ReqInit ==
    /\ entries = [g \in Gpm |-> {}]
    /\ reqQueues = [g \in Gpm |-> [d \in Gpm |-> <<>>]]
    /\ inflight = [g \in Gpm |-> [d \in Gpm |-> 0]]
    /\ total = [g \in Gpm |-> 0]
    /\ waiters = [g \in Gpm |-> 0]
    /\ fanout = [g \in Gpm |-> <<>>]

Mergeable(r) == r.op = "read"

Table(g) == {e \in entries[g] : e.inTable}
OpenEntry(g, l) == {e \in Table(g) : e.open /\ e.line = l}

Credits == [g \in Gpm |-> IF DistCredits THEN RTTProportionalCredits(Window, Hops[g])
                                         ELSE [d \in Gpm |-> 0]]
Waiting(g) == {d \in Gpm : reqQueues[g][d] # <<>>}

CanSendNow(g, d) ==
    CanSend(d, Window, total[g], DistCredits, Credits[g], inflight[g], Waiting(g))

-------------------------------------------------------------------------------
\* t18ReqFromL1.

\* A full-line read of a line with an open entry, sent or not.
MustMerge(g) ==
    ReqMerge /\ Mergeable(Head1(g)) /\ OpenEntry(g, Head1(g).line) # {}

\* The request joins the entry.
Merge(g) ==
    /\ HasInput(g) /\ MustMerge(g)
    /\ waiters[g] < WaiterCap
    /\ \E e \in OpenEntry(g, Head1(g).line) :
           entries' = [entries EXCEPT ![g] = (@ \ {e}) \cup
                          {[e EXCEPT !.waiters = Append(@, accepted[g] + 1)]}]
    /\ waiters' = [waiters EXCEPT ![g] = @ + 1]
    /\ Accept(g)
    /\ UNCHANGED <<answers, reqQueues, inflight, total, fanout>>

\* Mutant: a write closes nothing.
CloseNone(es, l) == es

\* t18CloseLines.
CloseLines(es, l) ==
    {IF e.inTable /\ e.line = l THEN [e EXCEPT !.open = FALSE] ELSE e : e \in es}

\* The request gets an entry, which is in the table or bypasses it.
NewEntry(g, tracked) ==
    LET n == accepted[g] + 1
        r == Head1(g)
        d == Owner[r.line]
        e == [seq |-> n, line |-> r.line, dst |-> d,
              open |-> tracked /\ ReqMerge /\ Mergeable(r),
              inTable |-> tracked, sent |-> FALSE, waiters |-> <<n>>]
        closed == IF ReqMerge /\ r.op = "write" THEN CloseLines(entries[g], r.line)
                                                ELSE entries[g]
    IN  /\ HasInput(g)
        /\ ~ MustMerge(g)
        /\ waiters[g] < WaiterCap
        /\ entries' = [entries EXCEPT ![g] = closed \cup {e}]
        /\ reqQueues' = [reqQueues EXCEPT ![g][d] = Append(@, n)]
        /\ waiters' = [waiters EXCEPT ![g] = @ + 1]
        /\ Accept(g)
        /\ UNCHANGED <<answers, inflight, total, fanout>>

Track(g) == /\ Cardinality(Table(g)) < TableCap
            /\ NewEntry(g, TRUE)

Bypass(g) ==
    /\ BypassWhenFull /\ HasInput(g)
    /\ Cardinality(Table(g)) >= Ways
    /\ LET d == Owner[Head1(g).line] IN reqQueues[g][d] = <<>> /\ CanSendNow(g, d)
    /\ NewEntry(g, FALSE)

-------------------------------------------------------------------------------
\* Mutant: the credit of the destination is not charged.
AcquireWindowOnly(g, d) == /\ inflight' = inflight
                           /\ total' = [total EXCEPT ![g] = @ + 1]

\* t18CreditAllocator.Acquire and Release.
Acquire(g, d) == /\ inflight' = [inflight EXCEPT ![g][d] = @ + 1]
                 /\ total' = [total EXCEPT ![g] = @ + 1]

Release(g, d) == /\ inflight' = [inflight EXCEPT ![g][d] = @ - 1]
                 /\ total' = [total EXCEPT ![g] = @ - 1]

\* Mutant: any head that may be sent.
AnyHead(g, d) == d \in Waiting(g) /\ CanSendNow(g, d)

\* t18ReqIssue: the oldest head that the window and the credits admit.
Best(g, d) ==
    /\ d \in Waiting(g) /\ CanSendNow(g, d)
    /\ \A e \in Waiting(g) : CanSendNow(g, e) =>
           Head(reqQueues[g][d]) <= Head(reqQueues[g][e])

Issue(g) == \E d \in Gpm :
    /\ Best(g, d)
    /\ LET n == Head(reqQueues[g][d]) IN
           /\ Send(g, d, Packet(g, n))
           /\ entries' = [entries EXCEPT ![g] =
                  {IF e.seq = n THEN [e EXCEPT !.sent = TRUE] ELSE e : e \in @}]
    /\ reqQueues' = [reqQueues EXCEPT ![g][d] = Tail(@)]
    /\ Acquire(g, d)
    /\ UNCHANGED <<toOutside, l1Vars, waiters, fanout>>

\* Mutant: only the first waiter is woken.
WokenFirst(e, ver) == <<[req |-> Head(e.waiters), ver |-> ver]>>

\* A response for every waiter of e.
Woken(e, ver) == [i \in DOMAIN e.waiters |-> [req |-> e.waiters[i], ver |-> ver]]

\* t18ReqRsp: the response wakes all the waiters of its entry.  It stays at the
\* port when they do not fit behind the responses that L1 has yet to take.
Response(g) ==
    /\ HeadIs(g, "rsp")
    /\ LET m == Head(toOutside[g]) IN
       \E e \in entries[g] :
           /\ e.sent /\ e.seq = m.seq
           /\ fanout[g] = <<>> \/ Len(fanout[g]) + Len(e.waiters) <= FanoutCap
           /\ entries' = [entries EXCEPT ![g] = @ \ {e}]
           /\ Release(g, e.dst)
           /\ fanout' = [fanout EXCEPT ![g] = @ \o Woken(e, m.ver)]
    /\ Retrieve(g)
    /\ UNCHANGED <<net, l1Vars, reqQueues, waiters>>

\* t18Fanout.
Fanout(g) ==
    /\ fanout[g] # <<>>
    /\ Answer(g, Head(fanout[g]).req, Head(fanout[g]).ver)
    /\ fanout' = [fanout EXCEPT ![g] = Tail(@)]
    /\ waiters' = [waiters EXCEPT ![g] = @ - 1]
    /\ UNCHANGED <<netVars, setup, accepted, entries, reqQueues, inflight, total>>

\* The requester's part of t18HasPendingWork.
ReqPending(g) ==
    Waiting(g) # {} \/ (\E e \in entries[g] : e.sent) \/ fanout[g] # <<>>
===============================================================================
