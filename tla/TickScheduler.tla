---------------------------- MODULE TickScheduler ----------------------------
(***************************************************************************)
(* The event engine of akita/sim (SerialEngine, ParallelEngine) and the    *)
(* TickScheduler every ticking component embeds.                           *)
(*                                                                         *)
(* Handlers 0 .. N-1 are the components, whose ticks are primary events;   *)
(* handler N is the connection, whose ticks are secondary events.  A tick  *)
(* is not one step: a handler that runs moves through the pc values of its *)
(* Tick function, so that the steps of the events which ParallelEngine     *)
(* runs in one round interleave.  Time is counted in units that every      *)
(* Period[h] (1 / Freq) is a multiple of.                                  *)
(***************************************************************************)
EXTENDS Integers

CONSTANTS
    N,          \* number of components
    Period,     \* Period[h]: length of h's cycle
    Parallel    \* TRUE: ParallelEngine; FALSE: SerialEngine

ASSUME NAssumption == N \in Nat \ {0}
ASSUME PeriodAssumption == Period \in [0 .. N -> Nat \ {0}]
ASSUME ParallelAssumption == Parallel \in BOOLEAN

Agent   == 0 .. N - 1
Conn    == N
Handler == 0 .. N

VARIABLES
    now,        \* the engine's time
    queue,      \* the primary and the secondary event queue: tick events
    next,       \* next[h]: nextTickTime of h's TickScheduler, -1 at first
    pc,         \* pc[h]: where h is in its Tick function, "idle" outside it
    progress    \* progress[h]: madeProgress of the Tick that h runs

schedVars == <<now, queue, next, pc, progress>>

Event == [time : Nat, handler : Handler]

\* Mutant: all events are primary.
NeverSecondary(h) == FALSE

IsSecondary(h) == h = Conn

\* Freq.NextTick: t is rounded to a tenth of h's cycle, and the boundary after
\* that tenth is the next tick.  A t in the last twentieth of a cycle counts as
\* the boundary itself, and skips to the one after it.
NextTick(t, h) ==
    LET tenths == (20 * t + Period[h]) \div (2 * Period[h])
    IN  (tenths \div 10 + 1) * Period[h]

Idle == \A h \in Handler : pc[h] = "idle"

\* TickScheduler.TickNow (late = {}) and TickLater (soon = {}): the handlers of
\* soon ask for a tick at the current time, those of late for one in their next
\* cycle.  A request that is not later than nextTickTime is dropped.
Tick(soon, late) ==
    LET At(h) == IF h \in late THEN NextTick(now, h) ELSE now
        accepted == {h \in soon \cup late : next[h] < At(h)}
    IN  /\ next' = [h \in Handler |-> IF h \in accepted THEN At(h) ELSE next[h]]
        /\ queue' = queue \cup {[time |-> At(h), handler |-> h] : h \in accepted}

\* The choice of the next event: the earliest one, a primary event before a
\* secondary one of the same time.  SerialEngine runs one event at a time.
\* ParallelEngine starts every event of the round, which are of one time and
\* one class, and waits for all of them before the next round.
MayRun(e) ==
    /\ e \in queue
    /\ \A f \in queue : e.time < f.time \/ (e.time = f.time
                            /\ (IsSecondary(e.handler) => IsSecondary(f.handler)))
    /\ pc[e.handler] = "idle"
    /\ \/ Idle
       \/ /\ Parallel
          /\ e.time = now
          /\ \A h \in Handler : pc[h] # "idle" =>
                 IsSecondary(h) = IsSecondary(e.handler)

\* The engine pops e and its handler's Tick begins, at the location first.
Begin(e, first) ==
    /\ MayRun(e)
    /\ now' = e.time
    /\ queue' = queue \ {e}
    /\ pc' = [pc EXCEPT ![e.handler] = first]
    /\ progress' = [progress EXCEPT ![e.handler] = FALSE]
    /\ UNCHANGED next

\* h goes on to the location l of its Tick, having made progress or not.
Goto(h, l, made) ==
    /\ pc' = [pc EXCEPT ![h] = l]
    /\ progress' = [progress EXCEPT ![h] = @ \/ made]

\* TickingComponent.Handle, after Tick: tick again if there was progress.
EndTick(h) ==
    /\ pc[h] = "end"
    /\ Tick({}, IF progress[h] THEN {h} ELSE {})
    /\ pc' = [pc EXCEPT ![h] = "idle"]
    /\ progress' = [progress EXCEPT ![h] = FALSE]
    /\ UNCHANGED now

\* Location: the values of pc.
SchedTypeOK(Location) ==
    /\ now \in Nat
    /\ queue \in SUBSET Event
    /\ next \in [Handler -> Nat \cup {-1}]
    /\ pc \in [Handler -> Location]
    /\ progress \in [Handler -> BOOLEAN]

Pending(h) == \E e \in queue : e.handler = h

\* h has a tick to come, or runs a Tick that asks for one when it ends.
Awake(h) == Pending(h) \/ progress[h]

\* The connection ticks after every component that ticks at the same time: once
\* it has run at the current time, no component runs or will run at this time.
\* The TickNow of a Send or of a Retrieve after the connection's Tick would be
\* dropped, and with it the connection's last chance to deliver.
ConnRunsLast ==
    next[Conn] = now /\ [time |-> now, handler |-> Conn] \notin queue =>
        \A a \in Agent : pc[a] = "idle" /\ [time |-> now, handler |-> a] \notin queue

\* The queue and nextTickTime agree, no event is in the past, the connection and
\* the components do not run together, and a handler outside its Tick has
\* reported its progress.
SchedInv ==
    /\ \A e \in queue : now <= e.time /\ e.time <= next[e.handler]
    /\ \A h \in Handler : next[h] > now => [time |-> next[h], handler |-> h] \in queue
    /\ ConnRunsLast
    /\ pc[Conn] # "idle" => \A a \in Agent : pc[a] = "idle"
    /\ \A h \in Handler : progress[h] => pc[h] # "idle"
===============================================================================
