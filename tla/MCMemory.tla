------------------------------- MODULE MCMemory -------------------------------
\* Instances of MemorySystem.
EXTENDS MemorySystem

Words1 == {"w0"}
Words2 == {"w0", "w1"}

\* A shootdown comes before the first write at the latest: later it may lose data.
Flushes == [t \in 0 .. MaxReq |-> IF t = 1 THEN {"shootdown"}
                                 ELSE IF t > 2 THEN {"kernel"} ELSE {}]

R(l, words) == [op |-> "read", line |-> l, words |-> words]
W(l, words) == [op |-> "write", line |-> l, words |-> words]

\* Partial and full writes to three lines for two ways: each way is evicted.
Three == <<
    {R(1, {"w0"})}, {W(1, {"w0"})}, {R(2, {"w0"}), W(2, Words2)},
    {R(3, {"w0"}), W(3, Words2), W(1, {"w1"})},
    {R(1, Words2)} >>
\* A line is evicted twice while its first eviction waits.
Again == <<
    {W(1, Words1)}, {R(2, Words1)}, {R(1, Words1)}, {W(1, Words1)}, {R(1, Words1)},
    {R(2, Words1)}, {R(1, Words1)} >>
===============================================================================
