-------------------------------- MODULE MCT18 --------------------------------
(* Instances of T18System for TLC. *)
EXTENDS T18System, TLC

R(op, l) == [op |-> op, line |-> l]
RW(l)     == {R("read", l), R("write", l)}

Gpm3 == 0 .. 2
OneHop3 == [g \in Gpm3 |-> [d \in Gpm3 |-> IF d = g THEN -1 ELSE 1]]

\* All read and write one line of GPM 0: the requests of GPM 1 and GPM 2 merge
\* at the requester, at the owner or not at all.  The last one of GPM 1 is a read, which
\* tells what it has seen of the others.
LineX  == {"x"}
OwnerX == [l \in LineX |-> 0]
Shared3x1 == {[g \in Gpm3 |-> CASE g = 0 -> <<>> [] g = 1 -> s [] g = 2 -> t] :
                  s \in {u \o <<R("read", "x")>> : u \in [1 .. 2 -> RW("x")]},
                  t \in [1 .. 1 -> RW("x") \cup {R("partial", "x")}]}
OwnerReads == [g \in Gpm3 |-> CASE g = 0 -> <<>>
                               [] g = 1 -> <<R("read", "x"), R("write", "x")>>
                               [] g = 2 -> <<R("read", "x")>>]

\* Or GPM 0 reads from GPM 1, one hop away, and from GPM 2, six hops away.
LineXYZ  == {"x", "y", "z"}
OwnerXYZ == [l \in LineXYZ |-> CASE l = "x" -> 0 [] l = "y" -> 1 [] l = "z" -> 2]
NearFar == [g \in Gpm3 |-> [d \in Gpm3 |-> IF d = g THEN -1 ELSE IF 2 \in {d, g} THEN 6 ELSE 1]]
TwoDestinations == {[g \in Gpm3 |-> IF g = 0 THEN s ELSE <<>>] :
                        s \in [1 .. 4 -> {R("partial", "y"), R("partial", "z")}]}

\* T18 at the requesters and the owners; or at the owners only, without multicast,
\* with writes by the owner itself and a migration.
Both(w)      == [reqs |-> w, reqActive |-> TRUE, ownerMulticast |-> TRUE,
                 maxLocal |-> 0, maxDrain |-> 0]
OwnerOnly(w) == [reqs |-> w, reqActive |-> FALSE, ownerMulticast |-> FALSE,
                 maxLocal |-> 1, maxDrain |-> 1]
Setups == {Both(w) : w \in Shared3x1 \cup TwoDestinations} \cup {OwnerOnly(OwnerReads)}

-------------------------------------------------------------------------------
\* Bounds of the windows, distances and numbers of destinations of LargestRemainder.
MaxWindow == 9
MaxHops   == 4
MaxDst    == 3

\* The distances from one GPM, itself among them.
Topology == UNION {{h \in [0 .. n -> {-1} \cup 1 .. MaxHops] :
                        \E self \in 0 .. n : \A d \in 0 .. n : h[d] = -1 <=> d = self} :
                   n \in 1 .. MaxDst}

SumOf(f, S) == MapThenSumSet(LAMBDA d : f[d], S)

\* "proportionally to their RTT, by largest remainder": the credits of a call of
\* t18RTTProportionalCredits add up to the window, every destination gets its exact
\* share, rounded up or down, a farther one never fewer than a nearer one, and one
\* of two at the same distance never more than one credit more.  No slot is left
\* without an owner, none is promised twice.  The credits are divided when an engine is
\* built, before it has accepted anything.
LargestRemainder == ReqActive /\ accepted = [g \in Gpm |-> 0] => \A window \in 1 .. MaxWindow, hops \in Topology :
    LET Dst     == {d \in DOMAIN hops : hops[d] >= 0}
        all     == SumOf([d \in Dst |-> RTT(hops[d])], Dst)
        credits == RTTProportionalCredits(window, hops)
    IN  /\ SumOf(credits, DOMAIN hops) = window /\ \A d \in DOMAIN hops \ Dst : credits[d] = 0
        /\ \A d \in Dst : LET exact == window * RTT(hops[d]) IN
               exact < (credits[d] + 1) * all /\ (credits[d] - 1) * all < exact
        /\ \A d, e \in Dst : hops[d] < hops[e] => credits[d] <= credits[e]
        /\ \A d, e \in Dst : hops[d] = hops[e] /\ d < e => credits[d] - credits[e] \in {0, 1}
===============================================================================
