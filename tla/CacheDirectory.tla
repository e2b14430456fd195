---------------------------- MODULE CacheDirectory ----------------------------
(***************************************************************************)
(* The directory of a cache (akita/mem/cache/directory.go) with the LRU    *)
(* victim finder (victimfinder.go), for one set: a function from ways to   *)
(* blocks and the queue of the ways, the least recently used one first.    *)
(* Every cache of the repository is built on them.                         *)
(***************************************************************************)
EXTENDS Naturals, Sequences, FiniteSets, SequencesExt

EmptyBlock(data) == [valid |-> FALSE, line |-> 0, dirty |-> FALSE, locked |-> FALSE,
                     readers |-> 0, mask |-> {}, data |-> data]

\* The ways that hold the line: the code takes the first one.
Lookup(blocks, l) == {w \in DOMAIN blocks : blocks[w].valid /\ blocks[w].line = l}

\* An empty block if there is one, then one that is not locked, then any.
FindVictim(blocks, lru) ==
    LET Open(w)  == ~ blocks[w].locked
        Empty(w) == Open(w) /\ ~ blocks[w].valid
        open  == SelectSeq(lru, Open)
        empty == SelectSeq(lru, Empty)
    IN  Head(IF empty # <<>> THEN empty ELSE IF open # <<>> THEN open ELSE lru)

Visit(lru, w) == Append(Remove(lru, w), w)
===============================================================================
