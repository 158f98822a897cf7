---------------------------- MODULE MCPageCache ----------------------------
(* Instances of PageCache for TLC: three pages over two slots, so that     *)
(* pages 0 and 2 compete for slot 0.                                       *)
EXTENDS PageCache

Chunk(p)     == [page |-> p, cached |-> TRUE, last |-> TRUE]
FirstOf(p)   == [page |-> p, cached |-> TRUE, last |-> FALSE]
Whole(p)     == [page |-> p, cached |-> FALSE, last |-> TRUE]

(* One page, cached or not; one cached and one direct item for the same    *)
(* page; two pages that compete for a slot; an item of three pages, and a  *)
(* page asked for twice, in lists that are longer than Limit.              *)
MCRequests ==
    {<<Chunk(0)>>, <<Chunk(2)>>, <<Whole(0)>>,
     <<Chunk(0), Chunk(2)>>, <<Chunk(0), Whole(0)>>,
     <<FirstOf(0), FirstOf(1), Chunk(2)>>, <<Chunk(0), Chunk(1), Chunk(0)>>}

MCWriteSets == {{0}, {0, 1}}
MCTicks == {1}                \* CountCacheValidator: every operation is a tick
=============================================================================
