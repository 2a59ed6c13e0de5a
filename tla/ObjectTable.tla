---------------------------- MODULE ObjectTable ----------------------------
(***************************************************************************)
(* The tables of opaque objects of a rank (include/object.h): a heap of    *)
(* blocks that grows on demand and a stack of the free items. The first    *)
(* block has Prealloc items, the others Block. An item is its index.       *)
(***************************************************************************)
EXTENDS Integers, Sequences

CONSTANTS Prealloc, Block, MaxBlocks

(* The stack has its top at the head. A full heap adds nothing.            *)
blockAdd(table, items) ==
  IF table.count = MaxBlocks THEN table
  ELSE [count |-> table.count + 1,
        avail |-> [i \in 1 .. items |-> table.count * items + items - i] \o table.avail]

objInit ==
  LET empty == [count |-> 0, avail |-> <<>>]
  IN  IF Prealloc > 0 THEN blockAdd(empty, Prealloc) ELSE empty

(* objAlloc retries until there is an item: with a full heap, for ever.    *)
CanAlloc(table) == table.avail # <<>> \/ table.count < MaxBlocks
Stocked(table)  == IF table.avail = <<>> THEN blockAdd(table, Block) ELSE table
Allocated(table)  == Head(Stocked(table).avail)
objAlloc(table)   == [Stocked(table) EXCEPT !.avail = Tail(@)]
objFree(table, i) == [table EXCEPT !.avail = <<i>> \o @]
=============================================================================
