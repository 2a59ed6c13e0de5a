-------------------------------- MODULE Dlq --------------------------------
(***************************************************************************)
(* The doubly linked lists of idsp/blk/impl/dlq.c.  A Receive Pending      *)
(* Queue (rpq.c) and a mailbox (mbx.c) are lists of this kind.  The list   *)
(* is modelled as the sequence of its items from head to tail; Count is    *)
(* the length of that sequence as long as no item is unlinked twice and    *)
(* none is linked twice, which the callers have to ensure.                 *)
(***************************************************************************)
EXTENDS Naturals, Sequences

(* DLQ_put links an item after the current tail. *)
Put(q, e) == Append(q, e)

(* DLQ_lookUp: is the item linked in the list? *)
LookUp(q, e) == \E i \in 1 .. Len(q) : q[i] = e

(* A mutant of Delete: the tail is unlinked whatever item is asked for. *)
DeleteTail(q, k) == SubSeq(q, 1, Len(q) - 1)

(* DLQ_delete unlinks the item at position k. *)
Delete(q, k) ==
  [i \in 1 .. (Len(q) - 1) |-> IF i < k THEN q[i] ELSE q[i + 1]]

(* A mutant of IsFirst: the walk starts at the tail. *)
IsLast(i, Hits) == i \in Hits /\ \A j \in Hits : i >= j

(* DLQ_find walks from the head and stops at the first position of Hits,   *)
(* the positions whose items the comparison function of the list accepts.  *)
IsFirst(i, Hits) == i \in Hits /\ \A j \in Hits : i <= j

(* Every item is linked at most once. *)
Distinct(q) == \A i, j \in 1 .. Len(q) : q[i] = q[j] => i = j
============================================================================
