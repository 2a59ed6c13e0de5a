--------------------------------- MODULE Lfq ---------------------------------
(***************************************************************************)
(* The queue of lfq.h, which ComLfq uses as a sequence: any thread puts    *)
(* items in without a lock, one thread takes them out.  An item is a       *)
(* request object of the thread that puts it in, and is used again when it *)
(* was taken out.                                                          *)
(***************************************************************************)
EXTENDS Naturals, Sequences

CONSTANTS Producers,  (* threads that call LFQ_enq                         *)
          Items,      (* Items[p]: the objects of p                        *)
          Uses,       (* how often each is put in                          *)
          Null

All == UNION {Items[p] : p \in Producers}

(* Every object is of one thread, and none of them is the null pointer. *)
OwnObjects == Null \notin All /\ \A p, q \in Producers : p # q => Items[p] \cap Items[q] = {}

VARIABLES
  head, tail,         \* Next and Prev of the queue
  next,               \* Next of each item
  enq,                \* enq[p]: where p is in LFQ_enq, its item, its prev
  deq,                \* where the owner is in LFQ_deq, and its item
  used,               \* history: how often an item was put in
  order               \* history: the items in the queue, as they came

vars == <<head, tail, next, enq, deq, used, order>>

EnqAt(p, l) == enq[p].pc = l
DeqAt(l)    == deq.pc = l
Inside(n)   == \E i \in DOMAIN order : order[i] = n

(* LFQ_enq *)
Clear(p) ==
  \E n \in Items[p] :
    /\ EnqAt(p, "out") /\ ~Inside(n) /\ deq.item # n /\ used[n] < Uses
    /\ next' = [next EXCEPT ![n] = Null]
    /\ enq' = [enq EXCEPT ![p] = [pc |-> "xchg", item |-> n, prev |-> Null]]
    /\ used' = [used EXCEPT ![n] = @ + 1]
    /\ UNCHANGED <<head, tail, deq, order>>

Exchange(p) ==
  /\ EnqAt(p, "xchg")
  /\ enq' = [enq EXCEPT ![p] = [pc |-> "link", item |-> enq[p].item, prev |-> tail]]
  /\ tail' = enq[p].item
  /\ order' = Append(order, enq[p].item)
  /\ UNCHANGED <<head, next, deq, used>>

LinkIn(p) ==
  /\ EnqAt(p, "link")
  /\ IF enq[p].prev = Null
     THEN head' = enq[p].item /\ next' = next
     ELSE next' = [next EXCEPT ![enq[p].prev] = enq[p].item] /\ head' = head
  /\ enq' = [enq EXCEPT ![p] = [pc |-> "out", item |-> Null, prev |-> Null]]
  /\ UNCHANGED <<tail, deq, used, order>>

(* LFQ_isEmpty and LFQ_deq *)
Without(s, i) == [j \in 1 .. Len(s) - 1 |-> IF j < i THEN s[j] ELSE s[j + 1]]

Return == /\ deq' = [pc |-> "out", item |-> Null]
          /\ \E i \in DOMAIN order : order[i] = deq.item /\ order' = Without(order, i)

First ==
  /\ DeqAt("out") /\ head # Null
  /\ deq' = [pc |-> "next", item |-> head]
  /\ UNCHANGED <<head, tail, next, enq, used, order>>

Advance ==
  /\ DeqAt("next")
  /\ head' = next[deq.item]
  /\ IF next[deq.item] # Null THEN Return
     ELSE deq' = [deq EXCEPT !.pc = "cas"] /\ order' = order
  /\ UNCHANGED <<tail, next, enq, used>>

(* Mutant: the last item is taken without the comparison (Fifo). *)
CloseAlways ==
  /\ DeqAt("cas")
  /\ tail' = Null
  /\ Return
  /\ UNCHANGED <<head, next, enq, used>>

Close ==
  /\ DeqAt("cas")
  /\ IF tail = deq.item THEN tail' = Null /\ Return
     ELSE deq' = [deq EXCEPT !.pc = "spin"] /\ UNCHANGED <<tail, order>>
  /\ UNCHANGED <<head, next, enq, used>>

Spin ==
  /\ DeqAt("spin") /\ next[deq.item] # Null
  /\ head' = next[deq.item]
  /\ Return
  /\ UNCHANGED <<tail, next, enq, used>>

----------------------------------------------------------------------------
Init ==
  /\ head = Null /\ tail = Null
  /\ next = [n \in All |-> Null]
  /\ enq = [p \in Producers |-> [pc |-> "out", item |-> Null, prev |-> Null]]
  /\ deq = [pc |-> "out", item |-> Null]
  /\ used = [n \in All |-> 0]
  /\ order = <<>>

Enq(p) == Clear(p) \/ Exchange(p) \/ LinkIn(p)
Deq    == First \/ Advance \/ Close \/ Spin
Next   == Deq \/ \E p \in Producers : Enq(p)

Spec == Init /\ [][Next]_vars

----------------------------------------------------------------------------
(* The queue is a queue: an item comes in behind all others, and the one   *)
(* that leaves is the one that came first.                                 *)
FifoStep == \/ order' = order
            \/ \E n \in All : ~Inside(n) /\ order' = Append(order, n)
            \/ order # <<>> /\ order' = Tail(order)
Fifo == [][FifoStep]_vars

(* What was put in is taken out, and all get to put in what they have. *)
AllTaken == <>[](order = <<>> /\ \A n \in All : used[n] = Uses)
=============================================================================
