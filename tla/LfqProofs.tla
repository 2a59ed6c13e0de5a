------------------------------ MODULE LfqProofs ------------------------------
(* Lfq is a queue, for any number of threads and objects (Fifo).           *)
(*                                                                         *)
(* The invariant says how the links stand in for the order of the items    *)
(* while some of them are missing: a thread between its exchange and its   *)
(* link owns one gap of the chain, no two own the same one, and the owner  *)
(* of the queue never reads past a gap.                                    *)
EXTENDS Lfq, SequenceTheorems, TLAPS

AllN == All \cup {Null}

TypeInv ==
  /\ head \in AllN /\ tail \in AllN
  /\ next \in [All -> AllN]
  /\ enq \in [Producers -> [pc : {"out", "xchg", "link"}, item : AllN, prev : AllN]]
  /\ deq \in [pc : {"out", "next", "cas", "spin"}, item : AllN]
  /\ order \in Seq(All)

(* A thread before its exchange has a fresh item, outside the queue. *)
Fresh(p) == EnqAt(p, "xchg") => ~Inside(enq[p].item) /\ next[enq[p].item] = Null

(* After the exchange its item is in the queue, not yet linked: the first, *)
(* with no head, or behind an item that has no next.                       *)
AtFront(p) == order # <<>> /\ order[1] = enq[p].item /\ head = Null /\ deq.pc = "out"
AtGap(p, j) == order[j] = enq[p].item /\ order[j - 1] = enq[p].prev /\ next[enq[p].prev] = Null
Gap(p) ==
  EnqAt(p, "link") =>
    IF enq[p].prev = Null THEN AtFront(p) ELSE \E j \in 2 .. Len(order) : AtGap(p, j)

Own(p) == enq[p].pc # "out" => enq[p].item \in Items[p]

EnqInv == \A p \in Producers : Own(p) /\ Fresh(p) /\ Gap(p)

(* Every next is null or the item behind; the tail is the last one. *)
Distinct == \A i, j \in 1 .. Len(order) : order[i] = order[j] => i = j
Links    == \A i \in 1 .. Len(order) - 1 : next[order[i]] \in {Null, order[i + 1]}
Ends     == IF order = <<>> THEN tail = Null
            ELSE tail = order[Len(order)] /\ next[order[Len(order)]] = Null
ChainInv == Distinct /\ Links /\ Ends

(* Where the owner stands. *)
HeadInv ==
  /\ deq.pc = "out" => deq.item = Null /\ (head = Null \/ (order # <<>> /\ head = order[1]))
  /\ deq.pc # "out" => order # <<>> /\ deq.item = order[1]
  /\ deq.pc = "next" => head = deq.item
  /\ deq.pc \in {"cas", "spin"} => head = Null
  /\ deq.pc = "spin" => Len(order) > 1

IInv == TypeInv /\ EnqInv /\ ChainInv /\ HeadInv
----------------------------------------------------------------------------
(* The null pointer is no item of a thread. *)
LEMMA Initially == OwnObjects /\ Init => IInv
  BY DEF OwnObjects, Init, IInv, TypeInv, EnqInv, Own, Fresh, Gap, EnqAt, AllN,
         ChainInv, Distinct, Links, Ends, HeadInv

(* An object of a thread is an object, and not one of another thread. *)
LEMMA Owned ==
  ASSUME OwnObjects, NEW p \in Producers, NEW n \in Items[p]
  PROVE  n \in All /\ n # Null /\ \A q \in Producers : n \in Items[q] => q = p
  BY DEF OwnObjects, All

LEMMA Appended ==
  ASSUME NEW S, NEW s \in Seq(S), NEW e \in S
  PROVE  /\ Len(s) \in Nat /\ Len(Append(s, e)) = Len(s) + 1 /\ Append(s, e) # <<>>
         /\ Append(s, e)[Len(s) + 1] = e /\ \A i \in 1 .. Len(s) : Append(s, e)[i] = s[i]
  OBVIOUS

(* LFQ_enq writes Null to the Next of an object outside the queue. *)
LEMMA ClearKeeps ==
  ASSUME OwnObjects, IInv, NEW p \in Producers, Clear(p)
  PROVE  IInv'
<1> PICK n \in Items[p] :
      /\ EnqAt(p, "out") /\ ~Inside(n)
      /\ next' = [next EXCEPT ![n] = Null]
      /\ enq' = [enq EXCEPT ![p] = [pc |-> "xchg", item |-> n, prev |-> Null]]
      /\ UNCHANGED <<head, tail, deq, order>>
  BY DEF Clear
<1>1. n \in All /\ n # Null /\ \A q \in Producers : n \in Items[q] => q = p
  BY Owned
<1>2. TypeInv'
  BY <1>1 DEF IInv, TypeInv, AllN
<1>3. /\ next' \in [All -> AllN] /\ next'[n] = Null
      /\ \A x \in All : x # n => next'[x] = next[x]
      /\ enq'[p] = [pc |-> "xchg", item |-> n, prev |-> Null]
      /\ \A q \in Producers : q # p => enq'[q] = enq[q]
      /\ \A i \in 1 .. Len(order) : order[i] # n /\ order[i] \in All
  BY <1>1, <1>2 DEF IInv, TypeInv, Inside
<1>4. EnqInv'
  <2> SUFFICES ASSUME NEW q \in Producers PROVE (Own(q) /\ Fresh(q) /\ Gap(q))'
    BY DEF EnqInv
  <2>0. Own(q) /\ Fresh(q) /\ Gap(q)
    BY DEF IInv, EnqInv
  <2>1. CASE q = p
    BY <1>1, <1>3, <2>1 DEF Own, Fresh, Gap, EnqAt, Inside
  <2>2. CASE q # p
    <3>0. enq'[q] = enq[q] /\ order' = order /\ head' = head /\ deq' = deq
      BY <1>3, <2>2
    <3>1. Own(q)' /\ Fresh(q)'
      <4>1. Own(q)'
        BY <2>0, <3>0 DEF Own
      <4>2. ASSUME EnqAt(q, "xchg") PROVE enq[q].item # n /\ enq[q].item \in All
        <5>1. enq[q].item \in Items[q]
          BY <2>0, <4>2 DEF Own, EnqAt
        <5> QED BY <5>1, <1>1, <2>2, Owned
      <4> QED BY <4>1, <4>2, <2>0, <3>0, <1>3 DEF Fresh, EnqAt, Inside
    <3>2. Gap(q)'
      <4> SUFFICES ASSUME EnqAt(q, "link")
                   PROVE  IF enq[q].prev = Null THEN AtFront(q)' ELSE \E j \in 2 .. Len(order) : AtGap(q, j)'
        BY <3>0 DEF Gap, EnqAt
      <4>1. CASE enq[q].prev = Null
        BY <4>1, <2>0, <3>0 DEF Gap, AtFront
      <4>2. CASE enq[q].prev # Null
        <5> PICK j \in 2 .. Len(order) : AtGap(q, j)
          BY <4>2, <2>0 DEF Gap
        <5>1. order[j - 1] # n /\ order[j - 1] \in All
          BY <1>3 DEF IInv, TypeInv
        <5>2. AtGap(q, j)'
          BY <5>1, <3>0, <1>3 DEF AtGap
        <5> QED BY <5>2, <4>2
      <4> QED BY <4>1, <4>2
    <3> QED BY <3>1, <3>2
  <2> QED BY <2>1, <2>2
<1>5. ChainInv'
  <2>0. Len(order) \in Nat /\ (order # <<>> => Len(order) \in 1 .. Len(order))
    BY DEF IInv, TypeInv
  <2>1. Distinct' /\ Ends'
    BY <1>3, <2>0 DEF IInv, ChainInv, Distinct, Ends
  <2>2. Links'
    BY <1>3, <2>0 DEF IInv, ChainInv, Links
  <2> QED BY <2>1, <2>2 DEF ChainInv
<1>6. HeadInv'
  BY DEF IInv, HeadInv
<1> QED BY <1>2, <1>4, <1>5, <1>6 DEF IInv

(* The exchange puts the item behind the last one, before anything says so. *)
LEMMA ExchangeKeeps ==
  ASSUME OwnObjects, IInv, NEW p \in Producers, Exchange(p)
  PROVE  IInv' /\ ~Inside(enq[p].item) /\ order' = Append(order, enq[p].item) /\ enq[p].item \in All
<1> DEFINE x == enq[p].item
           n == Len(order)
<1>0. x \in Items[p] /\ ~Inside(x) /\ next[x] = Null
  BY DEF Exchange, IInv, EnqInv, Own, Fresh, EnqAt
<1>1. x \in All /\ x # Null /\ \A q \in Producers : x \in Items[q] => q = p
  BY <1>0, Owned
<1>2. /\ enq' = [enq EXCEPT ![p] = [pc |-> "link", item |-> x, prev |-> tail]]
      /\ tail' = x /\ order' = Append(order, x)
      /\ head' = head /\ next' = next /\ deq' = deq
  BY DEF Exchange
<1>3. TypeInv'
  <2>1. order' \in Seq(All) /\ tail' \in AllN /\ head' \in AllN
    BY <1>1, <1>2 DEF IInv, TypeInv, AllN
  <2>2. enq' \in [Producers -> [pc : {"out", "xchg", "link"}, item : AllN, prev : AllN]]
    <3>1. x \in AllN /\ tail \in AllN
      BY <1>1 DEF IInv, TypeInv, AllN
    <3> QED BY <3>1, <1>2 DEF IInv, TypeInv
  <2> QED BY <2>1, <2>2, <1>2 DEF IInv, TypeInv
<1>4. /\ n \in Nat /\ Len(order') = n + 1 /\ order'[n + 1] = x /\ order' # <<>>
      /\ \A i \in 1 .. n : order'[i] = order[i] /\ order[i] # x /\ order[i] \in All
      /\ enq'[p] = [pc |-> "link", item |-> x, prev |-> tail]
      /\ \A q \in Producers : q # p => enq'[q] = enq[q]
  <2>1. /\ n \in Nat /\ Len(order') = n + 1 /\ order'[n + 1] = x /\ order' # <<>>
        /\ \A i \in 1 .. n : order'[i] = order[i]
    BY <1>1, <1>2, Appended DEF IInv, TypeInv
  <2>2. \A i \in 1 .. n : order[i] # x /\ order[i] \in All
    BY <1>0 DEF IInv, TypeInv, Inside
  <2>3. /\ enq'[p] = [pc |-> "link", item |-> x, prev |-> tail]
        /\ \A q \in Producers : q # p => enq'[q] = enq[q]
    BY <1>2 DEF IInv, TypeInv
  <2> QED BY <2>1, <2>2, <2>3
<1>8. order # <<>> => n \in 1 .. n /\ 1 \in 1 .. n
  BY DEF IInv, TypeInv
<1>9. order' # <<>> /\ Len(order') = n + 1 /\ n + 1 \in 1 .. Len(order')
  BY <1>4
<1>5. EnqInv'
  <2> SUFFICES ASSUME NEW q \in Producers PROVE (Own(q) /\ Fresh(q) /\ Gap(q))'
    BY DEF EnqInv
  <2>0. Own(q) /\ Fresh(q) /\ Gap(q)
    BY DEF IInv, EnqInv
  <2>1. CASE q = p
    <3>1. Own(q)' /\ Fresh(q)' /\ EnqAt(q, "link")'
      BY <1>0, <1>4, <2>1 DEF Own, Fresh, EnqAt
    <3>2. CASE order = <<>>
      <4>1. tail = Null /\ deq.pc = "out" /\ head = Null /\ n = 0
        BY <3>2 DEF IInv, ChainInv, Ends, HeadInv
      <4>2. AtFront(q)' /\ enq'[q].prev = Null
        BY <4>1, <1>2, <1>4, <2>1 DEF AtFront
      <4> QED BY <3>1, <4>2 DEF Gap
    <3>3. CASE order # <<>>
      <4>1. n \in 1 .. n /\ tail = order[n] /\ next[tail] = Null /\ tail # Null
        BY <3>3, <1>4 DEF IInv, TypeInv, ChainInv, Ends, OwnObjects
      <4>2. n + 1 \in 2 .. Len(order') /\ enq'[q].prev # Null /\ enq'[q].item = x
        BY <4>1, <1>4, <2>1
      <4>3. order'[n + 1] = x /\ order'[n + 1 - 1] = enq'[q].prev /\ next'[enq'[q].prev] = Null
        BY <4>1, <1>2, <1>4, <2>1
      <4>4. \E j \in 2 .. Len(order') : order'[j] = enq'[q].item /\ order'[j - 1] = enq'[q].prev
                                         /\ next'[enq'[q].prev] = Null
        BY <4>2, <4>3
      <4> QED BY <3>1, <4>2, <4>4 DEF Gap, AtGap
    <3> QED BY <3>2, <3>3
  <2>2. CASE q # p
    <3>0. enq'[q] = enq[q] /\ head' = head /\ deq' = deq /\ next' = next
      BY <1>2, <1>4, <2>2
    <3>1. Own(q)' /\ Fresh(q)'
      <4>1. Own(q)'
        BY <2>0, <3>0 DEF Own
      <4>2. ASSUME EnqAt(q, "xchg") PROVE enq[q].item # x
        BY <2>0, <4>2, <1>1, <2>2 DEF Own, EnqAt
      <4>3. DOMAIN order = 1 .. n /\ DOMAIN order' = 1 .. n + 1
        BY <1>3, <1>4 DEF IInv, TypeInv
      <4> QED BY <4>1, <4>2, <4>3, <2>0, <3>0, <1>4 DEF Fresh, EnqAt, Inside
    <3>2. Gap(q)'
      <4> SUFFICES ASSUME EnqAt(q, "link")
                   PROVE  IF enq[q].prev = Null THEN AtFront(q)' ELSE \E j \in 2 .. Len(order') : AtGap(q, j)'
        BY <3>0 DEF Gap, EnqAt
      <4>1. CASE enq[q].prev = Null
        <5>1. AtFront(q) /\ 1 \in 1 .. n
          BY <4>1, <2>0, <1>4 DEF Gap, AtFront, IInv, TypeInv
        <5> QED BY <4>1, <5>1, <3>0, <1>4 DEF AtFront
      <4>2. CASE enq[q].prev # Null
        <5> PICK j \in 2 .. Len(order) : AtGap(q, j)
          BY <4>2, <2>0 DEF Gap
        <5>2. AtGap(q, j)' /\ j \in 2 .. Len(order')
          BY <3>0, <1>4 DEF AtGap
        <5> QED BY <5>2, <4>2
      <4> QED BY <4>1, <4>2
    <3> QED BY <3>1, <3>2
  <2> QED BY <2>1, <2>2
<1>6. ChainInv'
  <2>1. Distinct'
    BY <1>4 DEF IInv, ChainInv, Distinct
  <2>2. Ends'
    BY <1>0, <1>2, <1>4 DEF Ends
  <2>3. Links'
    <3> SUFFICES ASSUME NEW i \in 1 .. n PROVE next[order'[i]] \in {Null, order'[i + 1]}
      BY <1>2, <1>4 DEF Links
    <3>1. CASE i = n
      BY <3>1, <1>4 DEF IInv, TypeInv, ChainInv, Ends
    <3>2. CASE i # n
      BY <3>2, <1>4 DEF IInv, ChainInv, Links
    <3> QED BY <3>1, <3>2
  <2> QED BY <2>1, <2>2, <2>3 DEF ChainInv
<1>7. HeadInv'
  <2>1. order # <<>> => order'[1] = order[1] /\ n > 0
    BY <1>4 DEF IInv, TypeInv
  <2> QED BY <2>1, <1>2, <1>4 DEF IInv, HeadInv
<1> QED BY <1>0, <1>1, <1>2, <1>3, <1>5, <1>6, <1>7 DEF IInv

(* A thread closes its gap: nobody else has that one. *)
LEMMA LinkInKeeps ==
  ASSUME OwnObjects, IInv, NEW p \in Producers, LinkIn(p)
  PROVE  IInv'
<1> DEFINE x == enq[p].item
           n == Len(order)
<1>0. /\ x \in Items[p] /\ Gap(p) /\ EnqAt(p, "link")
      /\ n \in Nat /\ DOMAIN order = 1 .. n /\ (order # <<>> => 1 \in 1 .. n)
      /\ \A i \in 1 .. n : order[i] \in All
  BY DEF LinkIn, IInv, TypeInv, EnqInv, Own, EnqAt
<1>1. x \in All /\ x # Null /\ \A q \in Producers : x \in Items[q] => q = p
  BY <1>0, Owned
<1>2. /\ enq' = [enq EXCEPT ![p] = [pc |-> "out", item |-> Null, prev |-> Null]]
      /\ tail' = tail /\ order' = order /\ deq' = deq
      /\ enq'[p] = [pc |-> "out", item |-> Null, prev |-> Null]
      /\ \A q \in Producers : q # p => enq'[q] = enq[q]
  BY DEF LinkIn, IInv, TypeInv
<1>3. ASSUME NEW q \in Producers, q # p, enq[q].pc # "out"
      PROVE  enq[q].item # x
  BY <1>1, <1>3 DEF IInv, EnqInv, Own
<1>4. /\ enq' \in [Producers -> [pc : {"out", "xchg", "link"}, item : AllN, prev : AllN]]
      /\ Own(p)' /\ Fresh(p)' /\ Gap(p)'
  BY <1>2 DEF IInv, TypeInv, AllN, Own, Fresh, Gap, EnqAt
<1>5. \A q \in Producers : Own(q) /\ Fresh(q) /\ Gap(q)
  BY DEF IInv, EnqInv
<1>6. CASE enq[p].prev = Null
  <2>1. head' = x /\ next' = next /\ AtFront(p)
    BY <1>0, <1>6 DEF LinkIn, Gap
  <2>2. TypeInv' /\ ChainInv'
    BY <1>1, <1>2, <1>4, <2>1 DEF IInv, TypeInv, ChainInv, Distinct, Links, Ends, AllN
  <2>3. HeadInv'
    BY <1>2, <2>1 DEF IInv, HeadInv, AtFront
  <2>4. ASSUME NEW q \in Producers, q # p PROVE (Own(q) /\ Fresh(q) /\ Gap(q))'
    <3>0. enq'[q] = enq[q]
      BY <1>2, <2>4
    <3>1. Own(q)' /\ Fresh(q)'
      BY <1>5, <3>0, <1>2, <2>1 DEF Own, Fresh, EnqAt, Inside
    <3>2. ASSUME EnqAt(q, "link") PROVE enq[q].prev # Null
      BY <3>2, <1>5, <1>3, <2>4, <2>1 DEF Gap, AtFront, EnqAt
    <3>3. Gap(q)'
      BY <3>2, <1>5, <3>0, <1>2, <2>1 DEF Gap, EnqAt, AtGap
    <3> QED BY <3>1, <3>3
  <2> QED BY <2>2, <2>3, <2>4, <1>4 DEF IInv, EnqInv
<1>7. CASE enq[p].prev # Null
  <2> DEFINE y == enq[p].prev
  <2> PICK j \in 2 .. n : AtGap(p, j)
    BY <1>0, <1>7 DEF Gap
  <2>0. /\ order[j] = x /\ order[j - 1] = y /\ next[y] = Null /\ y \in All
        /\ j \in 1 .. n /\ j - 1 \in 1 .. n
    BY <1>0 DEF AtGap
  <2>1. head' = head /\ next' = [next EXCEPT ![y] = x]
    BY <1>7 DEF LinkIn
  <2>2. TypeInv' /\ next'[y] = x /\ \A z \in All : z # y => next'[z] = next[z]
    BY <1>1, <1>2, <1>4, <2>0, <2>1 DEF IInv, TypeInv, AllN
  <2>3. \A i \in 1 .. n : order[i] = y => i = j - 1
    BY <2>0 DEF IInv, ChainInv, Distinct
  <2>4. ChainInv'
    <3>1. Distinct'
      BY <1>2 DEF IInv, ChainInv, Distinct
    <3>2. Ends'
      <4>1. order # <<>> => n \in 1 .. n /\ order[n] # y
        BY <1>0, <2>0, <2>3
      <4> QED BY <4>1, <1>0, <1>2, <2>2 DEF IInv, ChainInv, Ends
    <3>3. Links'
      <4> SUFFICES ASSUME NEW i \in 1 .. n - 1 PROVE next'[order[i]] \in {Null, order[i + 1]}
        BY <1>2 DEF Links
      <4>0. i \in 1 .. n /\ order[i] \in All
        BY <1>0
      <4>1. CASE order[i] = y
        <5>1. i + 1 = j
          BY <4>0, <4>1, <2>3
        <5> QED BY <5>1, <4>1, <2>0, <2>2
      <4>2. CASE order[i] # y
        BY <4>0, <4>2, <2>2 DEF IInv, ChainInv, Links
      <4> QED BY <4>1, <4>2
    <3> QED BY <3>1, <3>2, <3>3 DEF ChainInv
  <2>5. HeadInv'
    BY <1>2, <2>1 DEF IInv, HeadInv
  <2>6. ASSUME NEW q \in Producers, q # p PROVE (Own(q) /\ Fresh(q) /\ Gap(q))'
    <3>0. enq'[q] = enq[q]
      BY <1>2, <2>6
    <3>1. Own(q)' /\ Fresh(q)'
      <4>1. Own(q)'
        BY <1>5, <3>0 DEF Own
      <4>2. ASSUME EnqAt(q, "xchg") PROVE enq[q].item # y /\ enq[q].item \in All
        <5>1. enq[q].item \in Items[q] /\ ~Inside(enq[q].item)
          BY <1>5, <4>2 DEF Own, Fresh, EnqAt
        <5> QED BY <5>1, <1>0, <2>0, Owned DEF Inside
      <4> QED BY <4>1, <4>2, <1>5, <3>0, <2>2, <1>2 DEF Fresh, EnqAt, Inside
    <3>2. ASSUME EnqAt(q, "link"), enq[q].prev = Null PROVE AtFront(q)'
      BY <3>2, <1>5, <3>0, <1>2, <2>1 DEF Gap, AtFront
    <3>3. ASSUME EnqAt(q, "link"), enq[q].prev # Null PROVE \E k \in 2 .. n : AtGap(q, k)'
      <4> PICK k \in 2 .. n : AtGap(q, k)
        BY <3>3, <1>5 DEF Gap
      <4>1. k \in 1 .. n /\ k - 1 \in 1 .. n
        BY <1>0
      <4>2. enq[q].item # x
        BY <1>3, <2>6, <3>3 DEF EnqAt
      <4>3. enq[q].prev # y
        <5>1. k # j
          BY <4>2, <2>0 DEF AtGap
        <5> QED BY <5>1, <4>1, <2>3, <1>0 DEF AtGap
      <4>4. enq[q].prev \in All
        BY <4>1, <1>0 DEF AtGap
      <4>5. AtGap(q, k)'
        BY <4>3, <4>4, <2>2, <3>0, <1>2 DEF AtGap
      <4> QED BY <4>5
    <3>4. Gap(q)'
      BY <3>2, <3>3, <3>0, <1>2 DEF Gap, EnqAt
    <3> QED BY <3>1, <3>4
  <2> QED BY <2>2, <2>4, <2>5, <2>6, <1>4 DEF IInv, EnqInv
<1> QED BY <1>6, <1>7

(* The owner finds a head: the first item. *)
LEMMA FirstKeeps ==
  ASSUME OwnObjects, IInv, First
  PROVE  IInv'
<1>1. /\ deq.pc = "out" /\ head # Null /\ deq' = [pc |-> "next", item |-> head]
      /\ UNCHANGED <<head, tail, next, enq, order>>
  BY DEF First, DeqAt
<1>2. TypeInv'
  BY <1>1 DEF IInv, TypeInv
<1>3. EnqInv'
  <2> SUFFICES ASSUME NEW q \in Producers PROVE (Own(q) /\ Fresh(q) /\ Gap(q))'
    BY DEF EnqInv
  <2>0. Own(q) /\ Fresh(q) /\ Gap(q)
    BY DEF IInv, EnqInv
  <2>1. Own(q)' /\ Fresh(q)'
    BY <2>0, <1>1 DEF Own, Fresh, EnqAt, Inside
  <2>2. ~AtFront(q)
    BY <1>1 DEF AtFront
  <2>3. Gap(q)'
    BY <2>0, <2>2, <1>1 DEF Gap, EnqAt, AtGap
  <2> QED BY <2>1, <2>3
<1>4. ChainInv'
  BY <1>1 DEF IInv, ChainInv, Distinct, Links, Ends
<1>5. HeadInv'
  BY <1>1 DEF IInv, HeadInv
<1> QED BY <1>2, <1>3, <1>4, <1>5 DEF IInv

(* What the owner returns is the first item, in all three places. *)
LEMMA TakesFirst ==
  ASSUME IInv, deq.pc # "out", Return
  PROVE  /\ order # <<>> /\ order' = Tail(order) /\ Len(order) \in Nat
         /\ order' \in Seq(All) /\ Len(order') = Len(order) - 1
         /\ \A k \in 1 .. Len(order) - 1 : order'[k] = order[k + 1]
         /\ deq' = [pc |-> "out", item |-> Null]
<1>1. order # <<>> /\ deq.item = order[1] /\ order \in Seq(All)
  BY DEF IInv, HeadInv, TypeInv
<1>2. Len(order) \in Nat /\ Len(order) > 0 /\ DOMAIN order = 1 .. Len(order)
  BY <1>1
<1> PICK i \in 1 .. Len(order) : order[i] = deq.item /\ order' = Without(order, i)
  BY <1>2 DEF Return
<1>3. i = 1
  BY <1>1, <1>2 DEF IInv, ChainInv, Distinct
<1>4. order' = [j \in 1 .. Len(order) - 1 |-> order[j + 1]]
  BY <1>3, <1>2 DEF Without
<1>5. /\ Tail(order) \in Seq(All) /\ Len(Tail(order)) = Len(order) - 1
      /\ \A k \in 1 .. Len(order) - 1 : Tail(order)[k] = order[k + 1]
  BY <1>1, <1>2, HeadTailProperties
<1>6. order' \in Seq(All) /\ Len(order') = Len(order) - 1
  <2>1. \A k \in 1 .. Len(order) - 1 : order[k + 1] \in All
    BY <1>1, <1>2
  <2> QED BY <2>1, <1>2, <1>4
<1>7. order' = Tail(order)
  BY <1>4, <1>5, <1>6, SeqEqual
<1> QED BY <1>1, <1>2, <1>5, <1>7 DEF Return

(* The first item goes when its next is known, or when it is the last one: *)
(* the gaps of the threads lie behind it.                                  *)
LEMMA RemoveKeeps ==
  ASSUME OwnObjects, IInv, deq.pc # "out", Return, UNCHANGED <<next, enq>>,
         tail' \in AllN, head' \in AllN,
         \/ /\ next[order[1]] # Null /\ head' = next[order[1]] /\ tail' = tail
         \/ tail = order[1] /\ tail' = Null /\ head' = Null
  PROVE  IInv'
<1> DEFINE n == Len(order)
<1>0. /\ order # <<>> /\ n \in Nat /\ order' \in Seq(All) /\ Len(order') = n - 1
      /\ \A k \in 1 .. n - 1 : order'[k] = order[k + 1]
      /\ deq' = [pc |-> "out", item |-> Null]
  BY TakesFirst
<1>1. /\ 1 \in 1 .. n /\ n \in 1 .. n /\ \A i \in 1 .. n : order[i] \in All
      /\ DOMAIN order = 1 .. n /\ DOMAIN order' = 1 .. n - 1 /\ (order' = <<>> <=> n = 1)
  BY <1>0 DEF IInv, TypeInv
<1>2. /\ Distinct /\ Links /\ tail = order[n] /\ next[order[n]] = Null
  BY <1>0 DEF IInv, ChainInv, Ends
<1>3. TypeInv'
  BY <1>0 DEF IInv, TypeInv, AllN
<1>4. \/ n > 1 /\ next[order[1]] = order[2] /\ head' = order[2] /\ tail' = tail /\ next[order[1]] # Null
      \/ n = 1 /\ tail' = Null /\ head' = Null
  <2>1. CASE next[order[1]] # Null /\ head' = next[order[1]] /\ tail' = tail
    <3>1. n > 1
      BY <2>1, <1>0, <1>1, <1>2
    <3>2. 1 \in 1 .. n - 1 /\ 1 + 1 = 2
      BY <3>1, <1>0
    <3>3. next[order[1]] \in {Null, order[2]}
      BY <3>2, <1>2 DEF Links
    <3> QED BY <2>1, <3>1, <3>3
  <2>2. CASE tail = order[1] /\ tail' = Null /\ head' = Null
    BY <2>2, <1>1, <1>2 DEF Distinct
  <2> QED BY <2>1, <2>2
<1>5. ChainInv'
  <2>1. Distinct'
    BY <1>0, <1>1, <1>2 DEF Distinct
  <2>2. Links'
    BY <1>0, <1>1, <1>2 DEF Links
  <2>3. Ends'
    <3>1. CASE n = 1
      BY <3>1, <1>1, <1>4 DEF Ends
    <3>2. CASE n > 1
      <4>1. n - 1 \in 1 .. n - 1 /\ n - 1 + 1 = n
        BY <3>2, <1>0
      <4>2. order'[n - 1] = order[n]
        BY <4>1, <1>0
      <4> QED BY <3>2, <4>2, <1>0, <1>1, <1>2, <1>4 DEF Ends
    <3> QED BY <3>1, <3>2, <1>0, <1>1
  <2> QED BY <2>1, <2>2, <2>3 DEF ChainInv
<1>6. HeadInv'
  <2>1. CASE n = 1
    BY <2>1, <1>0, <1>4 DEF HeadInv
  <2>2. CASE n > 1
    <3>1. 1 \in 1 .. n - 1 /\ 1 + 1 = 2
      BY <2>2, <1>0
    <3>2. order'[1] = order[2]
      BY <3>1, <1>0
    <3> QED BY <2>2, <3>2, <1>0, <1>1, <1>4 DEF HeadInv
  <2> QED BY <2>1, <2>2, <1>0, <1>1
<1>7. EnqInv'
  <2> SUFFICES ASSUME NEW q \in Producers PROVE (Own(q) /\ Fresh(q) /\ Gap(q))'
    BY DEF EnqInv
  <2>0. Own(q) /\ Fresh(q) /\ Gap(q)
    BY DEF IInv, EnqInv
  <2>1. Own(q)'
    BY <2>0 DEF Own
  <2>2. Fresh(q)'
    <3>1. \A z : Inside(z)' => Inside(z)
      BY <1>0, <1>1 DEF Inside
    <3> QED BY <3>1, <2>0 DEF Fresh, EnqAt
  <2>3. ASSUME EnqAt(q, "link") PROVE enq[q].prev # Null /\ \E j \in 2 .. n - 1 : AtGap(q, j)'
    <3>1. enq[q].prev # Null
      BY <2>0, <2>3 DEF Gap, AtFront
    <3> PICK j \in 2 .. n : AtGap(q, j)
      BY <2>0, <2>3, <3>1 DEF Gap
    <3>2. n > 1
      BY <1>0
    <3>3. j # 2
      BY <1>4, <3>2 DEF AtGap
    <3>4. j - 1 \in 2 .. n - 1 /\ j - 1 \in 1 .. n - 1 /\ j - 1 - 1 \in 1 .. n - 1
      BY <3>3, <1>0
    <3>5. order'[j - 1] = order[j] /\ order'[j - 1 - 1] = order[j - 1]
      <4>1. j - 1 + 1 = j /\ j - 1 - 1 + 1 = j - 1
        BY <3>4
      <4>2. order'[j - 1] = order[j - 1 + 1]
        BY <3>4, <1>0
      <4>3. order'[j - 1 - 1] = order[j - 1 - 1 + 1]
        BY <3>4, <1>0
      <4> QED BY <4>1, <4>2, <4>3
    <3>6. AtGap(q, j - 1)'
      BY <3>5 DEF AtGap
    <3> QED BY <3>1, <3>4, <3>6
  <2>4. Gap(q)'
    BY <2>3, <1>0 DEF Gap, EnqAt
  <2> QED BY <2>1, <2>2, <2>4
<1> QED BY <1>3, <1>5, <1>6, <1>7 DEF IInv

(* When only the owner moves on, the gaps stay what they are, unless one   *)
(* is in front of everything, which needs an idle owner.                   *)
LEMMA OwnerMoves ==
  ASSUME OwnObjects, IInv, UNCHANGED <<tail, next, enq, order>>, deq.pc # "out",
         TypeInv', HeadInv'
  PROVE  IInv'
<1>1. EnqInv'
  <2> SUFFICES ASSUME NEW q \in Producers PROVE (Own(q) /\ Fresh(q) /\ Gap(q))'
    BY DEF EnqInv
  <2>0. Own(q) /\ Fresh(q) /\ Gap(q)
    BY DEF IInv, EnqInv
  <2>1. Own(q)' /\ Fresh(q)'
    BY <2>0 DEF Own, Fresh, EnqAt, Inside
  <2>2. Gap(q)'
    BY <2>0 DEF Gap, EnqAt, AtGap, AtFront
  <2> QED BY <2>1, <2>2
<1>2. ChainInv'
  BY DEF IInv, ChainInv, Distinct, Links, Ends
<1> QED BY <1>1, <1>2 DEF IInv

(* LFQ_deq reads the next of the item it has. *)
LEMMA AdvanceKeeps ==
  ASSUME OwnObjects, IInv, Advance
  PROVE  IInv' /\ (order' = order \/ (order # <<>> /\ order' = Tail(order)))
<1>1. /\ deq.pc = "next" /\ deq.item = order[1] /\ order # <<>> /\ head' = next[deq.item]
      /\ UNCHANGED <<tail, next, enq>> /\ tail' \in AllN
  BY DEF Advance, DeqAt, IInv, HeadInv, TypeInv
<1>2. order[1] \in All /\ head' \in AllN
  BY <1>1 DEF IInv, TypeInv
<1>3. CASE next[deq.item] # Null
  <2>1. Return
    BY <1>3 DEF Advance
  <2> QED BY <2>1, <1>1, <1>2, <1>3, RemoveKeeps, TakesFirst
<1>4. CASE next[deq.item] = Null
  <2>1. deq' = [deq EXCEPT !.pc = "cas"] /\ order' = order
    BY <1>4 DEF Advance
  <2>2. TypeInv'
    BY <1>1, <1>2, <2>1 DEF IInv, TypeInv
  <2>3. deq'.pc = "cas" /\ deq'.item = deq.item
    BY <2>1 DEF IInv, TypeInv
  <2>4. HeadInv'
    BY <1>1, <1>4, <2>1, <2>3 DEF HeadInv
  <2> QED BY <1>1, <2>1, <2>2, <2>4, OwnerMoves
<1> QED BY <1>3, <1>4

(* The comparison takes the last item only if nobody came behind it. *)
LEMMA CloseKeeps ==
  ASSUME OwnObjects, IInv, Close
  PROVE  IInv' /\ (order' = order \/ (order # <<>> /\ order' = Tail(order)))
<1>1. /\ deq.pc = "cas" /\ deq.item = order[1] /\ order # <<>> /\ head = Null
      /\ UNCHANGED <<head, next, enq>>
  BY DEF Close, DeqAt, IInv, HeadInv
<1>2. CASE tail = deq.item
  <2>1. Return /\ tail' = Null /\ head' = Null
    BY <1>1, <1>2 DEF Close
  <2>2. tail' \in AllN /\ head' \in AllN
    BY <2>1 DEF AllN
  <2> QED BY <2>1, <2>2, <1>1, <1>2, RemoveKeeps, TakesFirst
<1>3. CASE tail # deq.item
  <2>1. deq' = [deq EXCEPT !.pc = "spin"] /\ order' = order /\ tail' = tail
    BY <1>3 DEF Close
  <2>2. TypeInv'
    BY <1>1, <2>1 DEF IInv, TypeInv
  <2>3. deq'.pc = "spin" /\ deq'.item = deq.item
    BY <2>1 DEF IInv, TypeInv
  <2>4. Len(order) > 1
    BY <1>1, <1>3 DEF IInv, TypeInv, ChainInv, Ends
  <2>5. HeadInv'
    BY <1>1, <2>1, <2>3, <2>4 DEF HeadInv
  <2> QED BY <1>1, <2>1, <2>2, <2>5, OwnerMoves
<1> QED BY <1>2, <1>3

(* Otherwise it waits for the link of the one behind. *)
LEMMA SpinKeeps ==
  ASSUME OwnObjects, IInv, Spin
  PROVE  IInv' /\ order # <<>> /\ order' = Tail(order)
<1>1. /\ deq.pc = "spin" /\ deq.item = order[1] /\ order # <<>> /\ head' = next[deq.item]
      /\ UNCHANGED <<tail, next, enq>> /\ tail' \in AllN /\ next[deq.item] # Null /\ Return
  BY DEF Spin, DeqAt, IInv, HeadInv, TypeInv
<1>2. order[1] \in All /\ head' \in AllN
  BY <1>1 DEF IInv, TypeInv
<1> QED BY <1>1, <1>2, RemoveKeeps, TakesFirst

----------------------------------------------------------------------------
(* A step keeps the invariant and is a step of a queue. *)
LEMMA StepKeeps ==
  ASSUME OwnObjects, IInv, [Next]_vars
  PROVE  IInv' /\ (FifoStep \/ UNCHANGED vars)
<1>1. ASSUME NEW p \in Producers, Enq(p) PROVE IInv' /\ FifoStep
  <2>1. CASE Clear(p)
    BY <2>1, ClearKeeps DEF FifoStep, Clear
  <2>2. CASE Exchange(p)
    BY <2>2, ExchangeKeeps DEF FifoStep
  <2>3. CASE LinkIn(p)
    BY <2>3, LinkInKeeps DEF FifoStep, LinkIn
  <2> QED BY <1>1, <2>1, <2>2, <2>3 DEF Enq
<1>2. ASSUME Deq PROVE IInv' /\ FifoStep
  <2>1. CASE First
    BY <2>1, FirstKeeps DEF FifoStep, First
  <2>2. CASE Advance
    BY <2>2, AdvanceKeeps DEF FifoStep
  <2>3. CASE Close
    BY <2>3, CloseKeeps DEF FifoStep
  <2>4. CASE Spin
    BY <2>4, SpinKeeps DEF FifoStep
  <2> QED BY <1>2, <2>1, <2>2, <2>3, <2>4 DEF Deq
<1>3. ASSUME UNCHANGED vars PROVE IInv'
  BY <1>3 DEF vars, IInv, TypeInv, EnqInv, Own, Fresh, Gap, AtFront, AtGap, EnqAt, Inside,
              ChainInv, Distinct, Links, Ends, HeadInv
<1> QED BY <1>1, <1>2, <1>3 DEF Next

(* LFQ_enq and LFQ_deq of lfq.h are a queue for one reader and any number  *)
(* of writers: an item comes in behind all others, at the exchange, and    *)
(* what leaves is what came first.  Nothing is lost or taken twice in the  *)
(* time between the exchange and the link.                                 *)
THEOREM QueueIsFifo == OwnObjects => (Spec => Fifo)
<1> SUFFICES ASSUME OwnObjects PROVE Spec => Fifo
  OBVIOUS
<1>1. Init => IInv
  BY Initially
<1>2. IInv /\ [Next]_vars => IInv'
  BY StepKeeps
<1>3. IInv /\ [Next]_vars => [FifoStep]_vars
  BY StepKeeps
<1> QED BY <1>1, <1>2, <1>3, PTL DEF Spec, Fifo
=============================================================================
