--------------------------- MODULE CollectiveSteps ---------------------------
(***************************************************************************)
(* The steps a collective operation unfolds into, the communicators it     *)
(* runs over and the tags it uses. A location is a set of slots of a       *)
(* buffer, of the rank itself or of the rank whose address it was given.   *)
(***************************************************************************)
EXTENDS Integers, Sequences, SequencesExt, FiniteSetsExt

(* The tags of AzequiaMPI. The engine below knows only integer tags; the   *)
(* MPI layer packs into one tag the context number of the communicator (16 *)
(* high bits) and the tag of the message (16 low bits). Tags above TAG_UB  *)
(* are its own: the collective operations use them.                        *)
TAG_UB  == 32767   \* the largest tag a program may use
TAG_ANY == 32768   \* MPI_ANY_TAG

BARRIER_TAG  == 32769
REDUCE_TAG   == 32770
BCAST_TAG    == 32771
SCATTER_TAG  == 32772
ALLTOALL_TAG == 32773
GATHER_TAG   == 32774

(* The packed tag of a message of the communicator with context commNr. *)
EXTENDED_TAG(commNr, tag) == (commNr % 65536) * 65536 + (tag % 65536)

TAG_EXT(tag)   == tag % 65536
COMNR_EXT(tag) == tag \div 65536

(* Mutant: the wildcard accepts every tag of the context. *)
AnyTagMatch(tag, tagref) ==
  /\ COMNR_EXT(tag) = COMNR_EXT(tagref)
  /\ TAG_EXT(tag) \in {TAG_EXT(tagref), TAG_ANY}

(* Does a receive that asks for tag accept a message that carries tagref?  *)
(* The wildcard accepts the tags below itself, of its own context.         *)
TAG_MATCH(tag, tagref) ==
  /\ COMNR_EXT(tag) = COMNR_EXT(tagref)
  /\ \/ TAG_EXT(tag) = TAG_EXT(tagref)
     \/ TAG_EXT(tag) = TAG_ANY /\ TAG_EXT(tagref) < TAG_EXT(tag)
-----------------------------------------------------------------------------
(* Locations and steps. *)

Own(b, S)    == [who |-> "own", buf |-> b, slots |-> S]
Theirs(b, S) == [who |-> "theirs", buf |-> b, slots |-> S]
Nothing      == Own("send", {})   \* a message of 0 bytes

Aim             == [do |-> "aim"]                  \* rootRecvBuff = recvbuf
Zero(l)         == [do |-> "zero", to |-> l]       \* memset(recvbuf, 0, ..)
Die             == [do |-> "die"]                  \* PCS_commDelete
Meeting         == [do |-> "meet"]                 \* COMM_BARR, to the engine
Locking(p, c)   == [do |-> "lock", owner |-> p, chunk |-> c]
Unlocking(p, c) == [do |-> "unlock", owner |-> p, chunk |-> c]
Copy(from, to)  == [do |-> "copy", from |-> from, to |-> to]
Fold(in, inout, to) == [do |-> "fold", in |-> in, from |-> inout, to |-> to]
Sending(p, tag, l)  == [do |-> "send", peer |-> p, tag |-> tag, from |-> l]
Isending(p, tag, l) == [do |-> "isend", peer |-> p, tag |-> tag, from |-> l]
Posting(q, p, tag, l) ==
  [do |-> "irecv", req |-> q, peer |-> p, tag |-> tag, to |-> l]
Waiting(q)      == [do |-> "wait", req |-> q]
WaitingSends    == [do |-> "waitsend"]

Recv(p, tag, l)   == <<Posting("coll", p, tag, l), Waiting("coll")>>
Send(p, tag, l)   == <<Sending(p, tag, l)>>

(* Mutant: the exchange sends before it posts its receive. *)
SendThenRecv(dst, src, tag, from, to) ==
  <<Sending(dst, tag, from), Posting("coll", src, tag, to), Waiting("coll")>>

Sendrecv(dst, src, tag, from, to) ==
  <<Posting("coll", src, tag, to), Sending(dst, tag, from), Waiting("coll")>>

Sendrecv_replace(dst, src, tag, l, tmp) ==
  <<Copy(l, tmp)>> \o Sendrecv(dst, src, tag, tmp, l)

Each(seq, Do(_)) == FlattenSeq([i \in DOMAIN seq |-> Do(seq[i])])
Upto(m)          == [i \in 1 .. m |-> i - 1]

(* A set of numbers in their order: the i-th has i - 1 others below it.    *)
Ascending(S) ==
  [i \in 1 .. Cardinality(S) |-> CHOOSE x \in S : Cardinality({y \in S : y < x}) = i - 1]

----------------------------------------------------------------------------
(* A communicator: the world ranks of its members, its context number, and *)
(* whether they share memory. Over several machines it may come with one   *)
(* communicator of the first ranks of each machine and one per machine.    *)

At(cm, i)         == cm.ranks[i + 1]
Size(cm)          == Len(cm.ranks)
RankIn(cm, p)     == SelectInSeq(cm.ranks, LAMBDA q : q = p) - 1
Tagged(cm, tag)   == EXTENDED_TAG(cm.context, tag)
OthersThan(cm, me) == Ascending((0 .. Size(cm) - 1) \ {me})
Slots(cm)         == 0 .. cm.slots - 1

Intracomm(ranks, context, slots, smp) ==
  [ranks |-> ranks, context |-> context, slots |-> slots, smp |-> smp, mcc |-> FALSE]

(* The leaders are ordered by machine, the locals of a machine by rank.    *)
commCreateMCC(size, context, machines, node) ==
  LET Ranks    == 0 .. size - 1
      used     == Ascending({node[p] : p \in Ranks})
      world    == Intracomm(Upto(size), context, size, machines = 1 /\ size > 1)
      Here(k)  == Ascending({p \in Ranks : node[p] = k})
  IN  IF machines = 1 \/ Len(used) \in {1, size} THEN world
      ELSE [ranks |-> world.ranks, context |-> context, slots |-> size, smp |-> FALSE,
            mcc |-> TRUE,
            leaders |-> Intracomm([j \in DOMAIN used |-> Head(Here(used[j]))],
                                  context + 1, size, FALSE),
            locals  |-> [p \in Ranks |->
                           Intracomm(Here(node[p]), context + 2, size, TRUE)]]

(* The part of a buffer that the ranks of cm fold under the lock of chunk  *)
(* c: the last chunk takes the rest.                                       *)
Chunk(cm, c) ==
  LET width == cm.slots \div Size(cm)
  IN  {j \in Slots(cm) : c * width <= j /\ (c < Size(cm) - 1 => j < (c + 1) * width)}
=============================================================================
