-------------------------- MODULE CollectiveScripts --------------------------
(***************************************************************************)
(* The algorithms of coll/: what a collective call over communicator cm    *)
(* makes its rank me do, as the sequence of the sends, receives, copies    *)
(* and locked sections that the C function performs.                       *)
(*                                                                         *)
(* On one machine the ranks are threads of one process and the SMP variants*)
(* pass an ADDRESS: the root broadcasts a pointer to its buffer and the    *)
(* others reach into it, so the root may not return before they are done.  *)
(* Over several machines with several ranks each, the MCC variants work in *)
(* two levels: among the leaders of the machines, and within each.         *)
(***************************************************************************)
EXTENDS CollectiveSteps

Whole(cm, b) == Own(b, Slots(cm))
All(cm, b)   == Theirs(b, Slots(cm))

SelfCopy(cm, me, from, to) ==
  <<Posting("self", At(cm, me), Tagged(cm, REDUCE_TAG), to),
    Sending(At(cm, me), Tagged(cm, REDUCE_TAG), from), Waiting("self")>>

Masks(cm) == {2 ^ k : k \in 0 .. Size(cm)} \cap 1 .. Size(cm) - 1

----------------------------------------------------------------------------
(* Barriers. *)

(* The binomial tree rooted at root: from the parent, then to the children *)
(* from the farthest to the nearest.                                       *)
Tree(cm, me, root, tag, l) ==
  LET n    == Size(cm)
      rel  == (me - root + n) % n
      bits == {m \in Masks(cm) : (rel \div m) % 2 = 1}
      low  == IF bits = {} THEN n ELSE Min(bits)
      down == {m \in Masks(cm) : m < low /\ rel + m < n}
  IN  (IF bits = {} THEN <<>> ELSE Recv(At(cm, (me - low + n) % n), tag, l))
      \o Each(Reverse(Ascending(down)), LAMBDA m : Send(At(cm, (me + m) % n), tag, l))

(* Mutant: an internode barrier made the way the intranode one is. *)
TreeBarrier(cm, me) == Tree(cm, me, 0, BARRIER_TAG, Nothing)

dissemination_barrier(cm, me) ==
  LET n == Size(cm)
  IN  Each(Ascending(Masks(cm)),
           LAMBDA m : Sendrecv(At(cm, (me + m) % n), At(cm, (me - m + n) % n),
                               Tagged(cm, BARRIER_TAG), Nothing, Nothing))

(* The tag is not packed with the context. *)
smp_barrier(cm, me) == Tree(cm, me, 0, BARRIER_TAG, Nothing)

IsLeader(cm, me) == RankIn(cm.leaders, me) >= 0
Amid(cm, me)     == Size(cm.locals[me]) > 1   \* comm_locals # MPI_COMM_NULL

mcc_barrier(cm, me) ==
  LET locals  == cm.locals[me]
      within  == IF Amid(cm, me) THEN smp_barrier(locals, RankIn(locals, me)) ELSE <<>>
      between == IF IsLeader(cm, me)
                 THEN dissemination_barrier(cm.leaders, RankIn(cm.leaders, me)) ELSE <<>>
  IN  within \o between \o within

Barrier(cm, me) == IF cm.mcc THEN mcc_barrier(cm, me)
                   ELSE IF cm.smp THEN smp_barrier(cm, me)
                   ELSE dissemination_barrier(cm, me)

Finalize(cm, me) == Append(Barrier(cm, me), Die)

----------------------------------------------------------------------------
(* Broadcast. *)

(* Mutant: the root does not wait for them. *)
NoAcks(cm, me, root, tag) == <<>>

(* The others tell the root that they no longer use its buffer. *)
Acks(cm, me, root, tag) ==
  IF me = root
  THEN Each(OthersThan(cm, me), LAMBDA i : Recv(At(cm, i), Tagged(cm, tag), Nothing))
  ELSE Send(At(cm, root), Tagged(cm, tag), Nothing)

smp_broadCast_value(cm, me, root, l) ==
  IF me = root
  THEN Each(OthersThan(cm, me), LAMBDA i : Send(At(cm, i), Tagged(cm, BCAST_TAG), l))
  ELSE Recv(At(cm, root), Tagged(cm, BCAST_TAG), l)

smp_broadCast_reference(cm, me, root, b) ==
  (IF me = root THEN <<Aim>> ELSE <<>>)
  \o smp_broadCast_value(cm, me, root, Whole(cm, "ptr"))
  \o (IF me = root THEN <<>> ELSE <<Copy(All(cm, b), Whole(cm, b))>>)
  \o Acks(cm, me, root, REDUCE_TAG)

net_bcast(cm, me, root, data, b) ==
  Tree(cm, me, root, IF data = "strided" THEN Tagged(cm, BCAST_TAG) ELSE BCAST_TAG,
       Whole(cm, b))

smp_bcast(cm, me, root, data, b) ==
  IF data = "big" THEN smp_broadCast_reference(cm, me, root, b)
                  ELSE net_bcast(cm, me, root, data, b)

(* The machine of the root hands the message to its leader; the leaders    *)
(* broadcast it; each machine does.                                        *)
mcc_bcast(cm, me, root, data, b) ==
  LET locals     == cm.locals[me]
      rootLeader == At(cm.locals[root], 0)
  IN  (IF me = root /\ ~IsLeader(cm, me)
       THEN Send(At(locals, 0), Tagged(locals, BCAST_TAG), Whole(cm, b))
       ELSE IF me # root /\ me = rootLeader
       THEN Recv(-1, Tagged(locals, BCAST_TAG), Whole(cm, b)) ELSE <<>>)
      \o (IF IsLeader(cm, me)
          THEN net_bcast(cm.leaders, RankIn(cm.leaders, me),
                         RankIn(cm.leaders, rootLeader), data, b) ELSE <<>>)
      \o (IF Amid(cm, me) THEN smp_bcast(locals, RankIn(locals, me), 0, data, b) ELSE <<>>)

Bcast(cm, me, root, data, b) ==
  IF cm.mcc THEN mcc_bcast(cm, me, root, data, b)
  ELSE IF cm.smp THEN smp_bcast(cm, me, root, data, b)
  ELSE net_bcast(cm, me, root, data, b)

(* The root's address, and what comes before the others may use it. *)
BcastPointer(cm, me, root) == smp_bcast(cm, me, root, "small", "ptr")

----------------------------------------------------------------------------
(* Reductions: op(in, inout) leaves "in op inout" in inout. The result     *)
(* goes to buffer b of the root.                                           *)

copyData(cm, me, data, from, to) ==
  IF data = "strided" THEN SelfCopy(cm, me, from, to) ELSE <<Copy(from, to)>>

(* Over the first size ranks. *)
lin_reduce(cm, size, me, root, data, from, b) ==
  LET From(i, to) == IF i = me THEN copyData(cm, me, data, Whole(cm, from), to)
                               ELSE Recv(At(cm, i), Tagged(cm, REDUCE_TAG), to)
  IN  IF me = root
      THEN From(0, Whole(cm, b))
           \o Each(Tail(Upto(size)),
                   LAMBDA i : Append(From(i, Whole(cm, "tmp")),
                                     Fold(Whole(cm, "tmp"), Whole(cm, b), Whole(cm, b))))
      ELSE Send(At(cm, root), Tagged(cm, REDUCE_TAG), Whole(cm, from))

(* Each rank folds its data into the root's buffer, chunk by chunk, a      *)
(* different chunk first; the operation reads a chunk and writes it back.  *)
smp_reduce_reference(cm, me, root, b) ==
  (IF me = root THEN <<Aim, Zero(Whole(cm, b))>> ELSE <<>>)
  \o BcastPointer(cm, me, root)
  \o Each(Upto(Size(cm)),
          LAMBDA i : LET c == (i + me) % Size(cm)
                         S == Chunk(cm, c)
                     IN  <<Locking(At(cm, 0), c),
                           Copy(Theirs(b, S), Own("tmp", S)),
                           Fold(Own("send", S), Own("tmp", S), Theirs(b, S)),
                           Unlocking(At(cm, 0), c)>>)
  \o Acks(cm, me, root, REDUCE_TAG)

(* The root's rank in cm is passed on as a rank among the leaders.         *)
mcc_reduce(cm, me, root, data, b) ==
  LET locals == cm.locals[me]
  IN  (IF Amid(cm, me)
       THEN smp_reduce_reference(locals, RankIn(locals, me), 0, "part") ELSE <<>>)
      \o (IF IsLeader(cm, me)
          THEN lin_reduce(cm.leaders, Size(cm.leaders), RankIn(cm.leaders, me), root,
                          data, "part", b) ELSE <<>>)

Reduce(cm, me, root, data, b) ==
  IF cm.mcc THEN mcc_reduce(cm, me, root, data, b)
  ELSE IF cm.smp THEN smp_reduce_reference(cm, me, root, b)
  ELSE lin_reduce(cm, Size(cm), me, root, data, "send", b)

Allreduce(cm, me, data) ==
  Reduce(cm, me, 0, data, "recv") \o Bcast(cm, me, 0, data, "recv")

(* One linear reduction for each rank, the last rank first. *)
Scan(cm, me) ==
  Each(Reverse(Upto(Size(cm))),
       LAMBDA root : IF me > root THEN <<>>
                     ELSE lin_reduce(cm, root + 1, me, root, "strided", "send", "recv"))

----------------------------------------------------------------------------
(* Gather, scatter and exchange; the v-variants take the slot of each rank *)
(* from displs.                                                            *)

Own0(b) == Own(b, {0})

smp_gather_value(cm, me, root, data) ==
  IF me = root
  THEN copyData(cm, me, data, Own0("send"), Own("recv", {me}))
       \o Each(OthersThan(cm, me),
               LAMBDA i : Recv(At(cm, i), Tagged(cm, GATHER_TAG), Own("recv", {i})))
  ELSE Send(At(cm, root), Tagged(cm, GATHER_TAG), Own0("send"))

smp_gather_reference(cm, me, root) ==
  (IF me = root THEN <<Aim>> ELSE <<>>)
  \o Tree(cm, me, root, BCAST_TAG, Whole(cm, "ptr"))
  \o <<Copy(Own0("send"), Theirs("recv", {me}))>>
  \o Acks(cm, me, root, GATHER_TAG)

MPI_Gatherv(cm, me, root, displs) ==
  (IF me # root THEN <<>>
   ELSE Each(Upto(Size(cm)),
             LAMBDA i : IF i = root
                        THEN <<Posting("self", At(cm, i), Tagged(cm, GATHER_TAG),
                                       Own("recv", {displs[i]}))>>
                        ELSE Recv(At(cm, i), Tagged(cm, GATHER_TAG),
                                  Own("recv", {displs[i]}))))
  \o Send(At(cm, root), Tagged(cm, GATHER_TAG), Own0("send"))
  \o (IF me = root THEN <<Waiting("self")>> ELSE <<>>)

InOrder(cm) == [i \in Slots(cm) |-> i]

net_gather(cm, me, root) == MPI_Gatherv(cm, me, root, InOrder(cm))

Gather(cm, me, root, data) ==
  IF ~cm.smp THEN net_gather(cm, me, root)
  ELSE IF data = "big" THEN smp_gather_reference(cm, me, root)
  ELSE smp_gather_value(cm, me, root, data)

Allgather(cm, me, data) ==
  Each(Upto(Size(cm)), LAMBDA root : Gather(cm, me, root, data))
Allgatherv(cm, me, displs) ==
  Each(Upto(Size(cm)), LAMBDA root : MPI_Gatherv(cm, me, root, displs))

smp_scatter_reference(cm, me, root) ==
  (IF me = root THEN <<Aim>> ELSE <<>>)
  \o BcastPointer(cm, me, root)
  \o <<Copy(Theirs("send", {me}), Own0("recv"))>>
  \o Acks(cm, me, root, REDUCE_TAG)

MPI_Scatterv(cm, me, root, displs, b) ==
  (IF me # root THEN <<>>
   ELSE Each(Upto(Size(cm)),
             LAMBDA i : LET from == Own(b, {displs[i]})
                        IN  IF i = root
                            THEN <<Isending(At(cm, i), Tagged(cm, SCATTER_TAG), from)>>
                            ELSE Send(At(cm, i), Tagged(cm, SCATTER_TAG), from)))
  \o Recv(At(cm, root), Tagged(cm, SCATTER_TAG), Own0("recv"))
  \o (IF me = root THEN <<WaitingSends>> ELSE <<>>)

net_scatter(cm, me, root) == MPI_Scatterv(cm, me, root, InOrder(cm), "send")

Scatter(cm, me, root) == IF cm.smp THEN smp_scatter_reference(cm, me, root)
                                   ELSE net_scatter(cm, me, root)

(* Reduced into a buffer of rank 0, and scattered from it. *)
Reduce_scatter(cm, me, data) ==
  Reduce(cm, me, 0, data, "all") \o MPI_Scatterv(cm, me, 0, InOrder(cm), "all")

Alltoallv(cm, me, displs) ==
  LET n == Size(cm)
  IN  Each(Upto(n),
           LAMBDA i : LET src == (me - i + n) % n
                          dst == (me + i) % n
                      IN  Sendrecv(At(cm, dst), At(cm, src), Tagged(cm, ALLTOALL_TAG),
                                   Own("send", {displs[dst]}), Own("recv", {displs[src]})))

Alltoall(cm, me) == Alltoallv(cm, me, InOrder(cm))

----------------------------------------------------------------------------
(* The interception layer (hook.c): what a program under verification      *)
(* calls in place of coll/.  The same algorithms as between machines, made *)
(* of the intercepted send and receive so that the symbolic engine sees    *)
(* every message.                                                          *)

(* The engine itself makes the ranks meet. *)
hook_Barrier(cm, me)  == <<Meeting>>
hook_Finalize(cm, me) == Append(hook_Barrier(cm, me), Die)

hook_Bcast(cm, me, root, b) == smp_broadCast_value(cm, me, root, Whole(cm, b))

hook_Reduce(cm, me, root, data) ==
  lin_reduce(cm, Size(cm), me, root, data, "send", "recv")

hook_Allreduce(cm, me, data) == hook_Reduce(cm, me, 0, data) \o hook_Bcast(cm, me, 0, "recv")

hook_Gatherv(cm, me, root, displs) == MPI_Gatherv(cm, me, root, displs)
hook_Gather(cm, me, root)          == hook_Gatherv(cm, me, root, InOrder(cm))

hook_Allgatherv(cm, me, displs) ==
  Each(Upto(Size(cm)), LAMBDA root : hook_Gatherv(cm, me, root, displs))
hook_Allgather(cm, me) ==
  Each(Upto(Size(cm)), LAMBDA root : hook_Gather(cm, me, root))

hook_Scatterv(cm, me, root, displs) == MPI_Scatterv(cm, me, root, displs, "send")
hook_Scatter(cm, me, root)          == hook_Scatterv(cm, me, root, InOrder(cm))

hook_Alltoallv(cm, me, displs) == Alltoallv(cm, me, displs)
hook_Alltoall(cm, me)          == hook_Alltoallv(cm, me, InOrder(cm))

hook_Sendrecv_replace(dst, src, tag, l, tmp) == Sendrecv_replace(dst, src, tag, l, tmp)
============================================================================
