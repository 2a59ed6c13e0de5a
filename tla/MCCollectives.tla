--------------------------- MODULE MCCollectives ---------------------------
(* Instances of Collectives for TLC: communicators of one to six ranks     *)
(* and programs of one to four calls.                                      *)
EXTENDS Collectives

c(op, root, data) == [op |-> op, root |-> root, peer |-> root, data |-> data]
u(op, root, peer) == [op |-> op, root |-> root, peer |-> peer, data |-> "small"]

(* A job; the v-variants fill the slots backwards.                         *)
J(m, machines, node, hook, calls) ==
  [n |-> m, machines |-> machines, node |-> node, hook |-> hook,
   displs |-> [i \in 0 .. m - 1 |-> m - 1 - i], calls |-> calls]
Net(m, calls)  == J(m, m + 1, [i \in 0 .. m - 1 |-> i], FALSE, calls)
Smp(m, calls)  == J(m, 1, [i \in 0 .. m - 1 |-> 0], FALSE, calls)
Hook(m, calls) == J(m, 1, [i \in 0 .. m - 1 |-> 0], TRUE, calls)

(* The algorithms between machines: every root, every tree shape up to 5.  *)
NetJobs ==
     {Net(m, <<c("Bcast", m - 1, "small")>>) : m \in 1 .. 5}
  \cup {Net(m, <<c("Bcast", m \div 2, "strided"), c("Finalize", 0, "small")>>) : m \in 1 .. 4}
  \cup {Net(m, <<c("Barrier", 0, "small"), u("Message", m \div 2, (m \div 2 + 1) % m),
                 c("Barrier", 0, "small")>>) : m \in 2 .. 3}
  \cup {Net(m, <<c("Reduce", m - 1, "strided"), c("Allreduce", 0, "small")>>) : m \in 1 .. 3}
  \cup {Net(m, <<c("Scan", 0, "small"), c("Alltoallv", 0, "small")>>) : m \in 1 .. 3}
  \cup {Net(m, <<c("Alltoall", 0, "small"), c("Replace", 0, "small")>>) : m \in 1 .. 3}
  \cup {Net(m, <<c("Scatter", 0, "small"), c("Gather", m - 1, "small")>>) : m \in 1 .. 3}
  \cup {Net(m, <<c("Scatterv", m - 1, "small"), c("Gatherv", 0, "small")>>) : m \in 1 .. 3}
  \cup {Net(m, <<c("Allgather", 0, "small")>>) : m \in 1 .. 3}
  \cup {Net(m, <<c("Allgatherv", 0, "small")>>) : m \in 2 .. 3}
  \cup {Net(m, <<c("Reduce_scatter", 0, "small")>>) : m \in 2 .. 3}

(* The algorithms on one machine, one call that passes an address after    *)
(* another, by different roots.                                            *)
SmpJobs ==
     {Smp(m, <<c("Reduce", m - 1, "small"), c("Bcast", 0, "big")>>) : m \in 2 .. 3}
  \cup {Smp(m, <<c("Bcast", 0, "big"), c("Scatter", m - 1, "small")>>) : m \in 2 .. 3}
  \cup {Smp(m, <<c("Gather", m - 1, "big"), c("Gather", 0, "strided")>>) : m \in 2 .. 3}
  \cup {Smp(m, <<c("Allreduce", 0, "small")>>) : m \in 2 .. 3}
  \cup {Smp(m, <<c("Allgather", 0, "big")>>) : m \in 2 .. 3}
  \cup {Smp(2, <<c("Reduce_scatter", 0, "small"), c("Replace", 0, "small")>>)}

(* Two machines: two ranks and one, in rank order and not; two and two.    *)
MccJobs ==
     {J(3, 2, [i \in 0 .. 2 |-> IF i = alone THEN 1 ELSE 0], FALSE,
          <<c("Bcast", root, "small"), c("Bcast", root, "big")>>) :
        alone \in 0 .. 2, root \in 0 .. 2}
  \cup {J(4, 2, [i \in 0 .. 3 |-> i \div 2], FALSE,
          <<u("Message", 0, 1), c("Barrier", 0, "small")>>)}
  \cup {J(4, 2, [i \in 0 .. 3 |-> i \div 2], FALSE, <<c("Allreduce", 0, "small")>>)}

(* A receive from anyone is pending while a collective runs.               *)
AnyJobs ==
  {J(m, s, [i \in 0 .. m - 1 |-> IF s = 1 THEN 0 ELSE i], FALSE,
     <<u("Irecv", 1, 0), d, u("Send", 1, 0), u("Wait", 1, 0)>>) :
     <<m, s>> \in {<<2, 1>>, <<2, 2>>, <<3, 1>>, <<3, 3>>},
     d \in {c("Bcast", 0, "small"), c("Gather", 1, "small"), c("Alltoall", 0, "small")}}

(* The same collectives intercepted, a send of the program before them.    *)
HookJobs ==
     {Hook(m, <<c("Bcast", 0, "small"), c("Bcast", m - 1, "small")>>) : m \in 2 .. 3}
  \cup {Hook(m, <<u("Irecv", 1, 0), c("Allreduce", 0, "small"), u("Send", 1, 0),
                  u("Wait", 1, 0)>>) : m \in 2 .. 3}
  \cup {Hook(m, <<c("Reduce", m - 1, "small"), c("Barrier", 0, "small"),
                  c("Allgather", 0, "small")>>) : m \in 2 .. 3}
  \cup {Hook(m, <<c("Scatter", 0, "small"), c("Gather", m - 1, "small"),
                  c("Finalize", 0, "small")>>) : m \in 2 .. 3}
  \cup {Hook(m, <<c("Scatterv", 0, "small"), c("Gatherv", m - 1, "small")>>) : m \in 2 .. 3}
  \cup {Hook(m, <<c("Allgatherv", 0, "small")>>) : m \in 2 .. 3}
  \cup {Hook(m, <<c("Alltoall", 0, "small"), c("Alltoallv", 0, "small"),
                  c("Replace", 0, "small")>>) : m \in 2 .. 3}

AllJobs == NetJobs \cup SmpJobs \cup MccJobs \cup AnyJobs \cup HookJobs

(* Ranks 3 and 5 of six have a message to exchange before they finalize:   *)
(* neither is a child of rank 0 in the tree of smp_barrier.                *)
FinalJobs == {Smp(6, <<u("Message", 5, 3), c("Finalize", 0, "small")>>)}

(* Both reductions, of two and three ranks.                                *)
ReduceJobs == {Smp(m, <<c("Reduce", m - 1, "small")>>) : m \in 2 .. 3}
         \cup {Net(m, <<c("Reduce", m - 1, "small")>>) : m \in 2 .. 3}
=============================================================================
