--------------------------- MODULE MpiCollective ---------------------------
(***************************************************************************)
(* What the collective operations promise to a program, whatever algorithm *)
(* implements them: what each rank gets back, and whom it has waited for.  *)
(*                                                                         *)
(* A job is a communicator of n ranks and the calls all of them make, in   *)
(* order. <<s, k, j>> is what rank s contributes to element j of its k-th  *)
(* call. Reductions promise each contribution exactly once: a result is an *)
(* array of bags.                                                          *)
(***************************************************************************)
EXTENDS Integers, Sequences, Bags

CONSTANT Jobs

VARIABLES job,  \* the communicator and the calls of its ranks
          at,   \* at[r]: how many calls rank r has entered
          got   \* got[r]: the results of the calls rank r has left

cvars == <<job, at, got>>

Members == 0 .. job.n - 1

(* The ranks that must have entered call c before rank r may leave it. *)
WaitsFor(c, r) ==
  IF \/ c.op \in {"Barrier", "Finalize", "Allreduce", "Allgather", "Alltoall",
                 "Allgatherv", "Alltoallv", "Reduce_scatter"}
     \/ c.op \in {"Reduce", "Gather", "Gatherv"} /\ r = c.root
  THEN Members
  ELSE IF c.op \in {"Bcast", "Scatter", "Scatterv"} THEN {c.root}
  ELSE IF c.op = "Scan" THEN 0 .. r
  ELSE IF c.op = "Replace" THEN {(r - 1) % job.n}
  ELSE IF c.op = "Message" /\ r = c.root THEN {c.peer}
  ELSE {r}

(* The rank whose part is in slot j, for the v-variants. *)
RankAt(j) == CHOOSE i \in Members : job.displs[i] = j

(* The contributions due in element j of what call k returns to rank r. *)
Due(c, k, r, j) ==
  CASE c.op = "Bcast"                       -> {<<c.root, k, j>>}
    [] c.op = "Reduce" /\ r = c.root        -> {<<s, k, j>> : s \in Members}
    [] c.op = "Allreduce"                   -> {<<s, k, j>> : s \in Members}
    [] c.op = "Scan"                        -> {<<s, k, j>> : s \in 0 .. r}
    [] c.op = "Gather" /\ r = c.root        -> {<<j, k, 0>>}
    [] c.op = "Allgather"                   -> {<<j, k, 0>>}
    [] c.op = "Gatherv" /\ r = c.root       -> {<<RankAt(j), k, 0>>}
    [] c.op = "Allgatherv"                  -> {<<RankAt(j), k, 0>>}
    [] c.op = "Scatterv" /\ j = 0           -> {<<c.root, k, job.displs[r]>>}
    [] c.op = "Alltoallv"                   -> {<<RankAt(j), k, job.displs[r]>>}
    [] c.op = "Reduce_scatter" /\ j = 0     -> {<<s, k, r>> : s \in Members}
    [] c.op = "Replace"                     -> {<<(r - 1) % job.n, k, j>>}
    [] c.op = "Scatter" /\ j = 0            -> {<<c.root, k, r>>}
    [] c.op = "Alltoall"                    -> {<<j, k, r>>}
    [] c.op = "Message" /\ r = c.root /\ j = 0 -> {<<c.peer, k, 0>>}
    [] c.op = "Wait" /\ r = c.root /\ j = 0    -> {<<c.peer, k - 1, 0>>}
    [] OTHER                                -> {}

Enter(r) ==
  /\ at[r] = Len(got[r])
  /\ at[r] < Len(job.calls)
  /\ at' = [at EXCEPT ![r] = @ + 1]
  /\ UNCHANGED <<job, got>>

Leave(r) ==
  LET k == at[r]
      c == job.calls[k]
  IN  /\ k = Len(got[r]) + 1
      /\ \A s \in WaitsFor(c, r) : at[s] >= k
      /\ got' = [got EXCEPT ![r] =
                   Append(@, [j \in Members |-> SetToBag(Due(c, k, r, j))])]
      /\ UNCHANGED <<job, at>>

Init ==
  /\ job \in Jobs
  /\ at = [r \in Members |-> 0]
  /\ got = [r \in Members |-> <<>>]

Next == \E r \in Members : Enter(r) \/ Leave(r)

Spec == Init /\ [][Next]_cvars
=============================================================================
