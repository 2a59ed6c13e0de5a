---------------------------- MODULE Collectives ----------------------------
(***************************************************************************)
(* The collective operations of AzequiaMPI, as the ranks of one            *)
(* communicator execute them: each call unfolds into the steps of          *)
(* CollectiveScripts, in a program under verification into those of its    *)
(* last part, and the ranks interleave at those steps.                     *)
(*                                                                         *)
(* Point-to-point communication is what ComLocal shows it to be: a send    *)
(* blocks until it is received, and matching follows MpiMatching's order.  *)
(* An intercepted send copies its buffer and does not block.               *)
(***************************************************************************)
EXTENDS CollectiveScripts

CONSTANTS Jobs,        (* [n, machines, node, hook, displs, calls]: how    *)
                       (* many ranks, on how many machines, which one each *)
                       (* is on, is the program intercepted, the slots of  *)
                       (* the v-variants, the calls all ranks make         *)
          Context,     (* the context number of the communicator           *)
          ZeroIsUnit   (* is zeroed memory the unit of the reduction?      *)

Ops == {"Barrier", "Bcast", "Reduce", "Allreduce", "Scan", "Gather", "Allgather",
        "Scatter", "Alltoall", "Gatherv", "Allgatherv", "Scatterv", "Alltoallv",
        "Reduce_scatter", "Replace", "Finalize", "Message", "Irecv", "Send", "Wait"}

ASSUME JobsAreLegal ==
  \A j \in Jobs :
    /\ j.n \in Nat \ {0} /\ j.machines \in Nat \ {0} /\ j.hook \in BOOLEAN
    /\ j.node \in [0 .. j.n - 1 -> 0 .. j.machines - 1]
    /\ j.displs \in [0 .. j.n - 1 -> 0 .. j.n - 1] /\ IsInjective(j.displs)
    /\ \A k \in 1 .. Len(j.calls) :
         /\ j.calls[k].op \in Ops
         /\ j.calls[k].root \in 0 .. j.n - 1 /\ j.calls[k].peer \in 0 .. j.n - 1
         /\ j.calls[k].data \in {"small", "big", "strided"}
ASSUME TheConstants == Context \in 0 .. 65535 /\ ZeroIsUnit \in BOOLEAN

VARIABLES job,   \* the communicator and the program of its ranks
          at,    \* at[r]: how many calls rank r has entered
          got,   \* got[r]: what the calls rank r has left returned to it
          todo,  \* todo[r]: the steps left in the call rank r is in
          mem,   \* mem[r]: the buffers of rank r
          out,   \* out[r]: the nonblocking sends of rank r not yet received
          pend,  \* pend[r]: the receives rank r has posted, oldest first
          lock,  \* lock[p][c]: the rank that holds chunk c of ReduceLock in
                 \* the communicator object of rank p (comm_root)
          dead   \* the ranks that have deleted their communicator

vars == <<job, at, got, todo, mem, out, pend, lock, dead>>

Rank     == 0 .. job.n - 1
AnySrc   == -1   \* MPI_ANY_SOURCE
NoRank   == -1
UserTag  == 1
Buffers  == {"send", "recv", "tmp", "part", "all", "ptr", "user"}
Array(e) == [j \in Rank |-> e]

comm == commCreateMCC(job.n, Context, job.machines, job.node)

Inside(r)  == at[r] > Len(got[r])
Call(r)    == job.calls[at[r]]
Doing(r, what) == todo[r] # <<>> /\ Head(todo[r]).do = what

----------------------------------------------------------------------------
(* What call c makes rank me do. Message, Irecv, Send and Wait are the     *)
(* program's own communication: c.root receives, from anyone and with any  *)
(* tag, what c.peer sends.                                                 *)
Program(c, me) ==
  CASE c.op = "Irecv" /\ me = c.root ->
         <<Posting("user", AnySrc, Tagged(comm, TAG_ANY), Own0("user"))>>
    [] c.op \in {"Send", "Message"} /\ me = c.peer ->
         Send(c.root, Tagged(comm, UserTag), Own0("send"))
    [] c.op = "Wait" /\ me = c.root -> <<Waiting("user")>>
    [] c.op = "Message" /\ me = c.root ->
         <<Posting("user", AnySrc, Tagged(comm, TAG_ANY), Own0("user")), Waiting("user")>>
    [] OTHER -> <<>>

(* Sendrecv_replace passes the buffers on around a ring. *)
Following(me) == (me + 1) % job.n
Previous(me) == (me - 1) % job.n

Script(c, me) ==
  CASE c.op = "Barrier"    -> Barrier(comm, me)
    [] c.op = "Finalize"   -> Finalize(comm, me)
    [] c.op = "Bcast"      -> Bcast(comm, me, c.root, c.data, "recv")
    [] c.op = "Reduce"     -> Reduce(comm, me, c.root, c.data, "recv")
    [] c.op = "Allreduce"  -> Allreduce(comm, me, c.data)
    [] c.op = "Scan"       -> Scan(comm, me)
    [] c.op = "Gather"     -> Gather(comm, me, c.root, c.data)
    [] c.op = "Gatherv"    -> MPI_Gatherv(comm, me, c.root, job.displs)
    [] c.op = "Allgather"  -> Allgather(comm, me, c.data)
    [] c.op = "Allgatherv" -> Allgatherv(comm, me, job.displs)
    [] c.op = "Scatter"    -> Scatter(comm, me, c.root)
    [] c.op = "Scatterv"   -> MPI_Scatterv(comm, me, c.root, job.displs, "send")
    [] c.op = "Alltoall"   -> Alltoall(comm, me)
    [] c.op = "Alltoallv"  -> Alltoallv(comm, me, job.displs)
    [] c.op = "Reduce_scatter" -> Reduce_scatter(comm, me, c.data)
    [] c.op = "Replace"    ->
         Sendrecv_replace(Following(me), Previous(me), Tagged(comm, UserTag),
                          Whole(comm, "recv"), Whole(comm, "tmp"))
    [] OTHER -> Program(c, me)

(* The same for an intercepted program. *)
HookScript(c, me) ==
  CASE c.op = "Barrier"    -> hook_Barrier(comm, me)
    [] c.op = "Finalize"   -> hook_Finalize(comm, me)
    [] c.op = "Bcast"      -> hook_Bcast(comm, me, c.root, "recv")
    [] c.op = "Reduce"     -> hook_Reduce(comm, me, c.root, c.data)
    [] c.op = "Allreduce"  -> hook_Allreduce(comm, me, c.data)
    [] c.op = "Gather"     -> hook_Gather(comm, me, c.root)
    [] c.op = "Gatherv"    -> hook_Gatherv(comm, me, c.root, job.displs)
    [] c.op = "Allgather"  -> hook_Allgather(comm, me)
    [] c.op = "Allgatherv" -> hook_Allgatherv(comm, me, job.displs)
    [] c.op = "Scatter"    -> hook_Scatter(comm, me, c.root)
    [] c.op = "Scatterv"   -> hook_Scatterv(comm, me, c.root, job.displs)
    [] c.op = "Alltoall"   -> hook_Alltoall(comm, me)
    [] c.op = "Alltoallv"  -> hook_Alltoallv(comm, me, job.displs)
    [] c.op = "Replace"    ->
         hook_Sendrecv_replace(Following(me), Previous(me), Tagged(comm, UserTag),
                               Whole(comm, "recv"), Whole(comm, "tmp"))
    [] OTHER -> Program(c, me)

(* The buffers rank r passes to its k-th call, call c; "user" outlives it. *)
Contribution(r, k) == [j \in Rank |-> <<<<r, k, j>>>>]
Arguments(c, r, k) ==
  [mem[r] EXCEPT !["send"] = Contribution(r, k),
                 !["recv"] = IF c.op = "Replace" \/ (c.op = "Bcast" /\ r = c.root)
                             THEN Contribution(r, k) ELSE Array(<<>>)]

(* The buffer call c returns its result to rank r in. *)
ResultBuffer(c, r) ==
  IF \/ c.op \in {"Bcast", "Allreduce", "Scan", "Allgather", "Scatter", "Alltoall",
                 "Allgatherv", "Scatterv", "Alltoallv", "Reduce_scatter", "Replace"}
     \/ c.op \in {"Reduce", "Gather", "Gatherv"} /\ r = c.root
  THEN "recv"
  ELSE IF c.op \in {"Wait", "Message"} /\ r = c.root THEN "user" ELSE "none"

----------------------------------------------------------------------------
(* Actions. *)

Owner(r, l) == IF l.who = "own" THEN r ELSE mem[r]["ptr"][0][1]

(* One slot can be copied to any other, several to the same ones.          *)
Read(r, l) ==
  LET b == mem[Owner(r, l)][l.buf]
  IN  IF Cardinality(l.slots) = 1 THEN Array(b[CHOOSE j \in l.slots : TRUE]) ELSE b
Write(r, l, v) ==
  [mem EXCEPT ![Owner(r, l)][l.buf] = [j \in Rank |-> IF j \in l.slots THEN v[j] ELSE @[j]]]

Proceed(r) == todo' = [todo EXCEPT ![r] = Tail(@)]

Enter(r) ==
  /\ ~Inside(r) /\ at[r] < Len(job.calls)
  /\ LET k == at[r] + 1
         c == job.calls[k]
     IN  /\ at' = [at EXCEPT ![r] = k]
         /\ mem' = [mem EXCEPT ![r] = Arguments(c, r, k)]
         /\ todo' = [todo EXCEPT ![r] = IF job.hook THEN HookScript(c, r)
                                                    ELSE Script(c, r)]
  /\ UNCHANGED <<job, got, out, pend, lock, dead>>

Leave(r) ==
  /\ Inside(r) /\ todo[r] = <<>>
  /\ LET b == ResultBuffer(Call(r), r)
     IN  got' = [got EXCEPT ![r] =
                   Append(@, IF b = "none" THEN Array(<<>>) ELSE mem[r][b])]
  /\ UNCHANGED <<job, at, todo, mem, out, pend, lock, dead>>

(* A step on memory: take the address, clear, copy, or fold. *)
Touch(r) ==
  /\ \/ /\ Doing(r, "aim")
        /\ mem' = Write(r, Whole(comm, "ptr"), Array(<<r>>))
     \/ /\ Doing(r, "zero")
        /\ mem' = Write(r, Head(todo[r]).to,
                        Array(IF ZeroIsUnit THEN <<>> ELSE <<<<NoRank, at[r], 0>>>>))
     \/ /\ Doing(r, "copy")
        /\ LET st == Head(todo[r])
           IN  mem' = Write(r, st.to, Read(r, st.from))
     \/ /\ Doing(r, "fold")
        /\ LET st == Head(todo[r])
               a  == Read(r, st.in)
               b  == Read(r, st.from)
           IN  mem' = Write(r, st.to, [j \in Rank |-> a[j] \o b[j]])
  /\ Proceed(r)
  /\ UNCHANGED <<job, at, got, out, pend, lock, dead>>

(* Mutant: the chunk is used without its lock, as the variant in hook.c does. *)
Unguarded(p, c) == TRUE

IsFree(p, c) == lock[p][c] = NoRank

Lock(r) ==
  /\ Doing(r, "lock")
  /\ LET st == Head(todo[r])
     IN  IsFree(st.owner, st.chunk) /\ lock' = [lock EXCEPT ![st.owner][st.chunk] = r]
  /\ Proceed(r)
  /\ UNCHANGED <<job, at, got, mem, out, pend, dead>>

Unlock(r) ==
  /\ Doing(r, "unlock")
  /\ lock' = [lock EXCEPT ![Head(todo[r]).owner][Head(todo[r]).chunk] = NoRank]
  /\ Proceed(r)
  /\ UNCHANGED <<job, at, got, mem, out, pend, dead>>

(* What leaves with a message: an intercepted call copies the buffer.      *)
Payload(r, l) == IF job.hook THEN Read(r, l) ELSE <<>>

(* The request of an intercepted MPI_Send is the engine's: nobody waits.   *)
Isend(r) ==
  /\ \/ Doing(r, "isend")
     \/ job.hook /\ Doing(r, "send")
  /\ LET st == Head(todo[r])
     IN  out' = [out EXCEPT ![r] =
                   Append(@, [do |-> st.do, peer |-> st.peer, tag |-> st.tag, from |-> st.from,
                              value |-> Payload(r, st.from)])]
  /\ Proceed(r)
  /\ UNCHANGED <<job, at, got, mem, pend, lock, dead>>

Irecv(r) ==
  /\ Doing(r, "irecv")
  /\ LET st == Head(todo[r])
     IN  pend' = [pend EXCEPT ![r] =
                    Append(@, [req |-> st.req, peer |-> st.peer, tag |-> st.tag,
                               to |-> st.to, done |-> FALSE])]
  /\ Proceed(r)
  /\ UNCHANGED <<job, at, got, mem, out, lock, dead>>

(* Mutant: the request stays allocated. *)
StillHeld(r, i) == pend[r]

(* The request is released when it is waited for. *)
Released(r, i) == RemoveAt(pend[r], i)

Wait(r) ==
  /\ \/ /\ Doing(r, "waitsend")
        /\ \A i \in DOMAIN out[r] : out[r][i].do # "isend"
        /\ UNCHANGED pend
     \/ /\ Doing(r, "wait")
        /\ \E i \in DOMAIN pend[r] :
             /\ pend[r][i].req = Head(todo[r]).req
             /\ pend[r][i].done
             /\ pend' = [pend EXCEPT ![r] = Released(r, i)]
  /\ Proceed(r)
  /\ UNCHANGED <<job, at, got, mem, out, lock, dead>>

(* The engine lets the ranks leave a barrier when all have come to it.     *)
Meet(r) ==
  /\ Doing(r, "meet")
  /\ \A s \in Rank : at[s] >= at[r]
  /\ Proceed(r)
  /\ UNCHANGED <<job, at, got, mem, out, pend, lock, dead>>

Delete(r) ==
  /\ Doing(r, "die")
  /\ dead' = dead \cup {r}
  /\ Proceed(r)
  /\ UNCHANGED <<job, at, got, mem, out, pend, lock>>

(* The sends of rank s not yet received, oldest first: a blocking one is   *)
(* the step rank s is stuck at.                                            *)
Offers(s) == out[s] \o IF ~job.hook /\ Doing(s, "send") THEN <<Head(todo[s])>> ELSE <<>>

Fits(s, i, r, j) ==
  LET m == Offers(s)[i]
      q == pend[r][j]
  IN  /\ m.peer = r
      /\ ~q.done
      /\ q.peer \in {AnySrc, s}
      /\ TAG_MATCH(q.tag, m.tag)

(* A message goes from s to r: the oldest that fits, to the oldest receive *)
(* it fits. The receive then holds the source and the tag it got.          *)
Transfer(s, r) ==
  \E i \in DOMAIN Offers(s), j \in DOMAIN pend[r] :
    /\ Fits(s, i, r, j)
    /\ \A h \in 1 .. i - 1 : ~Fits(s, h, r, j)
    /\ \A h \in 1 .. j - 1 : ~Fits(s, i, r, h)
    /\ LET m == Offers(s)[i]
       IN  /\ mem' = Write(r, pend[r][j].to, IF job.hook THEN m.value ELSE Read(s, m.from))
           /\ pend' = [pend EXCEPT ![r][j] = [@ EXCEPT !.done = TRUE, !.peer = s,
                                                       !.tag = m.tag]]
    /\ \/ /\ i <= Len(out[s])
          /\ out' = [out EXCEPT ![s] = RemoveAt(@, i)]
          /\ UNCHANGED todo
       \/ /\ i > Len(out[s])
          /\ Proceed(s)
          /\ UNCHANGED out
    /\ UNCHANGED <<job, at, got, lock, dead>>

Steps(r) ==
  \/ Leave(r) \/ Touch(r) \/ Lock(r) \/ Unlock(r)
  \/ Isend(r) \/ Irecv(r) \/ Wait(r) \/ Meet(r) \/ Delete(r)
  \/ \E s \in Rank : Transfer(s, r)

Ended == \A r \in Rank : ~Inside(r) /\ at[r] = Len(job.calls)

Init ==
  /\ job \in Jobs
  /\ at   = [r \in Rank |-> 0]
  /\ got  = [r \in Rank |-> <<>>]
  /\ todo = [r \in Rank |-> <<>>]
  /\ mem  = [r \in Rank |-> [b \in Buffers |-> Array(<<>>)]]
  /\ out  = [r \in Rank |-> <<>>]
  /\ pend = [r \in Rank |-> <<>>]
  /\ lock = [p \in Rank |-> [c \in Rank |-> NoRank]]
  /\ dead = {}

Next == (\E r \in Rank : Steps(r)) \/ \E r \in Rank : Enter(r)

Spec == Init /\ [][Next]_vars

(* The system keeps running some rank as long as one can take a step. *)
FairSpec == Spec /\ WF_vars(Next)

----------------------------------------------------------------------------
(* Properties. *)

Contributions == (Rank \cup {NoRank}) \X (1 .. Len(job.calls)) \X Rank

(* Every variable has its type; no request outlives the call that waits    *)
(* for it, so that a rank never holds two of one name.                     *)
TypeOK ==
  /\ job \in Jobs
  /\ at \in [Rank -> 0 .. Len(job.calls)]
  /\ \A r \in Rank :
       /\ Len(got[r]) \in {at[r] - 1, at[r]}
       /\ ~Inside(r) => todo[r] = <<>>
       /\ \A i \in DOMAIN out[r] : ~Inside(r) => job.hook /\ out[r][i].do = "send"
       /\ \A b \in Buffers \ {"ptr"}, j \in Rank :
            \A i \in DOMAIN mem[r][b][j] : mem[r][b][j][i] \in Contributions
       /\ \A j \in Rank : mem[r]["ptr"][j] \in {<<>>} \cup {<<o>> : o \in Rank}
       /\ \A i, j \in DOMAIN pend[r] : pend[r][i].req = pend[r][j].req => i = j
  /\ lock \in [Rank -> [Rank -> Rank \cup {NoRank}]]
  /\ dead \subseteq Rank

Promise ==
  INSTANCE MpiCollective WITH
    got <- [r \in Rank |-> [k \in DOMAIN got[r] |->
                              [j \in Rank |-> ToBag(got[r][k][j])]]]

(* Whatever the algorithm and however the ranks interleave, a collective   *)
(* call returns to each rank what it promises, each contribution once, and *)
(* not before the ranks it depends on have entered it (every function of   *)
(* coll/).                                                                 *)
Implements == Promise!Spec

(* A rank reaches into the buffer whose address it was given only while    *)
(* the owner is still in the same call: the acknowledgements of the        *)
(* *_reference functions hold the root back.                               *)
Reaches(st) == \/ "from" \in DOMAIN st /\ st.from.who = "theirs"
               \/ "to" \in DOMAIN st /\ st.to.who = "theirs"
InScope ==
  \A r \in Rank :
    todo[r] # <<>> /\ Reaches(Head(todo[r])) =>
      /\ mem[r]["ptr"][0] # <<>>
      /\ LET o == mem[r]["ptr"][0][1] IN Inside(o) /\ at[o] = at[r]

(* A receive of the program for any source and any tag, pending while a    *)
(* collective runs, never takes a message of the collective, and the       *)
(* collective never takes one of the program's (TAG_MATCH).                *)
OwnTraffic ==
  \A r \in Rank : \A i \in DOMAIN pend[r] :
    pend[r][i].done => (pend[r][i].req = "user" \/ Call(r).op = "Replace"
                          <=> TAG_EXT(pend[r][i].tag) <= TAG_UB)

(* When MPI_Finalize deletes the communicator of a rank, no rank is still  *)
(* in a communication that precedes it: the barrier MPI_Finalize begins    *)
(* with has seen to that.                                                  *)
FinalizeWaits ==
  \A r \in dead, s \in Rank : Inside(s) => at[s] >= at[r]

(* The root of a reduction gets a_0 op a_1 op ... op a_n-1, in the order   *)
(* of the ranks, whether or not the operation commutes.                    *)
InRankOrder ==
  \A r \in Rank : \A k \in DOMAIN got[r] :
    job.calls[k].op = "Reduce" /\ r = job.calls[k].root =>
      \A j \in Rank : got[r][k][j] = [i \in 1 .. job.n |-> <<i - 1, k, j>>]

(* No call blocks forever, no two ranks wait for one another: every rank   *)
(* comes back from all its calls.                                          *)
Ends == <>Ended
=============================================================================
