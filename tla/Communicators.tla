---------------------------- MODULE Communicators ----------------------------
(***************************************************************************)
(* Communicators and their context numbers (comn/, p_comn.c, p_group.c).   *)
(* Every rank keeps tables of its own. The ranks agree on the context of a *)
(* new communicator by an allreduce: each proposes one more than the last  *)
(* it used and the greatest proposal wins. All ranks run the same program, *)
(* a sequence of calls; a rank skips a call on a communicator it is not in.*)
(***************************************************************************)
EXTENDS MpiGroups

CONSTANTS Procs,       (* the number of ranks                              *)
          Machines,    (* the placements: functions from ranks to machines *)
          Programs     (* the sequences of calls that are tried            *)

Ranks == 0 .. Procs - 1

VARIABLES machine,     \* machine[p]: where rank p runs
          program,     \* the calls all ranks make
          pc,          \* pc[r]: the call rank r is at
          bids,        \* bids[r][i]: what r proposed in call i, per allreduce
          brought,     \* brought[r][i]: the local group r makes call i with
          nr,          \* nr[r]: CommNrMax
          comm,        \* comm[r][i]: the communicator that call i made
          group,       \* group[r][g]: the group objects of rank r
          handle       \* handle[r][i]: the group handle that call i gave

mvars == <<machine, program, pc, bids, brought, nr, comm, group, handle>>

None   == <<>>
WORLD  == 0
SELF   == -1
EMPTY  == <<0, "empty">>   \* MPI_GROUP_EMPTY
DEFAULT_ATTRIBUTES_COUNT == 16
DefaultKeys == 0 .. 4

(* What a call has to name: a communicator made earlier, two leaders, at   *)
(* least one node, ranks in an array, one of the operations on groups.     *)
Legal(call) ==
  /\ call.on \in Nat \cup {SELF}
  /\ call.op = "icreate" => call.leaders \subseteq Ranks /\ \E p, q \in call.leaders : p # q
  /\ call.op = "topo" => call.nnodes \in Nat \ {0}
  /\ call.op = "merge" => call.high \in [Ranks -> BOOLEAN]
  /\ call.op = "incl" => call.ranks \in Seq(Int)
  /\ call.op = "gop" => call.kind \in {"union", "intersection", "difference"}

ASSUME CommunicatorsAssumption ==
  /\ Procs \in Nat \ {0}
  /\ \A calls \in Programs : /\ calls \in Seq(Range(calls))
                            /\ \A i \in DOMAIN calls : Legal(calls[i])

Without(f, x)  == [y \in DOMAIN f \ {x} |-> f[y]]
With(f, x, v)  == [y \in DOMAIN f \cup {x} |-> IF y = x THEN v ELSE f[y]]

Has_comm(r, c) == c \in DOMAIN comm[r]
Locals(r, c)   == group[r][comm[r][c].local].members
Remotes(r, c)  == group[r][comm[r][c].remote].members
IsInter(r, c)  == comm[r][c].type = "INTERCOMM"

----------------------------------------------------------------------------
(* Groups of one rank: objects with a count of references. *)

groupCreate(gs, g, members) == With(gs, g, [refs |-> 1, members |-> members])
groupGetRef(gs, g)          == [gs EXCEPT ![g].refs = @ + 1]

groupDelete(gs, g) ==
  IF gs[g].refs = 1 THEN Without(gs, g) ELSE [gs EXCEPT ![g].refs = @ - 1]

(* groupGetLocalRank(g) >= 0. The field of a group of no members is not    *)
(* written when the group is made.                                         *)
LocalRankFound(r, g) == IF Members(g) = {} THEN BOOLEAN ELSE {r \in Members(g)}

----------------------------------------------------------------------------
(* The auxiliary communicators of clusters (commCreateMCC): the first rank *)
(* of each machine is a leader, and ranks that share a machine are locals. *)

Here(r, members) == Chosen(members, {p \in Members(members) : machine[p] = machine[r]})
IsLeader(r, members) == Head(Here(r, members)) = r
HasMCC(members) ==
  LET used == Cardinality({machine[p] : p \in Range(members)})
  IN  used > 1 /\ used # Len(members)

(* The contexts they have at rank r. *)
MCC(r, members, context) ==
  IF ~HasMCC(members) THEN {}
  ELSE (IF IsLeader(r, members) THEN {context + 1} ELSE {})
       \cup (IF Len(Here(r, members)) > 1 THEN {context + 2} ELSE {})

(* A new communicator object; commCreate sets CommNrMax to its context.    *)
Intra(g, context, slots, mcc) ==
  [type |-> "INTRACOMM", local |-> g, remote |-> g, context |-> context,
   slots |-> slots, mcc |-> mcc]
Inter(g, h, context, slots) ==
  [type |-> "INTERCOMM", local |-> g, remote |-> h, context |-> context,
   slots |-> slots, mcc |-> {}]

(* Mutant: the number is the context, whatever the auxiliary ones have.    *)
OwnContextOnly(object) == object.context

LastContext(object) == Max({object.context} \cup object.mcc)

commCreate(r, i, object) ==
  /\ comm' = [comm EXCEPT ![r] = With(@, i, object)]
  /\ nr' = [nr EXCEPT ![r] = LastContext(object)]

----------------------------------------------------------------------------
(* Allreduce. A call's k-th allreduce is over once every rank has bid.     *)

Agreed(i, k, ranks)  == Max({bids[q][i][k] : q \in ranks})
AllBid(i, k, ranks)  == \A q \in ranks : i \in DOMAIN bids[q] /\ Len(bids[q][i]) >= k
NBids(r, i)          == IF i \in DOMAIN bids[r] THEN Len(bids[r][i]) ELSE 0
Bid(r, i, number)    ==
  bids' = [bids EXCEPT ![r] = With(@, i, (IF i \in DOMAIN @ THEN @[i] ELSE <<>>) \o <<number>>)]

At(r, op)  == pc[r] <= Len(program) /\ program[pc[r]].op = op
Call(r)    == program[pc[r]]
Done(r)    == pc' = [pc EXCEPT ![r] = @ + 1]

(* The first allreduce of every call that makes a communicator. *)
Propose(r) ==
  /\ pc[r] <= Len(program)
  /\ Call(r).op \in {"dup", "create", "split", "topo", "icreate", "merge"}
  /\ Has_comm(r, Call(r).on)
  /\ NBids(r, pc[r]) = 0
  /\ Bid(r, pc[r], nr[r] + 1)
  /\ brought' = [brought EXCEPT ![r] = With(@, pc[r], Locals(r, Call(r).on))]
  /\ UNCHANGED <<machine, program, pc, nr, comm, group, handle>>

Skip(r) ==
  /\ pc[r] <= Len(program)
  /\ \/ ~Has_comm(r, Call(r).on) /\ Call(r).op \notin {"gfree", "incl", "gop"}
     \/ Call(r).op \in {"gfree", "incl"} /\ Call(r).on \notin DOMAIN handle[r]
     \/ Call(r).op = "gop" /\ ~({Call(r).on, Call(r).with} \subseteq DOMAIN handle[r])
  /\ Done(r)
  /\ UNCHANGED <<machine, program, bids, brought, nr, comm, group, handle>>

(* Mutant: the new communicator shares the group without counting it. *)
ShareOnly(gs, g) == gs

NewRef(gs, g) == groupGetRef(gs, g)

(* MPI_Comm_dup of an intracommunicator. *)
Dup(r) ==
  /\ At(r, "dup") /\ NBids(r, pc[r]) = 1 /\ ~IsInter(r, Call(r).on)
  /\ LET c == comm[r][Call(r).on]
         m == Locals(r, Call(r).on)
     IN  /\ AllBid(pc[r], 1, Members(m))
         /\ LET context == Agreed(pc[r], 1, Members(m))
            IN  commCreate(r, pc[r], Intra(c.local, context, DEFAULT_ATTRIBUTES_COUNT,
                                           MCC(r, m, context)))
         /\ group' = [group EXCEPT ![r] = NewRef(@, c.local)]
  /\ Done(r)
  /\ UNCHANGED <<machine, program, bids, brought, handle>>

(* MPI_Comm_create. *)
Create(r) ==
  /\ At(r, "create") /\ NBids(r, pc[r]) = 1
  /\ LET g       == handle[r][Call(r).group]
         members == group[r][g].members
         parent  == Members(Locals(r, Call(r).on))
     IN  /\ AllBid(pc[r], 1, parent)
         /\ \E found \in LocalRankFound(r, members) :
              IF found
              THEN /\ LET context == Agreed(pc[r], 1, parent)
                      IN  commCreate(r, pc[r],
                                     Intra(g, context, DEFAULT_ATTRIBUTES_COUNT,
                                           MCC(r, members, context)))
                   /\ group' = [group EXCEPT ![r] = NewRef(@, g)]
              ELSE UNCHANGED <<comm, nr, group>>
  /\ Done(r)
  /\ UNCHANGED <<machine, program, bids, brought, handle>>

(* The sort of MPI_Comm_split: entry i is exchanged with every later one   *)
(* that is smaller than what stands at i by then.                          *)
UNDEFINED == -32766
Exchange(s, key, i, j) ==
  IF key[s[i]] > key[s[j]] THEN [s EXCEPT ![i] = s[j], ![j] = s[i]] ELSE s

Pass(s, key, i) ==
  LET upTo[j \in i .. Len(s)] ==
        IF j = i THEN s ELSE Exchange(upTo[j - 1], key, i, j)
  IN  upTo[Len(s)]

SortedByKey(s, key) ==
  LET upTo[i \in 0 .. Len(s)] == IF i = 0 THEN s ELSE Pass(upTo[i - 1], key, i)
  IN  upTo[Len(s)]

SplitBy(r, colour, key) ==
  /\ NBids(r, pc[r]) = 1
  /\ LET parent == Locals(r, Call(r).on)
         mine   == Chosen(parent, {p \in Members(parent) : colour[p] = colour[r]})
         new    == <<pc[r], "split">>
     IN  /\ AllBid(pc[r], 1, Members(parent))
         /\ IF colour[r] # UNDEFINED
            THEN LET context == Agreed(pc[r], 1, Members(parent))
                     members == SortedByKey(mine, key)
                 IN  /\ group' = [group EXCEPT ![r] = groupCreate(@, new, members)]
                     /\ commCreate(r, pc[r], Intra(new, context, DEFAULT_ATTRIBUTES_COUNT,
                                                   MCC(r, members, context)))
            ELSE UNCHANGED <<comm, nr, group>>
  /\ Done(r)
  /\ UNCHANGED <<machine, program, bids, brought, handle>>

Split(r) == At(r, "split") /\ SplitBy(r, Call(r).colour, Call(r).key)

(* MPI_Cart_create and MPI_Graph_create with reorder: a split by the rank  *)
(* that the map gives. A rank with no node gets UNDEFINED from the one     *)
(* map and PROC_NULL from the other, so that it stays, and comes first.    *)
NewRank(rank, nnodes, kind) ==
  IF rank < nnodes THEN rank ELSE IF kind = "cart" THEN UNDEFINED ELSE PROC_NULL

ReorderedTopology(r) ==
  /\ At(r, "topo") /\ Call(r).reorder
  /\ LET parent  == Locals(r, Call(r).on)
         newrank == [p \in Members(parent) |->
                       NewRank(groupGetRankInGroup(parent, p), Call(r).nnodes, Call(r).kind)]
     IN  SplitBy(r, [p \in Members(parent) |->
                       IF newrank[p] = UNDEFINED THEN UNDEFINED ELSE 1], newrank)

(* Without reorder: the first ranks, in a group that every rank makes. The *)
(* number of attributes asked for is the rank, and no auxiliary            *)
(* communicators are made.                                                 *)
Topology_create(r) ==
  /\ At(r, "topo") /\ ~Call(r).reorder /\ NBids(r, pc[r]) = 1
  /\ LET c       == comm[r][Call(r).on]
         parent  == Locals(r, Call(r).on)
         all     == Call(r).nnodes = Len(parent)
         members == SubSeq(parent, 1, Call(r).nnodes)
         g       == IF all THEN c.local ELSE <<pc[r], "topo">>
     IN  /\ AllBid(pc[r], 1, Members(parent))
         /\ group' = [group EXCEPT ![r] = IF all THEN NewRef(@, g)
                                                 ELSE groupCreate(@, g, members)]
         /\ IF r \in Members(members)
            THEN commCreate(r, pc[r], Intra(g, Agreed(pc[r], 1, Members(parent)),
                                            groupGetRankInGroup(members, r), {}))
            ELSE UNCHANGED <<comm, nr>>
  /\ Done(r)
  /\ UNCHANGED <<machine, program, bids, brought, handle>>

(* MPI_Intercomm_create: the two leaders, first in their communicators,    *)
(* exchange what their allreduces gave and their members over WORLD. The   *)
(* number of attributes asked for is the caller's rank.                    *)
Intercomm_create(r) ==
  /\ At(r, "icreate") /\ NBids(r, pc[r]) = 1
  /\ LET c      == comm[r][Call(r).on]
         mine   == Locals(r, Call(r).on)
         other  == CHOOSE p \in Call(r).leaders : p # mine[1]
         theirs == brought[other][pc[r]]
         both   == Members(mine) \cup Members(theirs)
         new    == <<pc[r], "remote">>
     IN  /\ AllBid(pc[r], 1, {other}) /\ AllBid(pc[r], 1, both)
         /\ commCreate(r, pc[r], Inter(c.local, new, Agreed(pc[r], 1, both),
                                       groupGetRankInGroup(mine, r)))
         /\ group' = [group EXCEPT ![r] = groupCreate(NewRef(@, c.local), new, theirs)]
  /\ Done(r)
  /\ UNCHANGED <<machine, program, bids, brought, handle>>

(* MPI_Intercomm_merge and MPI_Comm_dup of an intercommunicator, up to the *)
(* second allreduce: the local group gets a temporary communicator, made   *)
(* by a collective over WORLD.                                             *)
Temporary(i) == -1 - i

Localize(r) ==
  /\ NBids(r, pc[r]) = 1
  /\ At(r, "merge") \/ (At(r, "dup") /\ IsInter(r, Call(r).on))
  /\ LET c == comm[r][Call(r).on]
         m == Locals(r, Call(r).on)
     IN  /\ AllBid(pc[r], 1, Ranks)
         /\ LET context == Agreed(pc[r], 1, Ranks)
                temp    == Intra(c.local, context, DEFAULT_ATTRIBUTES_COUNT, MCC(r, m, context))
            IN  /\ commCreate(r, Temporary(pc[r]), temp)
                /\ Bid(r, pc[r], LastContext(temp) + 1)
         /\ group' = [group EXCEPT ![r] = NewRef(@, c.local)]
  /\ UNCHANGED <<machine, program, pc, brought, handle>>

(* Mutant: equal flags are not told apart by the leaders' ranks. *)
FlagOnly(high, remote_high, first, remote_first) == high

(* Whether the local group comes last. *)
FinalHigh(high, remote_high, first, remote_first) ==
  IF high = remote_high THEN first >= remote_first ELSE high

(* The rest of it: the temporary is freed, the references that             *)
(* MPI_Comm_group and MPI_Comm_remote_group took for the union are kept.   *)
Merge(r) ==
  /\ At(r, "merge") /\ NBids(r, pc[r]) = 2
  /\ LET i      == pc[r]
         c      == comm[r][Call(r).on]
         mine   == Locals(r, Call(r).on)
         theirs == Remotes(r, Call(r).on)
         high   == Call(r).high
         last   == FinalHigh(high[r], high[theirs[1]], mine[1], theirs[1])
         union  == IF last THEN MPI_Group_union(theirs, mine)
                           ELSE MPI_Group_union(mine, theirs)
         both   == Members(mine) \cup Members(theirs)
         new    == <<i, "merged">>
     IN  /\ AllBid(i, 2, both)
         /\ comm' = [comm EXCEPT ![r] =
                       With(Without(@, Temporary(i)), i,
                            Intra(new, Agreed(i, 2, both),
                                  groupGetRankInGroup(union.members, r), {}))]
         /\ nr' = [nr EXCEPT ![r] = Agreed(i, 2, both)]
         /\ group' = [group EXCEPT ![r] =
                        groupCreate(groupGetRef(groupGetRef(groupDelete(@, c.local), c.local),
                                                c.remote),
                                    new, union.members)]
  /\ Done(r)
  /\ UNCHANGED <<machine, program, bids, brought, handle>>

(* The rest of the other. commCreateMCC then broadcasts from the first rank*)
(* of each side to the ranks of the other, which works out if all run on   *)
(* one machine and the sides have one size; otherwise the call hangs.      *)
DupInter(r) ==
  /\ At(r, "dup") /\ NBids(r, pc[r]) = 2
  /\ LET i      == pc[r]
         c      == comm[r][Call(r).on]
         mine   == Locals(r, Call(r).on)
         theirs == Remotes(r, Call(r).on)
         both   == Members(mine) \cup Members(theirs)
     IN  /\ AllBid(i, 2, both)
         /\ Cardinality(Range(machine)) = 1 /\ Len(mine) = Len(theirs)
         /\ comm' = [comm EXCEPT ![r] =
                       With(Without(@, Temporary(i)), i,
                            Inter(c.local, c.remote, Agreed(i, 2, both),
                                  DEFAULT_ATTRIBUTES_COUNT))]
         /\ nr' = [nr EXCEPT ![r] = Agreed(i, 2, both)]
         /\ group' = [group EXCEPT ![r] =
                        NewRef(NewRef(groupDelete(@, c.local), c.local), c.remote)]
  /\ Done(r)
  /\ UNCHANGED <<machine, program, bids, brought, handle>>

(* MPI_Comm_free waits for nobody. *)
Free(r) ==
  /\ At(r, "free") /\ Has_comm(r, Call(r).on)
  /\ LET c == comm[r][Call(r).on]
         g == groupDelete(group[r], c.local)
     IN  group' = [group EXCEPT ![r] = IF IsInter(r, Call(r).on) THEN groupDelete(g, c.remote)
                                                                ELSE g]
  /\ comm' = [comm EXCEPT ![r] = Without(@, Call(r).on)]
  /\ Done(r)
  /\ UNCHANGED <<machine, program, bids, brought, nr, handle>>

----------------------------------------------------------------------------
(* Group handles. *)

Hold(r, g) == handle' = [handle EXCEPT ![r] = With(@, pc[r], g)]

(* MPI_Comm_group, MPI_Comm_remote_group. *)
Group(r) ==
  /\ At(r, "group") /\ Has_comm(r, Call(r).on)
  /\ LET c == comm[r][Call(r).on]
         g == IF Call(r).remote THEN c.remote ELSE c.local
     IN  group' = [group EXCEPT ![r] = NewRef(@, g)] /\ Hold(r, g)
  /\ Done(r)
  /\ UNCHANGED <<machine, program, bids, brought, nr, comm>>

(* What an operation on groups hands out becomes an object or a reference. *)
Deliver(r, result, first, second) ==
  LET g == CASE result.from = "new"    -> <<pc[r], "group">>
             [] result.from = "empty"  -> EMPTY
             [] result.from = "first"  -> first
             [] result.from = "second" -> second
  IN  /\ group' = [group EXCEPT ![r] = IF result.from = "new"
                                       THEN groupCreate(@, g, result.members)
                                       ELSE NewRef(@, g)]
      /\ Hold(r, g)

Incl(r) ==
  /\ At(r, "incl") /\ Call(r).on \in DOMAIN handle[r]
  /\ LET g == handle[r][Call(r).on]
         members == group[r][g].members
     IN  Deliver(r, IF Call(r).excl THEN MPI_Group_excl(members, Call(r).ranks)
                                    ELSE MPI_Group_incl(members, Call(r).ranks), g, g)
  /\ Done(r)
  /\ UNCHANGED <<machine, program, bids, brought, nr, comm>>

GroupOp(r) ==
  /\ At(r, "gop") /\ {Call(r).on, Call(r).with} \subseteq DOMAIN handle[r]
  /\ LET g == handle[r][Call(r).on]
         h == handle[r][Call(r).with]
         a == group[r][g].members
         b == group[r][h].members
     IN  Deliver(r, CASE Call(r).kind = "union"        -> MPI_Group_union(a, b)
                      [] Call(r).kind = "intersection" -> MPI_Group_intersection(a, b)
                      [] Call(r).kind = "difference"   -> MPI_Group_difference(a, b), g, h)
  /\ Done(r)
  /\ UNCHANGED <<machine, program, bids, brought, nr, comm>>

GroupFree(r) ==
  /\ At(r, "gfree") /\ Call(r).on \in DOMAIN handle[r]
  /\ group' = [group EXCEPT ![r] = groupDelete(@, handle[r][Call(r).on])]
  /\ handle' = [handle EXCEPT ![r] = Without(@, Call(r).on)]
  /\ Done(r)
  /\ UNCHANGED <<machine, program, bids, brought, nr, comm>>

----------------------------------------------------------------------------
(* common_init: the groups, then WORLD with context 0 and SELF with 5.     *)
World == [i \in 1 .. Procs |-> i - 1]
gWORLD == <<0, "world">>
gSELF  == <<0, "self">>

common_init ==
  /\ group = [r \in Ranks |-> [g \in {gWORLD, EMPTY, gSELF} |->
                [refs |-> 1, members |-> IF g = gWORLD THEN World
                                         ELSE IF g = gSELF THEN <<r>> ELSE <<>>]]]
  /\ comm = [r \in Ranks |-> [c \in {WORLD, SELF} |->
               IF c = WORLD
               THEN Intra(gWORLD, 0, DEFAULT_ATTRIBUTES_COUNT, MCC(r, World, 0))
               ELSE Intra(gSELF, 5, DEFAULT_ATTRIBUTES_COUNT, {})]]
  /\ nr = [r \in Ranks |-> 5]

Init ==
  /\ machine \in Machines
  /\ program \in Programs
  /\ pc = [r \in Ranks |-> 1]
  /\ bids = [r \in Ranks |-> [i \in {} |-> <<>>]]
  /\ brought = [r \in Ranks |-> [i \in {} |-> None]]
  /\ handle = [r \in Ranks |-> [i \in {} |-> None]]
  /\ common_init

Next == \E r \in Ranks :
  \/ Propose(r) \/ Skip(r) \/ Dup(r) \/ Create(r) \/ Split(r) \/ ReorderedTopology(r)
  \/ Topology_create(r) \/ Intercomm_create(r)
  \/ Localize(r) \/ Merge(r) \/ DupInter(r) \/ Free(r) \/ Group(r) \/ Incl(r) \/ GroupOp(r)
  \/ GroupFree(r)

Spec == Init /\ [][Next]_mvars

----------------------------------------------------------------------------
(* Properties. *)

Contexts(c) == {c.context} \cup c.mcc

(* A rank never has two communicators, auxiliary ones included, with the   *)
(* same context: messages of one would match receives of the other.        *)
ContextsApart ==
  \A r \in Ranks : \A c, d \in DOMAIN comm[r] :
    c # d => Contexts(comm[r][c]) \cap Contexts(comm[r][d]) = {}

(* The members of a communicator agree on its context and on the ranks of  *)
(* its members, and the two sides of an intercommunicator on each other.   *)
MembersAgree ==
  \A r, q \in Ranks : \A i \in (DOMAIN comm[r] \cap DOMAIN comm[q]) \ {SELF} :
    LET c == comm[r][i]  d == comm[q][i]
    IN  /\ q \in Members(Locals(r, i)) =>
             /\ c.context = d.context
             /\ Locals(r, i) = Locals(q, i) /\ Remotes(r, i) = Remotes(q, i)
        /\ (IsInter(r, i) /\ q \in Members(Remotes(r, i))) =>
             /\ c.context = d.context
             /\ Locals(r, i) = Remotes(q, i) /\ Remotes(r, i) = Locals(q, i)

(* The groups of the communicators and the handles of a rank exist, with   *)
(* no fewer references than there are users.                               *)
Users(r, g) ==
  Cardinality({c \in DOMAIN comm[r] : comm[r][c].local = g})
  + Cardinality({c \in DOMAIN comm[r] : IsInter(r, c) /\ comm[r][c].remote = g})
  + Cardinality({i \in DOMAIN handle[r] : handle[r][i] = g})

Backed(r, g) == g \in DOMAIN group[r] /\ group[r][g].refs >= Users(r, g)

NoDangling ==
  \A r \in Ranks :
    /\ \A c \in DOMAIN comm[r] : Backed(r, comm[r][c].local) /\ Backed(r, comm[r][c].remote)
    /\ \A i \in DOMAIN handle[r] : Backed(r, handle[r][i])

(* What a rank keeps of its communicators is consistent. *)
CommsSound == ContextsApart /\ NoDangling

(* MPI wants of a program that the group of MPI_Comm_create has members,   *)
(* all of them in the communicator, that a topology has no more nodes, and *)
(* that the ranks it names are ranks of the group.                         *)
WellCalled ==
  \A r \in Ranks : pc[r] <= Len(program) =>
    /\ Has_comm(r, Call(r).on) =>
         LET parent == Locals(r, Call(r).on)
         IN  /\ At(r, "create") =>
                  /\ Call(r).group \in DOMAIN handle[r]
                  /\ group[r][handle[r][Call(r).group]].members \in Seq(Members(parent)) \ {<<>>}
             /\ At(r, "topo") => Call(r).nnodes <= Len(parent)
    /\ (At(r, "incl") /\ Call(r).on \in DOMAIN handle[r]) =>
         Range(Call(r).ranks) \subseteq Index(group[r][handle[r][Call(r).on]].members)
=============================================================================
