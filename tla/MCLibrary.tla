----------------------------- MODULE MCLibrary -----------------------------
(* Instances for TLC of the parts of the library that do not wait for one  *)
(* another.  The initial state chooses the part that runs; the others stay *)
(* as they start.  Four parts are pure: what they compute is looked at in  *)
(* the initial states, for every sample.                                   *)
EXTENDS Communicators, BufferedSends, FiniteSets, TLC

CONSTANTS comm1, comm2, comm3         \* model values: three communicators

VARIABLES
  part,                               \* the part that runs
  sample,                             \* what a pure part is applied to
  table, func_cnt, args, record, started, wait, byte, latest, active,
  reported,                           \* of Hook
  t, map,                             \* of HashTable
  items, counts, handler, owned, new, \* of ErrHandlers
  refs, made, created, held, attr,    \* of Attributes
  dtypes, handles,                    \* of DatatypeTable
  rqsts, obj, request, open,          \* of Requests
  stack, level, chk, ran, ret, checks, given, fate    \* of EntryPoints

hookVars == <<table, func_cnt, args, record, started, wait, byte, latest, active, reported>>

(* One rank that makes four calls with two request variables. *)
Hooked == INSTANCE Hook WITH
  Procs <- 1, Comms <- {<<0>>}, Vars <- {8, 13}, Owner <- (8 :> 0) @@ (13 :> 0),
  Bytes <- {0, 1}, TableSize <- 4, MaxCalls <- 4

(* Addresses that collide, more of them than the table holds at first. *)
Table == INSTANCE HashTable WITH
  Keys <- {<<0, 0>>, <<0, 1>>, <<5, 0>>, <<10, 0>>, <<6, 0>>}, Data <- {1, 2}, InitSize <- 4

Handlers == INSTANCE ErrHandlers WITH
  Prealloc <- 1, Block <- 2, MaxBlocks <- 3, MaxMade <- 4,
  Comms <- {comm1, comm2, comm3}, World <- comm1,
  table <- items, refs <- counts, held <- owned, made <- new

Keyvals == INSTANCE Attributes WITH
  KeyCount <- 3, Defaults <- 1, Comms <- {comm1, comm2, comm3}, World <- comm1, MaxKeys <- 4

(* Datatypes of datatypes of basic ones: the third level goes wrong. *)
Types == INSTANCE DatatypeTable WITH Ids <- {"a", "b", "c", "e"}, MaxDepth <- 2

(* A program that forgets completed requests and frees only inactive ones. *)
Rqsts == INSTANCE Requests WITH
  Slots <- 1 .. 3, ClearsHandles <- TRUE, FreesActive <- FALSE,
  Prealloc <- 2, Block <- 2, MaxBlocks <- 2, table <- rqsts, handle <- request

Scripts == INSTANCE EntryScripts

(* Every function of the interface, called with one flaw or with none.     *)
(* Inside the first five functions named a failure leaves the count of     *)
(* nested calls wrong: they do not fail here.  The last one only repeats   *)
(* calls that others make.                                                 *)
Calls == INSTANCE EntryPoints WITH
  Calls <- Scripts!Interface, CheckModes <- BOOLEAN,
  Sturdy <- {"MPI_Cart_sub", "MPI_Group_difference", "MPI_Group_intersection", "copyData",
             "MPI_Pack_size", "MPI_Intercomm_merge"}

(* Every two groups of four processes, and ranges of either direction. *)
Laws == INSTANCE GroupLaws WITH
  Global <- {3, 5, 6, 8},
  Ranges <- {<<<<first, last, stride>>>> : first \in 0 .. 3, last \in 0 .. 3,
                                           stride \in {-3, -2, -1, 1, 2, 3}}
            \cup {<<>>, <<<<0, 1, 1>>, <<3, 2, -1>>>>, <<<<0, 2, 2>>, <<1, 1, 1>>>>}

Dims  == {<<4>>, <<3, 2>>, <<2, 1, 3>>, <<1>>}
Grids == UNION {{[dims |-> m, periods |-> p] : p \in [DOMAIN m -> BOOLEAN]} : m \in Dims}

Shapes == INSTANCE Topology WITH
  Grids <- Grids,
  Graphs <- {[index |-> <<2, 3, 4, 6>>, edges |-> <<1, 3, 0, 3, 0, 2>>],
             [index |-> <<0, 1, 1>>, edges |-> <<2>>]},
  Displacements <- {-5, -1, 0, 1, 2, 3},
  Divisions <- (1 .. 36) \X {<<0>>, <<0, 0>>, <<0, 0, 0>>, <<2, 0>>, <<0, 3, 0>>, <<2, 3>>}

Operations == INSTANCE Collops WITH Width <- 2, Locations <- 0 .. 2

Layouts == INSTANCE Datatypes

----------------------------------------------------------------------------
(* Programs for Communicators: the calls four ranks make one after another.*)
Dup_(c)          == [op |-> "dup", on |-> c]
Create_(c, g)    == [op |-> "create", on |-> c, group |-> g]
Split_(c, co, k) == [op |-> "split", on |-> c, colour |-> co, key |-> k]
Icreate_(c, l)   == [op |-> "icreate", on |-> c, leaders |-> l]
Topo_(c, n, k, re) == [op |-> "topo", on |-> c, nnodes |-> n, kind |-> k, reorder |-> re]
Merge_(c, h)     == [op |-> "merge", on |-> c, high |-> h]
Free_(c)         == [op |-> "free", on |-> c]
Group_(c)        == [op |-> "group", on |-> c, remote |-> FALSE]
Remote_(c)       == [op |-> "group", on |-> c, remote |-> TRUE]
Incl_(h, ranks)  == [op |-> "incl", on |-> h, ranks |-> ranks, excl |-> FALSE]
Excl_(h, ranks)  == [op |-> "incl", on |-> h, ranks |-> ranks, excl |-> TRUE]
Gop_(k, g, h)    == [op |-> "gop", on |-> g, with |-> h, kind |-> k]
Gfree_(h)        == [op |-> "gfree", on |-> h]

ByHalf  == Split_(WORLD, [r \in Ranks |-> r \div 2], [r \in Ranks |-> -r])
Some    == Split_(WORLD, [r \in Ranks |-> IF r = 0 THEN UNDEFINED ELSE 1], [r \in Ranks |-> r])
Same    == [r \in Ranks |-> FALSE]
Differs == [r \in Ranks |-> r < 2]

(* Duplicates, splits with and without everybody, intercommunicators that  *)
(* are merged in either order, groups and what is made from them, and      *)
(* topologies, with frees in between.                                      *)
SomePrograms == {
  <<Dup_(WORLD), Some, Dup_(2), Dup_(WORLD), Free_(1), Dup_(2)>>,
  <<ByHalf, Dup_(1), Free_(1), Dup_(WORLD)>>,
  <<ByHalf, Icreate_(1, {1, 3}), Dup_(2), Free_(1), Free_(2), Merge_(3, Same)>>,
  <<ByHalf, Icreate_(1, {1, 3}), Merge_(2, Differs), Dup_(3), Remote_(2), Free_(2), Gfree_(5)>>,
  <<Group_(WORLD), Excl_(1, <<0>>), Incl_(1, <<2, 1, 0>>), Gop_("intersection", 2, 3),
    Gfree_(3), Gop_("union", 2, 4), Gop_("difference", 1, 2), Create_(WORLD, 4), Gfree_(4), Dup_(8)>>,
  <<Some, Group_(1), Create_(1, 2), Gfree_(2), Free_(1), Dup_(3)>>,
  <<Topo_(WORLD, 3, "cart", FALSE), Topo_(WORLD, 4, "graph", FALSE), Topo_(1, 2, "cart", TRUE),
    Free_(1), Topo_(WORLD, 3, "graph", TRUE), Dup_(5)>>
}

(* All on one machine, two and two, and ranks 0, 1 and 3 against 2. *)
SomeMachines == {[r \in Ranks |-> 0], [r \in Ranks |-> r \div 2], [r \in Ranks |-> (r % 3) \div 2]}

----------------------------------------------------------------------------
(* Samples for Datatypes: what the constructors make of a byte and a word, *)
(* with gaps, overlaps and bounds, and of three such datatypes.            *)
Byte == Layouts!dtypeCreateDefault(1)
Word == Layouts!dtypeCreateDefault(2)
Words(S) == {x \in S : x.extent = 2}

From(S) ==
  {Layouts!MPI_Type_contiguous(n, ty) : n \in 1 .. 2, ty \in S}
  \cup {Layouts!MPI_Type_vector(n, b, s, ty) : n \in 1 .. 3, b \in 1 .. 2, s \in 1 .. 3, ty \in S}
  \cup {Layouts!MPI_Type_indexed(<<b, c>>, <<d, e>>, ty) :
          b \in 1 .. 2, c \in 1 .. 2, d \in 0 .. 1, e \in 1 .. 3, ty \in S}
  \cup {Layouts!MPI_Type_hindexed(<<b>>, <<d>>, ty) : b \in 1 .. 2, d \in 0 .. 2, ty \in S}

Structs(S) ==
  {Layouts!MPI_Type_struct(<<b, 2>>, <<0, e>>, <<ty, Byte>>) : b \in 1 .. 2, e \in {1, 2, 4}, ty \in S}
  \cup {Layouts!MPI_Type_struct(<<1, 1, 1>>, <<0, 2, e>>, <<ty, Byte, Layouts!UB>>) : e \in {3, 4}, ty \in Words(S)}
  \cup {Layouts!MPI_Type_struct(<<1, 1, 1>>, <<0, 0, 2>>, <<Layouts!LB, ty, Byte>>) : ty \in Words(S)}

Nested == From({Layouts!MPI_Type_vector(2, 1, 2, Byte), Layouts!MPI_Type_contiguous(2, Word),
                Layouts!MPI_Type_struct(<<1, 1, 1>>, <<0, 2, 4>>, <<Word, Byte, Layouts!UB>>)})

SomeSamples == (From({Byte, Word}) \cup Structs({Byte, Word}) \cup Nested) \X {1, 2}

----------------------------------------------------------------------------
Pure  == {"laws", "shapes", "layouts", "operations"}
Parts == {"communicators", "hook", "hash", "errhandlers", "attributes", "dtypes", "bsends",
          "requests", "calls"}

Sampled ==
  CASE part = "laws"       -> Laws!Init
    [] part = "shapes"     -> Shapes!Init
    [] part = "layouts"    -> sample \in SomeSamples
    [] part = "operations" -> Operations!Init
    [] OTHER               -> sample = <<>>

(* The three largest parts are empty while another runs. *)
NoCommunicators ==
  /\ machine = <<>> /\ program = <<>> /\ bids = <<>> /\ brought = <<>> /\ nr = <<>>
  /\ pc = [r \in Ranks |-> 1]
  /\ comm = [r \in Ranks |-> <<>>] /\ group = comm /\ handle = comm

NoHook ==
  /\ table = <<>> /\ func_cnt = <<>> /\ args = <<>> /\ record = <<>> /\ started = {}
  /\ wait = <<>> /\ byte = <<>> /\ latest = <<>> /\ active = {} /\ reported = <<>>

callVars == <<stack, level, chk, ran, ret, checks, given, fate>>

NoCalls ==
  /\ stack = <<>> /\ level = 0 /\ chk = TRUE /\ ran = <<>> /\ ret = "none"
  /\ checks = FALSE /\ given = <<>> /\ fate = "none"

LibraryInit ==
  /\ part \in Parts \cup Pure
  /\ Sampled
  /\ IF part = "communicators" THEN Init ELSE NoCommunicators
  /\ IF part = "hook" THEN Hooked!Init ELSE NoHook
  /\ IF part = "calls" THEN Calls!Init ELSE NoCalls
  /\ Table!Init /\ Handlers!Init /\ Keyvals!Init /\ Types!Init /\ BufferInit /\ Rqsts!Init

(* Only the part chosen takes steps. *)
LibraryNext ==
  /\ part \in Parts
  /\ UNCHANGED <<part, sample>>
  /\ IF part = "communicators" THEN Next ELSE UNCHANGED mvars
  /\ IF part = "hook" THEN Hooked!Next ELSE UNCHANGED hookVars
  /\ IF part = "hash" THEN Table!Next ELSE UNCHANGED <<t, map>>
  /\ IF part = "errhandlers" THEN Handlers!Next ELSE UNCHANGED <<items, counts, handler, owned, new>>
  /\ IF part = "attributes" THEN Keyvals!Next ELSE UNCHANGED <<refs, made, created, held, attr>>
  /\ IF part = "dtypes" THEN Types!Next ELSE UNCHANGED <<dtypes, handles>>
  /\ IF part = "bsends" THEN BufferNext ELSE UNCHANGED bufferVars
  /\ IF part = "requests" THEN Rqsts!Next ELSE UNCHANGED <<rqsts, obj, request, open>>
  /\ IF part = "calls" THEN Calls!Next ELSE UNCHANGED callVars

LibraryVars ==
  <<part, sample, mvars, hookVars, t, map, items, counts, handler, owned, new, refs, made,
    created, held, attr, dtypes, handles, bufferVars, rqsts, obj, request, open,
    callVars>>

LibrarySpec == LibraryInit /\ [][LibraryNext]_LibraryVars
----------------------------------------------------------------------------
(* The properties of the parts, stated in their modules.                   *)

(* p_comn.c: the members of a communicator agree on it; the programs ask   *)
(* for nothing that MPI forbids.                                           *)
MembersStayAgreed == part = "communicators" => MembersAgree /\ WellCalled

(* hook.c: the engine is told to wait for the last operation on a variable,*)
(* and of a waitany where the calls that made its requests are recorded.   *)
RecordExact == part = "hook" => Hooked!WaitsForLatest /\ Hooked!AncestorsExact

(* simple-hash.c: the table is the map of what was entered, through every  *)
(* resize, and a search of it ends.                                        *)
TableSound == part = "hash" => Table!TableIsMap /\ Table!SearchEnds

(* What is shared and counted.  p_errhnd.c: the handler of a communicator  *)
(* exists until nobody has it; p_key.c: a key has the references that its  *)
(* handle and its attributes are, and no attribute outlives its key;       *)
(* p_dtype.c: a datatype the program holds has all its parts.              *)
ObjectsLive ==
  /\ part = "errhandlers" => Handlers!HandlerLives
  /\ part = "attributes" => Keyvals!RefsExact /\ Keyvals!NoStaleAttr
  /\ part = "dtypes" => Types!PartsLive

(* p_rqst.c: an operation that is not complete has a request of its own,   *)
(* and no queue of the engine links a request that is free.                *)
RequestsApart == part = "requests" => Rqsts!HandlesApart /\ Rqsts!QueuedLives

(* mpi_group_*.c: groups against sets and orders.                          *)
GroupsAsOrders == part = "laws" => Laws!GroupAlgebra /\ Laws!RangesExact

(* p_comn.c: ranks and coordinates, shifts, parts of grids, edges;         *)
(* mpi_dims_create.c: the dimensions multiply to the nodes, in order.      *)
TopologiesMatch ==
  part = "shapes" => /\ Shapes!CoordsNameRanks /\ Shapes!ShiftsMatch
                     /\ Shapes!SubKeepsCoords /\ Shapes!NeighboursAreEdges
                     /\ Shapes!DimsFit

(* p_dtype.c: packing carries the bytes of the data, all and only those.   *)
PacksTheData == part = "layouts" => Layouts!PacksAllData /\ Layouts!PacksOnlyData

(* env.h:173, p_comn.c:293, main.c:73: a call leaves the count of nested   *)
(* calls and the explorer's checks as it found them, tells of an error     *)
(* once, and checks no argument through one that may be null.              *)
CallsEndClean ==
  part = "calls" => /\ Calls!LevelKept /\ Calls!ToldOnce
                    /\ Calls!ChecksBackOn /\ Calls!NullUnread

(* p_coll_*.c: the order in which shares are combined does not matter.     *)
OrderFree == part = "operations" => Operations!OrderFree
=============================================================================
