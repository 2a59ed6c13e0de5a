------------------------------ MODULE Topology ------------------------------
(***************************************************************************)
(* Process topologies (topol/, the topology part of p_comn.c): the numbers *)
(* of a grid's ranks, shifts, sub-grids, graphs, and the division of a     *)
(* number of nodes into dimensions. A rank keeps only its own position.    *)
(***************************************************************************)
EXTENDS CArith, Sequences, SequencesExt, FiniteSetsExt, Functions

CONSTANTS Grids,       (* sets of grids [dims |-> ..., periods |-> ...]    *)
          Displacements,
          Graphs,      (* [index |-> ..., edges |-> ...]                   *)
          Divisions    (* <<nnodes, dims>>, 0 for a dimension left open    *)

VARIABLE sample        \* the grid, graph or division that is looked at

PROC_NULL == -1
UNDEFINED == -32766

Product(s) == FoldLeft(LAMBDA a, b : a * b, 1, s)

----------------------------------------------------------------------------
(* Grids. Dimension i of the code is number i + 1 here.                    *)

Ndims(g) == Len(g.dims)
Nnodes(g) == Product(g.dims)

(* What is left of r after the dimensions behind i have been divided out.  *)
Above(g, r, i) == r \div Product(SubSeq(g.dims, i + 1, Ndims(g)))

(* commCartCreate gives the caller its position, commCartGetCoords computes*)
(* that of any other rank in the same way.                                 *)
Position(g, rank) == [i \in 1 .. Ndims(g) |-> CMod(Above(g, rank, i), g.dims[i])]
commCartGetCoords(g, rank) == Position(g, rank)

(* A coordinate of a periodic dimension is brought into its range. *)
Wrapped(coord, dim) ==
  IF coord >= dim THEN CMod(coord, dim)
  ELSE IF coord < 0 THEN LET c == CMod(coord, dim) IN IF c # 0 THEN dim + c ELSE c
  ELSE coord

(* Mutant: negative coordinates are not brought into the range. *)
GetRankFromAbove(g, coords) ==
  FoldLeft(LAMBDA rank, i : rank * g.dims[i] +
             IF g.periods[i] /\ coords[i] >= g.dims[i] THEN CMod(coords[i], g.dims[i])
                                                       ELSE coords[i],
           0, [i \in 1 .. Ndims(g) |-> i])

commCartGetRank(g, coords) ==
  FoldLeft(LAMBDA rank, i : rank * g.dims[i] +
             IF g.periods[i] THEN Wrapped(coords[i], g.dims[i]) ELSE coords[i],
           0, [i \in 1 .. Ndims(g) |-> i])

OffEdge(g, d, coord) == ~g.periods[d] /\ (coord >= g.dims[d] \/ coord < 0)

Neighbour(g, pos, d, coord) ==
  IF OffEdge(g, d, coord) THEN PROC_NULL ELSE commCartGetRank(g, [pos EXCEPT ![d] = coord])

(* Source and destination of a shift along dimension d. *)
commCartShift(g, rank, d, disp) ==
  LET pos == Position(g, rank)
  IN  IF disp = 0 THEN [src |-> rank, dst |-> rank]
      ELSE [src |-> Neighbour(g, pos, d, pos[d] - disp),
            dst |-> Neighbour(g, pos, d, pos[d] + disp)]

(* The rank the caller has in a grid that is made with reordering. *)
commCartMap(g, size, rank) == IF rank < Nnodes(g) THEN rank ELSE UNDEFINED

(* MPI_Cart_sub: the split by the coordinates that go, ordered by those    *)
(* that stay, and the position a rank gets in its part.                    *)
Digits(g, coords, dims) ==
  FoldLeft(LAMBDA a, i : a * g.dims[i] + coords[i], 0,
           SetToSortSeq(dims, <))

(* Mutant: every coordinate counts for the colour. *)
ColourOfAll(g, rank, remain) == Digits(g, Position(g, rank), 1 .. Ndims(g))

SubColour(g, rank, remain) == Digits(g, Position(g, rank), (1 .. Ndims(g)) \ remain)
SubKey(g, rank, remain)    == Digits(g, Position(g, rank), remain)

SubMembers(g, rank, remain) ==
  SortSeq(SelectSeq([i \in 1 .. Nnodes(g) |-> i - 1],
                    LAMBDA q : SubColour(g, q, remain) = SubColour(g, rank, remain)),
          LAMBDA p, q : SubKey(g, p, remain) < SubKey(g, q, remain))

Remaining(s, remain) == LET at == SetToSortSeq(remain, <) IN [j \in DOMAIN at |-> s[at[j]]]

SubGrid(g, remain) ==
  [dims |-> Remaining(g.dims, remain), periods |-> Remaining(g.periods, remain)]

MPI_Cart_sub(g, rank, remain) ==
  [members |-> SubMembers(g, rank, remain), grid |-> SubGrid(g, remain),
   position |-> Position(SubGrid(g, remain),
                         SelectInSeq(SubMembers(g, rank, remain), LAMBDA q : q = rank) - 1)]

----------------------------------------------------------------------------
(* Graphs: index[i] is the number of edges of nodes 0 to i - 1 of the code.*)

commGraphGetDim(graph) == <<Len(graph.index), graph.index[Len(graph.index)]>>

(* Mutant: the first node's edges are also counted for the second. *)
StartOfFirst(graph, rank) == IF rank <= 1 THEN 0 ELSE graph.index[rank]

FirstEdge(graph, rank) == IF rank = 0 THEN 0 ELSE graph.index[rank]

commGraphNborsCnt(graph, rank) == graph.index[rank + 1] - FirstEdge(graph, rank)
commGraphNbors(graph, rank) ==
  SubSeq(graph.edges, FirstEdge(graph, rank) + 1, graph.index[rank + 1])

(* The key of a rank in a graph that is made with reordering. *)
commGraphMap(graph, rank) == IF rank < Len(graph.index) THEN rank ELSE PROC_NULL

----------------------------------------------------------------------------
(* MPI_Dims_create. *)

Primes == <<2, 3, 5, 7, 11, 13, 17, 19, 23, 29, 31, 37, 41, 43, 47, 53, 59, 61, 67, 71>>

BitLength(n) == CHOOSE b \in 0 .. 31 : 2 ^ b > n /\ (b = 0 \/ 2 ^ (b - 1) <= n)
Root(n)      == 2 ^ (BitLength(n) \div 2)

Multiplicity(n, p) ==
  LET in[m \in 1 .. n] == IF m % p # 0 THEN 0 ELSE 1 + in[m \div p] IN in[n]

(* The primes that are tried: down from the first above the root.          *)
Tried(n) == LET above == SelectInSeq(Primes, LAMBDA p : p > Root(n))
            IN  Reverse(SubSeq(Primes, 1, above))

(* Factors with their multiplicities, and what the primes leave of n.      *)
Factors(n, primes) ==
  SelectSeq([i \in DOMAIN primes |-> [val |-> primes[i], cnt |-> Multiplicity(n, primes[i])]],
            LAMBDA f : f.cnt > 0)
WithRest(with, rest) ==
  IF rest > 1 THEN Append(with, [val |-> rest, cnt |-> 1]) ELSE with
Complete(n, with) ==
  IF with = <<>> THEN <<[val |-> n, cnt |-> 1]>>
  ELSE WithRest(with, n \div Product([i \in DOMAIN with |-> with[i].val ^ with[i].cnt]))
factor(n) == Complete(n, Factors(n, Tried(n)))

ndivisors(factors) == SumFunction([i \in DOMAIN factors |-> factors[i].cnt])

(* Mutant: a factor is placed once, whatever its multiplicity. *)
OncePerFactor(factors) == [i \in DOMAIN factors |-> factors[i].val]

(* Each factor as often as it occurs. *)
Placed(factors) ==
  FlattenSeq([j \in DOMAIN factors |-> [k \in 1 .. factors[j].cnt |-> factors[j].val]])

(* The place i of the next factor moves to the least entry, found at iMin, *)
(* if the value at i is greater than the index iMin.                       *)
chooseFactors(factors, needed) ==
  LET Least(chosen) == CHOOSE m \in 1 .. needed :
                         /\ \A k \in 1 .. needed : chosen[m] <= chosen[k]
                         /\ \A k \in 1 .. m - 1 : chosen[k] > chosen[m]
      Place(st, val) ==
        LET iMin == Least(st.chosen)
            at   == IF st.chosen[st.i] > iMin - 1 THEN iMin ELSE st.i
        IN  [chosen |-> [k \in 1 .. needed |-> (IF k = at THEN val ELSE 1) * st.chosen[k]],
             i |-> IF at = needed THEN 1 ELSE at + 1]
      end == FoldLeft(Place, [chosen |-> [k \in 1 .. needed |-> 1], i |-> 1], Placed(factors))
  IN  SortSeq(end.chosen, LAMBDA a, b : a > b)

(* A power of one prime: as many factors to each dimension as it takes.    *)
Powers(val, cnt, needed) ==
  LET each == (cnt + needed - 1) \div needed
  IN  [k \in 1 .. needed |->
         LET left == cnt - (k - 1) * each
         IN  IF left > each THEN val ^ each ELSE IF left > 0 THEN val ^ left ELSE 1]

Open(dims)  == SetToSortSeq({i \in DOMAIN dims : dims[i] = 0}, <)
Given(dims) == Product([i \in DOMAIN dims |-> IF dims[i] = 0 THEN 1 ELSE dims[i]])

Chosen(factors, needed) ==
  IF ndivisors(factors) > needed /\ Len(factors) = 1
  THEN Powers(factors[1].val, factors[1].cnt, needed)
  ELSE chooseFactors(factors, needed)

Filled(dims, open, chosen) ==
  [i \in DOMAIN dims |->
     IF dims[i] = 0 THEN chosen[SelectInSeq(open, LAMBDA k : k = i)] ELSE dims[i]]

(* MPI_ERR_DIMS is the empty sequence. *)
MPI_Dims_create(nnodes, dims) ==
  IF nnodes % Given(dims) # 0 THEN <<>>
  ELSE IF Open(dims) = <<>> THEN dims
  ELSE Filled(dims, Open(dims),
              Chosen(factor(nnodes \div Given(dims)), Len(Open(dims))))

----------------------------------------------------------------------------
Init ==
  \/ \E g \in Grids : sample = [grid |-> g]
  \/ \E g \in Graphs : sample = [graph |-> g]
  \/ \E d \in Divisions : sample = [nnodes |-> d[1], dims |-> d[2]]

IsGrid     == "grid" \in DOMAIN sample
IsGraph    == "graph" \in DOMAIN sample
IsDivision == "nnodes" \in DOMAIN sample

(* Properties. *)

(* Ranks and coordinates name each other, and a coordinate may be off by   *)
(* any number of turns in a periodic dimension (MPI_Cart_rank).            *)
CoordsNameRanks ==
  IsGrid =>
    LET g == sample.grid
    IN  \A rank \in 0 .. Nnodes(g) - 1 :
          LET pos == commCartGetCoords(g, rank)
          IN  /\ commCartGetRank(g, pos) = rank
              /\ \A d \in 1 .. Ndims(g), turns \in -2 .. 2 :
                   g.periods[d] =>
                     commCartGetRank(g, [pos EXCEPT ![d] = @ + turns * g.dims[d]]) = rank

(* Shifts match: the rank a shift receives from sends to the caller, so    *)
(* that a Sendrecv along the shift finds its partner (MPI_Cart_shift).     *)
ShiftsMatch ==
  IsGrid =>
    LET g == sample.grid
    IN  \A rank \in 0 .. Nnodes(g) - 1, d \in 1 .. Ndims(g), disp \in Displacements :
          LET me == commCartShift(g, rank, d, disp)
          IN  /\ me.src # PROC_NULL => commCartShift(g, me.src, d, disp).dst = rank
              /\ me.dst # PROC_NULL => commCartShift(g, me.dst, d, disp).src = rank

(* In its part of a grid a rank has the coordinates that remain, and the   *)
(* part holds just the ranks that agree with it on the others.             *)
SubKeepsCoords ==
  IsGrid =>
    LET g == sample.grid
    IN  \A rank \in 0 .. Nnodes(g) - 1, remain \in SUBSET (1 .. Ndims(g)) :
          LET sub == MPI_Cart_sub(g, rank, remain)
          IN  /\ sub.position = Remaining(Position(g, rank), remain)
              /\ Len(sub.members) = Nnodes(sub.grid)
              /\ \A q \in Range(sub.members), d \in (1 .. Ndims(g)) \ remain :
                   Position(g, q)[d] = Position(g, rank)[d]

(* The neighbours of all nodes together are the edges, each once.          *)
NeighboursAreEdges ==
  IsGraph =>
    LET graph == sample.graph
        n     == commGraphGetDim(graph)[1]
    IN  /\ FlattenSeq([k \in 1 .. n |-> commGraphNbors(graph, k - 1)]) = graph.edges
        /\ \A r \in 0 .. n - 1 : commGraphNborsCnt(graph, r) = Len(commGraphNbors(graph, r))

(* What is promised of the dimensions found. *)
Fits(nnodes, dims, found) ==
  (found # <<>> /\ Open(dims) # <<>>) =>
    /\ Product(found) = nnodes
    /\ \A i \in DOMAIN dims : dims[i] # 0 => found[i] = dims[i]
    /\ \A i, j \in Range(Open(dims)) : i < j => found[i] >= found[j]

(* The dimensions multiply to the nodes, those given stay, and those found *)
(* do not increase ("The MPI spec requires ...", mpi_dims_create.c).       *)
DimsFit ==
  IsDivision =>
    Fits(sample.nnodes, sample.dims, MPI_Dims_create(sample.nnodes, sample.dims))
=============================================================================
