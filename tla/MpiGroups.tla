------------------------------ MODULE MpiGroups ------------------------------
(* Groups of MPI (p_group.c, group/). A group is the sequence of the global *)
(* ranks of its members; ranks in the group count from 0.                  *)
EXTENDS CArith, Sequences, SequencesExt, FiniteSetsExt, Functions

PROC_NULL == -1
UNEQUAL == "unequal"
SIMILAR == "similar"
IDENT   == "ident"

Members(g) == Range(g)
Index(g)   == 0 .. Len(g) - 1
groupGetGlobalRank(g, i) == g[i + 1]

(* The first index of p, or PROC_NULL. *)
groupGetRankInGroup(g, p) == SelectInSeq(g, LAMBDA q : q = p) - 1

Has(g, p) == groupGetRankInGroup(g, p) >= 0

(* What an operation hands out: a new object with these members, announced *)
(* with a size of its own, or one more reference to a group it was given.  *)
NewGroup(announced, members) == [from |-> "new", size |-> announced, members |-> members]
RefTo(which, members) == [from |-> which, size |-> Len(members), members |-> members]
GROUP_EMPTY == RefTo("empty", <<>>)

(* The members of g at the positions in S, in their order. *)
MembersAt(g, S) ==
  LET upTo[i \in 0 .. Len(g)] ==
        IF i = 0 THEN <<>>
        ELSE IF i - 1 \in S THEN Append(upTo[i - 1], groupGetGlobalRank(g, i - 1))
        ELSE upTo[i - 1]
  IN  upTo[Len(g)]

(* The members of g that are in S. *)
Chosen(g, S) == MembersAt(g, {i \in Index(g) : groupGetGlobalRank(g, i) \in S})

InBoth(g, h) == Chosen(g, {p \in Members(g) : Has(h, p)})
NotIn(g, h) == Chosen(g, {p \in Members(g) : ~Has(h, p)})

MPI_Group_compare(g, h) ==
  IF Len(g) # Len(h) THEN UNEQUAL
  ELSE IF g = h THEN IDENT
  ELSE IF \A p \in Members(g) : Has(h, p) THEN SIMILAR ELSE UNEQUAL

(* Mutant: the second group's order wins.                                  *)
UnionSwapped(g, h) ==
  IF g = <<>> /\ h = <<>> THEN GROUP_EMPTY
  ELSE IF g = <<>> THEN RefTo("second", h)
  ELSE IF h = <<>> THEN RefTo("first", g)
  ELSE LET new == NotIn(g, h)
       IN NewGroup(Len(new) + Len(h), h \o new)

MPI_Group_union(g, h) ==
  IF g = <<>> /\ h = <<>> THEN GROUP_EMPTY
  ELSE IF g = <<>> THEN RefTo("second", h)
  ELSE IF h = <<>> THEN RefTo("first", g)
  ELSE LET new == NotIn(h, g)
       IN NewGroup(Len(g) + Len(new), g \o new)

MPI_Group_intersection(g, h) ==
  IF g = <<>> \/ h = <<>> THEN GROUP_EMPTY
  ELSE IF MPI_Group_compare(g, h) # UNEQUAL THEN RefTo("first", g)
  ELSE LET common == InBoth(g, h)
       IN NewGroup(Len(common), common)

MPI_Group_difference(g, h) ==
  IF g = <<>> THEN GROUP_EMPTY
  ELSE IF h = <<>> THEN RefTo("first", g)
  ELSE IF MPI_Group_compare(g, h) # UNEQUAL THEN GROUP_EMPTY
  ELSE LET rest == NotIn(g, h)
       IN NewGroup(Len(rest), rest)

MPI_Group_incl(g, ranks) ==
  IF ranks = <<>> THEN GROUP_EMPTY
  ELSE NewGroup(Len(ranks), [i \in DOMAIN ranks |-> groupGetGlobalRank(g, ranks[i])])

MPI_Group_excl(g, ranks) ==
  IF ranks = <<>> THEN RefTo("first", g)
  ELSE NewGroup(Len(g) - Len(ranks), MembersAt(g, Index(g) \ Range(ranks)))

MPI_Group_translate_ranks(g, ranks, h) ==
  [i \in DOMAIN ranks |-> groupGetRankInGroup(h, groupGetGlobalRank(g, ranks[i]))]

--------------------------------------------------------------------------------
(* Ranges <<first, last, stride>>.                                         *)

(* What the loop over a range visits, in order. It stays within a group of *)
(* size n if check_valid_ranges accepts the range.                         *)
Visited(range, n) ==
  LET first == range[1]  last == range[2]  stride == range[3]
      steps == {k \in 0 .. n : IF stride > 0 THEN first + k * stride <= last
                                             ELSE first + k * stride >= last}
  IN [k \in 1 .. Cardinality(steps) |-> first + (k - 1) * stride]

(* Mutant: the last rank of a range is not counted.                        *)
RangeSizeOpen(range) == CDiv(range[2] - range[1], range[3])

(* How many ranks the functions allot to a range.                          *)
RangeSize(range) == 1 + CDiv(range[2] - range[1], range[3])

RangesSize(ranges) == SumFunction([i \in DOMAIN ranges |-> RangeSize(ranges[i])])

AllVisited(ranges, n) == FlattenSeq([i \in DOMAIN ranges |-> Visited(ranges[i], n)])

MPI_Group_range_incl(g, ranges) ==
  IF RangesSize(ranges) = 0 THEN GROUP_EMPTY
  ELSE LET at == AllVisited(ranges, Len(g))
       IN NewGroup(RangesSize(ranges), [k \in DOMAIN at |-> groupGetGlobalRank(g, at[k])])

MPI_Group_range_excl(g, ranges) ==
  LET flagged == Range(AllVisited(ranges, Len(g)))
  IN IF Len(g) = RangesSize(ranges) THEN GROUP_EMPTY
     ELSE NewGroup(Len(g) - RangesSize(ranges), MembersAt(g, Index(g) \ flagged))

--------------------------------------------------------------------------------
(* The argument checks of check.c. Negative ranks pass the first.          *)

check_valid_ranks(g, ranks) ==
  /\ \A i \in DOMAIN ranks : ranks[i] < Len(g)
  /\ IsInjective(ranks)

check_valid_range(g, range) ==
  LET first == range[1]  last == range[2]  stride == range[3]
  IN /\ first \in Index(g)
     /\ stride # 0
     /\ last >= 0
     /\ first + stride * CDiv(last - first, stride) < Len(g)
     /\ stride > 0 => first <= last
     /\ stride < 0 => first >= last

check_valid_ranges(g, ranges) ==
  /\ \A i \in DOMAIN ranges : check_valid_range(g, ranges[i])
  /\ IsInjective(AllVisited(ranges, Len(g)))
=============================================================================
