------------------------------ MODULE GroupLaws ------------------------------
(***************************************************************************)
(* The operations on groups against the definitions of sets and orders     *)
(* that MPI gives them, for every pair of small groups.                    *)
(***************************************************************************)
EXTENDS MpiGroups

CONSTANTS Global,    (* global ranks  *)
          Ranges     (* vectors of ranges <<first, last, stride>> *)

VARIABLE sample

Orders(S) == {s \in [1 .. Cardinality(S) -> S] : IsInjective(s)}
Groups    == UNION {Orders(S) : S \in SUBSET Global}

Init == \/ \E g, h \in Groups : sample = [kind |-> "pair", g |-> g, h |-> h]
        \/ \E g \in Groups, r \in Ranges : sample = [kind |-> "ranges", g |-> g, r |-> r]

Spec == Init /\ [][UNCHANGED sample]_sample

(* The members of g that are, or are not, in h, in the order of g. *)
Common(g, h) == SelectSeq(g, LAMBDA p : p \in Range(h))
Rest(g, h)   == SelectSeq(g, LAMBDA p : p \notin Range(h))

(* Union, intersection and difference give the members MPI says in the     *)
(* order of the first group, with the second's after them, comparison is   *)
(* equality of sequences and of sets, and translation there and back gives *)
(* the rank again exactly for the members of both.                         *)
GroupAlgebra ==
  sample.kind = "pair" =>
    LET g == sample.g  h == sample.h
        there == MPI_Group_translate_ranks(g, [i \in DOMAIN g |-> i - 1], h)
    IN  /\ MPI_Group_union(g, h).members = g \o Rest(h, g)
        /\ MPI_Group_intersection(g, h).members = Common(g, h)
        /\ MPI_Group_difference(g, h).members = Rest(g, h)
        /\ (MPI_Group_compare(g, h) = IDENT) <=> (g = h)
        /\ (MPI_Group_compare(g, h) = UNEQUAL) <=> (Range(g) # Range(h))
        /\ \A i \in DOMAIN g : IF g[i] \in Range(h) THEN h[there[i] + 1] = g[i]
                                                    ELSE there[i] = PROC_NULL

(* A group made from ranges that the checks accept announces as many       *)
(* members as it gets, and inclusion and exclusion complement each other.  *)
RangesExact ==
  (sample.kind = "ranges" /\ check_valid_ranges(sample.g, sample.r)) =>
    LET in  == MPI_Group_range_incl(sample.g, sample.r)
        out == MPI_Group_range_excl(sample.g, sample.r)
    IN  /\ in.size = Len(in.members) /\ out.size = Len(out.members)
        /\ Range(in.members) = Range(sample.g) \ Range(out.members)
=============================================================================
