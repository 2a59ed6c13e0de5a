------------------------------- MODULE Collops -------------------------------
(***************************************************************************)
(* The predefined operations of reductions (p_coll_*.c, p_collops.c) on    *)
(* integers of Width bits; the pairs of MAXLOC and MINLOC have a value and *)
(* a location. Each is called with a contribution and an accumulator and   *)
(* gives the new accumulator.                                              *)
(***************************************************************************)
EXTENDS Integers, Bitwise, FiniteSets

CONSTANTS Width, Locations

Modulus == 2 ^ Width
Words   == 0 .. Modulus - 1
Pairs   == [value : Words, loc : Locations]
Signed(a) == IF a >= Modulus \div 2 THEN a - Modulus ELSE a
Bool(p)   == IF p THEN 1 ELSE 0

mpi_sum(a, b)  == (a + b) % Modulus
mpi_prod(a, b) == (a * b) % Modulus
mpi_max(a, b)  == IF Signed(a) > Signed(b) THEN a ELSE b
mpi_min(a, b)  == IF Signed(a) > Signed(b) THEN b ELSE a
mpi_land(a, b) == Bool(a # 0 /\ b # 0)
mpi_lor(a, b)  == Bool(a # 0 \/ b # 0)
mpi_lxor(a, b) == Bool((a # 0 /\ b = 0) \/ (a = 0 /\ b # 0))
mpi_band(a, b) == a & b
mpi_bor(a, b)  == a | b
mpi_bxor(a, b) == a ^^ b

Least(m, n) == IF m > n THEN n ELSE m

(* Mutant: equal values keep the location of the accumulator. *)
KeepLocation(a, b) == IF Signed(a.value) > Signed(b.value) THEN a ELSE b

mpi_maxloc(a, b) ==
  IF a.value = b.value THEN [b EXCEPT !.loc = Least(a.loc, b.loc)]
  ELSE IF Signed(a.value) > Signed(b.value) THEN a ELSE b

mpi_minloc(a, b) ==
  IF a.value = b.value THEN [b EXCEPT !.loc = Least(a.loc, b.loc)]
  ELSE IF Signed(a.value) < Signed(b.value) THEN a ELSE b

(* copsCreateDefault: every one of them is declared commutative. *)
OnPairs        == {"MAXLOC", "MINLOC"}
BasicCopsTable == {"SUM", "MAX", "MIN", "PROD", "LAND", "BAND", "LOR", "BOR", "LXOR",
                   "BXOR"} \cup OnPairs
Commute(op)    == op \in BasicCopsTable

Function(op, a, b) ==
  CASE op = "SUM"  -> mpi_sum(a, b)
    [] op = "PROD" -> mpi_prod(a, b)
    [] op = "MAX"  -> mpi_max(a, b)
    [] op = "MIN"  -> mpi_min(a, b)
    [] op = "LAND" -> mpi_land(a, b)
    [] op = "LOR"  -> mpi_lor(a, b)
    [] op = "LXOR" -> mpi_lxor(a, b)
    [] op = "BAND" -> mpi_band(a, b)
    [] op = "BOR"  -> mpi_bor(a, b)
    [] op = "BXOR" -> mpi_bxor(a, b)
    [] op = "MAXLOC" -> mpi_maxloc(a, b)
    [] op = "MINLOC" -> mpi_minloc(a, b)

VARIABLE sample

Init == \E op \in BasicCopsTable :
          \E a, b, c \in IF op \in OnPairs THEN Pairs ELSE Words :
            sample = [op |-> op, a |-> a, b |-> b, c |-> c]

Spec == Init /\ [][UNCHANGED sample]_sample

(* The result does not depend on the order in which the ranks' shares are  *)
(* combined: MPI_Reduce applies a commutative operation from the last rank *)
(* down, or in the order in which the ranks get the lock of a chunk.       *)
OrderFree ==
  Commute(sample.op) =>
    LET F(x, y) == Function(sample.op, x, y)
        a == sample.a  b == sample.b  c == sample.c
    IN  F(a, b) = F(b, a) /\ F(a, F(b, c)) = F(F(a, b), c)
=============================================================================
