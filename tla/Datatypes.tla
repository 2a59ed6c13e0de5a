----------------------------- MODULE Datatypes -----------------------------
(***************************************************************************)
(* Derived datatypes (p_dtype.c, dtype/): what a constructor computes from *)
(* its arguments, and which bytes pack and unpack copy. A datatype is a    *)
(* record that holds those of its parts; MPI_LB and MPI_UB are marks. A    *)
(* buffer is the set of its byte offsets.                                  *)
(***************************************************************************)
EXTENDS Integers, Sequences, SequencesExt, FiniteSetsExt, Functions

Mark(name) == [mark |-> name]
LB == Mark("LB")
UB == Mark("UB")
IsMark(t) == t.mark # "no"

(* An entry of BasicDTypeTable. *)
dtypeCreateDefault(len) ==
  [mark |-> "no", basic |-> TRUE, contig |-> TRUE, types |-> <<>>, displs |-> <<>>,
   blklen |-> <<>>, elements |-> 1, size |-> len, lb |-> 0, ub |-> len,
   extent |-> len, packsize |-> len]

(* What the parts come to, each of them of the given measure. *)
ByteCount(types, blklen, measure) ==
  SumFunction([i \in DOMAIN types |-> IF IsMark(types[i]) THEN 0
                                      ELSE types[i][measure] * blklen[i]])

Reals(types)     == {i \in DOMAIN types : ~IsMark(types[i])}
FirstReal(types) == Min(Reals(types))

(* Displacements in bytes. *)
Displacements(kind, count, displs, old_extent) ==
  [i \in 1 .. count |->
     CASE kind = "INDEXED"                -> displs[i] * old_extent
       [] kind = "VECTOR"                 -> displs[1] * old_extent * (i - 1)
       [] kind = "HVECTOR"                -> displs[1] * (i - 1)
       [] kind \in {"HINDEXED", "CONTIGUOUS", "STRUCT"} -> displs[i]]

At(types, name) == {i \in DOMAIN types : types[i] = Mark(name)}

(* The last mark counts; without one, the least displacement or 0.         *)
LowerBound(types, displs) ==
  IF At(types, "LB") # {} THEN displs[Max(At(types, "LB"))]
  ELSE Min({0} \cup {displs[i] : i \in Reals(types)})

(* Mutant: where the last block starts. *)
LastStart(types, displs, blklen) ==
  Max({displs[i] + types[i].extent : i \in Reals(types)})

UpperBound(types, displs, blklen) ==
  IF At(types, "UB") # {} THEN displs[Max(At(types, "UB"))]
  ELSE Max({displs[FirstReal(types)]}
           \cup {displs[i] + types[i].extent * blklen[i] : i \in Reals(types)})

(* Mutant: compares with one item of the block.                            *)
NextItem(displ, from, blklen, extent) == displ - from = extent

Adjoins(displ, from, blklen, extent) == displ - from = blklen * extent

(* DTYPE_MEM_CONTIG: each part starts where the one before it ends. The    *)
(* displacement of the first part is not looked at, and the part after a   *)
(* mark is not compared.                                                   *)
IsContiguous(types, displs, blklen) ==
  LET pairs == [i \in 1 .. Len(types) - 1 |-> i + 1]
      Compare(from, i) == IF from = <<>> THEN from
                          ELSE IF IsMark(types[i - 1]) THEN from
                          ELSE IF \/ types[i] = UB
                                  \/ Adjoins(displs[i], from[1], blklen[i - 1],
                                             types[i - 1].extent)
                               THEN <<displs[i]>> ELSE <<>>
  IN  /\ \A i \in Reals(types) : types[i].contig
      /\ FoldLeft(Compare, <<displs[FirstReal(types)]>>, pairs) # <<>>

dtypeCreateStruct(count, blklens, displacements, dtypes, kind) ==
  LET types  == IF kind \in {"CONTIGUOUS", "STRUCT"} THEN dtypes
                ELSE [i \in 1 .. count |-> dtypes[1]]
      blklen == IF kind \in {"VECTOR", "HVECTOR"} THEN [i \in 1 .. count |-> blklens[1]]
                ELSE blklens
      displs == Displacements(kind, count, displacements, types[FirstReal(types)].extent)
      lb     == LowerBound(types, displs)
      ub     == UpperBound(types, displs, blklen)
      contig == IsContiguous(types, displs, blklen)
  IN  [mark |-> "no", basic |-> FALSE, contig |-> contig, types |-> types,
       displs |-> displs, blklen |-> blklen,
       elements |-> ByteCount(types, blklen, "elements"),
       size     |-> ByteCount(types, blklen, "size"),
       lb |-> lb, ub |-> ub, extent |-> ub - lb,
       packsize |-> IF contig THEN ub - lb
                    ELSE ByteCount(types, blklen, "packsize")]

MPI_Type_contiguous(count, old) ==
  dtypeCreateStruct(1, <<count>>, <<0>>, <<old>>, "CONTIGUOUS")
MPI_Type_vector(count, blocklength, stride, old) ==
  dtypeCreateStruct(count, <<blocklength>>, <<stride>>, <<old>>, "VECTOR")
MPI_Type_indexed(blklens, displs, old) ==
  dtypeCreateStruct(Len(blklens), blklens, displs, <<old>>, "INDEXED")
MPI_Type_hindexed(blklens, displs, old) ==
  dtypeCreateStruct(Len(blklens), blklens, displs, <<old>>, "HINDEXED")
MPI_Type_struct(blklens, displs, types) ==
  dtypeCreateStruct(Len(blklens), blklens, displs, types, "STRUCT")

----------------------------------------------------------------------------
(* The offsets that rec_pack reads, in order, for an item at displ; they   *)
(* are those rec_unpack writes. A contiguous item is its extent, from      *)
(* displ on.                                                               *)
RECURSIVE rec_pack(_, _)
rec_pack(t, displ) ==
  IF t.contig THEN [b \in 1 .. t.extent |-> displ + b - 1]
  ELSE FlattenSeq([i \in DOMAIN t.types |->
         IF IsMark(t.types[i]) THEN <<>>
         ELSE FlattenSeq([j \in 1 .. t.blklen[i] |->
                rec_pack(t.types[i], t.displs[i] + (j - 1) * t.types[i].extent + displ)])])

rec_unpack(t, displ) == rec_pack(t, displ)

pack(t, count)   == FlattenSeq([i \in 1 .. count |-> rec_pack(t, (i - 1) * t.extent)])
unpack(t, count) == FlattenSeq([i \in 1 .. count |-> rec_unpack(t, (i - 1) * t.extent)])

packSize(count, t) == t.packsize * count

MPI_UNDEFINED == -32766
MPI_Get_count(bytes, t) ==
  IF bytes = 0 THEN 0
  ELSE IF bytes % t.packsize # 0 THEN MPI_UNDEFINED ELSE bytes \div t.packsize
MPI_Get_elements(bytes, t) ==
  IF bytes = 0 THEN 0
  ELSE IF bytes % t.packsize # 0 THEN MPI_UNDEFINED
       ELSE (bytes \div t.packsize) * t.elements

----------------------------------------------------------------------------
(* The reference: the type map of MPI. *)
RECURSIVE TypeMap(_)
TypeMap(t) ==
  IF t.basic THEN 0 .. t.size - 1
  ELSE UNION {{t.displs[i] + (j - 1) * t.types[i].extent + b : b \in TypeMap(t.types[i])} :
              <<i, j>> \in {ij \in Reals(t.types) \X (1 .. Max(Range(t.blklen))) :
                              ij[2] <= t.blklen[ij[1]]}}

DataOf(t, count) ==
  {(i - 1) * t.extent + b : i \in 1 .. count, b \in TypeMap(t)}

(* Whether a type and its parts have no mark and begin at 0.               *)
RECURSIVE Plain(_)
Plain(t) ==
  t.basic \/ ( /\ Reals(t.types) = DOMAIN t.types
               /\ t.displs[1] = 0
               /\ \A i \in DOMAIN t.types : t.displs[i] >= 0 /\ Plain(t.types[i]) )

VARIABLE sample    \* a datatype and a count of them

(* Everything in the type map is packed and unpacked, and what is packed   *)
(* is as long as packSize told the sender and MPI_Get_count the receiver,  *)
(* in types of which no part has a negative displacement.                  *)
PacksAllData ==
  LET t == sample[1]  count == sample[2]
  IN  /\ DataOf(t, count) \subseteq Range(pack(t, count))
      /\ Len(pack(t, count)) = packSize(count, t)
      /\ MPI_Get_count(packSize(count, t), t) = count

(* Nothing but what is in the type map is packed, each byte once, when     *)
(* every part begins at its first byte and has no mark.                    *)
PacksOnlyData ==
  LET t == sample[1]  count == sample[2]
  IN  Plain(t) => /\ Range(pack(t, count)) = DataOf(t, count)
                  /\ Len(pack(t, count)) = t.size * count
                  /\ MPI_Get_elements(t.size * count, t) = count * t.elements
=============================================================================
