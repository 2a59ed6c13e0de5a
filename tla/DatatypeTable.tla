--------------------------- MODULE DatatypeTable ---------------------------
(***************************************************************************)
(* The life of derived datatypes (dtypeCreateStruct and dtypeFree in       *)
(* p_dtype.c): a datatype counts the program's handle and the datatypes    *)
(* made from it.                                                           *)
(***************************************************************************)
EXTENDS Integers, Sequences, SequencesExt, FiniteSets, Functions

CONSTANTS Ids,       (* the objects                                          *)
          MaxDepth   (* how deep the program nests: 1 is made of basic types *)

VARIABLES dtypes,    \* dtypes[d]: the references and parts of those that exist
          handles    \* the datatypes the program has not freed

dvars == <<dtypes, handles>>

Basic == "basic"
Parts(t, d) == Range(t[d].types) \ {Basic}

RECURSIVE Depth(_, _)
Depth(t, d) ==
  IF d = Basic \/ d \notin DOMAIN t THEN 0
  ELSE 1 + (CHOOSE n \in {Depth(t, x) : x \in Range(t[d].types)} :
              \A x \in Range(t[d].types) : Depth(t, x) <= n)

(* Mutant: a part that is used twice is counted once. *)
OnePerType(t, types) ==
  [d \in DOMAIN t |-> IF d \in Range(types) THEN [t[d] EXCEPT !.refs = @ + 1] ELSE t[d]]

Referenced(t, types) ==
  [d \in DOMAIN t |->
     [t[d] EXCEPT !.refs = @ + Cardinality({i \in DOMAIN types : types[i] = d})]]

dtypeCreateStruct(d, types) ==
  /\ d \notin DOMAIN dtypes
  /\ Range(types) \subseteq handles \cup {Basic}
  /\ \A i \in DOMAIN types : Depth(dtypes, types[i]) < MaxDepth
  /\ LET t == Referenced(dtypes, types)
     IN  dtypes' = [x \in DOMAIN t \cup {d} |->
                      IF x = d THEN [refs |-> 1, types |-> types] ELSE t[x]]
  /\ handles' = handles \cup {d}

(* Every call lets go of the parts first, also when d itself stays. *)
RECURSIVE Freed(_, _)
Freed(t, d) ==
  LET LetGo(u, x) ==
        IF x \notin DOMAIN u THEN u
        ELSE IF u[x].refs = 1 THEN Freed([u EXCEPT ![x].refs = 0], x)
             ELSE [u EXCEPT ![x].refs = @ - 1]
      after == FoldLeft(LetGo, t, t[d].types)
      refs  == after[d].refs - 1
  IN  IF refs <= 0 THEN [x \in DOMAIN after \ {d} |-> after[x]]
      ELSE [after EXCEPT ![d].refs = refs]

dtypeFree(d) ==
  /\ d \in handles
  /\ dtypes' = Freed(dtypes, d)
  /\ handles' = handles \ {d}

Init == dtypes = [d \in {} |-> 0] /\ handles = {}

Next == \E d \in Ids :
          \/ \E types \in UNION {[1 .. n -> Ids \cup {Basic}] : n \in 1 .. 2} :
               dtypeCreateStruct(d, types)
          \/ dtypeFree(d)

Spec == Init /\ [][Next]_dvars

(* A datatype that the program can still use has all its parts, and those  *)
(* theirs: a handle can be freed as soon as the datatypes made from it     *)
(* exist.                                                                  *)
RECURSIVE Whole(_)
Whole(d) == d = Basic \/ (d \in DOMAIN dtypes /\ \A x \in Range(dtypes[d].types) : Whole(x))

PartsLive == \A d \in handles : Whole(d)
=============================================================================
