----------------------------- MODULE Attributes -----------------------------
(***************************************************************************)
(* Attribute caching of one rank (p_key.c, attr/, the attribute part of    *)
(* p_comn.c). A key lives while the user holds it or an attribute of some  *)
(* communicator has it; the user's copy and delete functions may refuse.   *)
(***************************************************************************)
EXTENDS Integers, FiniteSets, FiniteSetsExt

CONSTANTS KeyCount,    (* DEFAULT_ATTRIBUTES_COUNT, 16                     *)
          Defaults,    (* LAST_DEFAULT_KEYVAL, 5                           *)
          Comms,       (* names of communicators                           *)
          World,       (* MPI_COMM_WORLD                                   *)
          MaxKeys      (* bound: keys created in all                       *)

VARIABLES refs,        \* refs[k]: references to key k, 0 when not allocated
          made,        \* made[k]: which key slot k holds: they are numbered
          created,     \* how many keys were created
          held,        \* the keys the user has not freed
          attr         \* attr[c][k]: the number of the key, 0 for no attribute

avars == <<refs, made, created, held, attr>>

Keys == 0 .. KeyCount - 1
NoAttributes == [k \in Keys |-> 0]
Alive(c) == c \in DOMAIN attr
Allocated(k) == refs[k] > 0
Cached(c)    == {k \in Keys : Allocated(k) /\ attr[c][k] # 0}
Decided      == {"yes", "no"}

(* The first free slot; KEY_E_EXHAUST when there is none. *)
keyAlloc ==
  /\ created < MaxKeys
  /\ \E k \in Keys : ~Allocated(k)
  /\ LET k == Min({j \in Keys : ~Allocated(j)})
     IN  /\ refs' = [refs EXCEPT ![k] = 1]
         /\ made' = [made EXCEPT ![k] = created + 1]
         /\ held' = held \cup {k}
  /\ created' = created + 1
  /\ UNCHANGED attr

(* Mutant: the key goes at once. *)
Drop(k) == [refs EXCEPT ![k] = 0]

OneLess(k) == [refs EXCEPT ![k] = @ - 1]

(* MPI_Keyval_free. *)
keyFree(k) ==
  /\ k \in held /\ k >= Defaults
  /\ refs' = OneLess(k)
  /\ held' = held \ {k}
  /\ UNCHANGED <<made, created, attr>>

(* MPI_Attr_put: a value in place is deleted first, which may be refused.  *)
keyPutAttr(c, k, delete) ==
  /\ Alive(c) /\ k \in held
  /\ IF attr[c][k] # 0
     THEN UNCHANGED <<refs, attr>>
     ELSE /\ refs' = [refs EXCEPT ![k] = @ + 1]
          /\ attr' = [attr EXCEPT ![c][k] = made[k]]
  /\ UNCHANGED <<made, created, held>>

(* MPI_Attr_delete. *)
keyDelAttr(c, k, delete) ==
  /\ Alive(c) /\ k \in held /\ attr[c][k] # 0 /\ delete = "yes"
  /\ attr' = [attr EXCEPT ![c][k] = 0]
  /\ refs' = OneLess(k)
  /\ UNCHANGED <<made, created, held>>

(* The keys before the first refused one, in the order of the table. *)
Before(keys, answer) == {k \in keys : \A j \in keys : j <= k => answer[j] # "refused"}

(* Mutant: copies are not counted. *)
CopiesUncounted(copied) == refs

CountCopies(copied) == [k \in Keys |-> IF k \in copied THEN refs[k] + 1 ELSE refs[k]]

(* keyCopyAllAttr in MPI_Comm_dup. A refusal ends the copying, and leaves a*)
(* communicator with the attributes that came before.                      *)
Copy(c, d, keys, answer) ==
  /\ Alive(c) /\ ~Alive(d)
  /\ LET copied == {k \in Before(keys, answer) : answer[k] = "yes"}
     IN  /\ attr' = [x \in DOMAIN attr \cup {d} |->
                       IF x = d THEN [k \in Keys |-> IF k \in copied THEN attr[c][k] ELSE 0]
                                ELSE attr[x]]
         /\ refs' = CountCopies(copied)
  /\ UNCHANGED <<made, created, held>>

Dup(c, d, answer) == Copy(c, d, Cached(c), answer)

(* keyCopyDfltAttr in MPI_Comm_create and MPI_Comm_split: only the default *)
(* keys, whose copy function always agrees.                                *)
Create(c, d) ==
  Copy(c, d, {k \in Cached(c) : k < Defaults}, [k \in Keys |-> "yes"])

(* MPI_Comm_free: keyDelAllAttr, and nothing more if a delete is refused.  *)
Free(c, answer) ==
  /\ Alive(c) /\ c # World
  /\ LET gone == Before(Cached(c), answer)
     IN  /\ refs' = [k \in Keys |-> IF k \in gone THEN refs[k] - 1 ELSE refs[k]]
         /\ attr' = IF gone = Cached(c) THEN [x \in DOMAIN attr \ {c} |-> attr[x]]
                    ELSE [attr EXCEPT ![c] = [k \in Keys |-> IF k \in gone THEN 0 ELSE @[k]]]
  /\ UNCHANGED <<made, created, held>>

(* common_init: the default keys, and their attributes of MPI_COMM_WORLD.  *)
Init ==
  /\ refs = [k \in Keys |-> IF k < Defaults THEN 2 ELSE 0]
  /\ made = [k \in Keys |-> IF k < Defaults THEN k + 1 ELSE 0]
  /\ created = Defaults
  /\ held = 0 .. Defaults - 1
  /\ attr = [c \in {World} |-> [k \in Keys |-> made[k]]]

(* A default key's functions are MPI_DUP_FN and MPI_NULL_DELETE_FN.        *)
Answers(others) ==
  {[k \in Keys |-> IF k < Defaults THEN "yes" ELSE f[k]] : f \in [Keys -> others]}

Next ==
  \/ keyAlloc
  \/ \E k \in Keys : keyFree(k)
  \/ \E c \in Comms, k \in Keys, delete \in Decided :
       keyPutAttr(c, k, delete) \/ keyDelAttr(c, k, delete)
  \/ \E c, d \in Comms :
       \/ Create(c, d)
       \/ \E answer \in Answers({"yes", "no", "refused"}) : Dup(c, d, answer)
  \/ \E c \in Comms : \E answer \in Answers({"yes", "refused"}) : Free(c, answer)

Spec == Init /\ [][Next]_avars

----------------------------------------------------------------------------
(* Properties. *)

(* A key has a reference for its user and one for each attribute, through  *)
(* all copies, replacements, refusals and frees.                           *)
RefsExact ==
  \A k \in Keys :
    refs[k] = Cardinality({c \in DOMAIN attr : attr[c][k] # 0})
              + Cardinality({k} \cap held)

(* An attribute is never read with the copy and delete functions of a key  *)
(* that took the slot of the one it was put with.                          *)
NoStaleAttr ==
  \A c \in DOMAIN attr : \A k \in Keys :
    attr[c][k] # 0 => Allocated(k) /\ attr[c][k] = made[k]
=============================================================================
