----------------------------- MODULE SimpleHash -----------------------------
(***************************************************************************)
(* The hash table of the interception layer (simple-hash.c): open          *)
(* addressing with a second hash for the step, doubled when it is more     *)
(* than 90 percent full. A key is the address of a variable, which         *)
(* compute_hashval hashes, and the byte the variable held when the entry   *)
(* was made, which memcmp compares.                                        *)
(***************************************************************************)
EXTENDS Integers, Sequences, SequencesExt, FiniteSetsExt

Empty == [hval |-> 0, data |-> <<>>]   \* used = 0

compute_hashval(address) == 16 + address

(* The loop stops at the first odd divisor whose square is no smaller.     *)
is_prime(c) ==
  LET last == Min({d \in 1 .. c + 2 : d % 2 = 1 /\ d > 1 /\ (d * d >= c \/ c % d = 0)})
  IN  c % last # 0

next_prime(seed) == Min({c \in seed .. 2 * seed + 2 : c % 2 = 1 /\ is_prime(c)})

NewTable(size) ==
  [size |-> size, filled |-> 0, order |-> <<>>, slot |-> [i \in 1 .. size |-> Empty]]

init_hash(init_size) == NewTable(next_prime(init_size))

IsUsed(e) == e.hval # 0

(* The k-th slot that is looked at. *)
Probe(size, hval, k) == (((hval % size) - k * (1 + (hval % (size - 2)))) % size) + 1

Fitting(e, hval, byte) == ~IsUsed(e) \/ (e.hval = hval /\ e.byte = byte)

(* The slot of the key, or the free one it would go to. *)
lookup(t, hval, byte) ==
  LET Stops(k) == Fitting(t.slot[Probe(t.size, hval, k)], hval, byte)
  IN  Probe(t.size, hval, Min({k \in 0 .. t.size - 1 : Stops(k)}))

(* order is the ring of entries that iterate_table walks, oldest first.    *)
Place(t, e, idx) ==
  [t EXCEPT !.slot[idx] = e, !.order = Append(@, idx), !.filled = @ + 1]

PlaceAfresh(t, e) == Place(t, e, lookup(t, e.hval, e.byte))

UsedSlots(t) == SelectSeq([i \in 1 .. t.size |-> i], LAMBDA i : IsUsed(t.slot[i]))

(* Mutant: the entries keep their slots. *)
CopyOver(t) ==
  FoldLeft(LAMBDA u, i : Place(u, t.slot[i], i), NewTable(next_prime(t.size * 2)),
           UsedSlots(t))

(* Nothing is dropped: the new table has room for the entries of the old.  *)
Resize(t) ==
  FoldLeft(LAMBDA u, i : PlaceAfresh(u, t.slot[i]), NewTable(next_prime(t.size * 2)),
           UsedSlots(t))

(* Mutant: the table grows when there is no slot left for the next key.    *)
FullOver(t) == t.filled > t.size

Crowded(t) == 100 * t.filled > 90 * t.size

insert_entry_2(t, e, idx) ==
  LET u == Place(t, e, idx) IN IF Crowded(u) THEN Resize(u) ELSE u

IndexOf(t, key) == lookup(t, compute_hashval(key[1]), key[2])

Found(t, key)      == IsUsed(t.slot[IndexOf(t, key)])
find_entry(t, key) == t.slot[IndexOf(t, key)].data

insert_entry(t, key, data) ==
  IF Found(t, key) THEN t
  ELSE insert_entry_2(t, [hval |-> compute_hashval(key[1]), byte |-> key[2],
                          data |-> data], IndexOf(t, key))

set_entry(t, key, data) ==
  IF Found(t, key) THEN [t EXCEPT !.slot[IndexOf(t, key)].data = data] ELSE t

(* What iterate_table returns, call after call. *)
iterate_table(t) == [i \in DOMAIN t.order |-> t.slot[t.order[i]]]
=============================================================================
