----------------------------- MODULE HashTable -----------------------------
(***************************************************************************)
(* The hash table as its users see it: a map from keys to data that is     *)
(* walked in the order of insertion.                                       *)
(***************************************************************************)
EXTENDS SimpleHash

CONSTANTS Keys,      (* pairs of an address and a byte   *)
          Data,
          InitSize

VARIABLES t,         \* the table
          map        \* the keys with the data last given, in inserted order

hvars == <<t, map>>

MapKeys == {map[i].key : i \in DOMAIN map}
At(key) == CHOOSE i \in DOMAIN map : map[i].key = key

Insert(key, data) ==
  /\ t' = insert_entry(t, key, data)
  /\ map' = IF key \in MapKeys THEN map ELSE Append(map, [key |-> key, data |-> data])

Set(key, data) ==
  /\ key \in MapKeys
  /\ t' = set_entry(t, key, data)
  /\ map' = [map EXCEPT ![At(key)].data = data]

Init == t = init_hash(InitSize) /\ map = <<>>

Next == \E key \in Keys, data \in Data : Insert(key, data) \/ Set(key, data)

Spec == Init /\ [][Next]_hvars

(* The table refines the map: each key gives the data it was last given,   *)
(* across collisions and the doubling of the table, no other key is found, *)
(* and the ring lists every entry once.                                    *)
TableIsMap ==
  /\ \A key \in Keys : Found(t, key) <=> key \in MapKeys
  /\ \A i \in DOMAIN map : find_entry(t, map[i].key) = map[i].data
  /\ t.filled = Len(map)
  /\ {e.hval : e \in {iterate_table(t)[i] : i \in DOMAIN t.order}}
       = {compute_hashval(key[1]) : key \in MapKeys}
  /\ Len(t.order) = Len(map)

(* A search for a key that is not there ends: the steps from its address   *)
(* meet a free slot, however full the table.                               *)
SearchEnds ==
  \A key \in Keys : \E k \in 0 .. t.size - 1 :
    ~IsUsed(t.slot[Probe(t.size, compute_hashval(key[1]), k)])
=============================================================================
