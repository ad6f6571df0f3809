------------------------------ MODULE HashMaps ------------------------------
(***************************************************************************)
(* The three operations of Rust's std::collections::HashMap that the       *)
(* program uses to change a map.  A map is a function whose DOMAIN is the  *)
(* set of keys present.                                                    *)
(***************************************************************************)
EXTENDS Functions

EmptyMap == [key \in {} |-> key]

\* map.insert(key, value): an entry that was there is overwritten.
Insert(map, key, value) ==
  [k \in DOMAIN map \cup {key} |-> IF k = key THEN value ELSE map[k]]

\* map.entry(key).or_insert_with(value): an entry that was there is kept.
OrInsert(map, key, value) ==
  [k \in DOMAIN map \cup {key} |-> IF k \in DOMAIN map THEN map[k] ELSE value]

\* map.remove(key): the map without the key.
Remove(map, key) == Restrict(map, DOMAIN map \ {key})
=============================================================================
