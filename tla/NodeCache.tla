------------------------------ MODULE NodeCache ------------------------------
(***************************************************************************)
(* internal/cache/node_cache.go: the encoded nodes of the running          *)
(* ingestion, by id.  It is filled while nodes are read and consulted, not *)
(* the database, when an edge is denormalised into the label index.        *)
(***************************************************************************)
VARIABLE cache

NewNodeCache == [id \in {} |-> {}]

\* Variant: a node that is already cached is left as it is.
PutIfAbsent(id, blob) ==
  cache' = [k \in DOMAIN cache \cup {id} |-> IF k \in DOMAIN cache THEN cache[k] ELSE blob]

Put(id, blob) ==
  cache' = [k \in DOMAIN cache \cup {id} |-> IF k = id THEN blob ELSE cache[k]]

\* The blob, or nothing: the caller drops the found flag and encodes nil.
Get(id) == IF id \in DOMAIN cache THEN {cache[id]} ELSE {}

Clear == cache' = NewNodeCache
=============================================================================
