----------------------------- MODULE RocksStore -----------------------------
(***************************************************************************)
(* The RocksDB store behind internal/rocks/db.go, as the program opens it: *)
(* seven column families, no write-ahead log, no sync, no atomic flush.  A *)
(* write batch is atomic in memory; each family reaches disk on its own;   *)
(* what is only in memory dies with the process.                           *)
(***************************************************************************)
EXTENDS Naturals

Families == {"nodes", "edges", "nodeProp", "edgeProp", "edgeSrc", "edgeDst", "label"}

EmptyMap == [k \in {} |-> {}]
Nothing == [cf \in Families |-> EmptyMap]

\* new laid over old: a put replaces what the key held.
Overlay(new, old) ==
  [k \in DOMAIN new \cup DOMAIN old |-> IF k \in DOMAIN new THEN new[k] ELSE old[k]]
Layer(new, old) == [cf \in Families |-> Overlay(new[cf], old[cf])]

VARIABLES
  mem,    \* memtables: written, lost if the process dies
  sst     \* table files: what a later open finds

storeVars == <<mem, sst>>

\* A key-value map per family, whatever the keys and the values are.
IsBundle(b) ==
  /\ b = [cf \in Families |-> b[cf]]
  /\ \A cf \in Families : b[cf] = [k \in DOMAIN b[cf] |-> b[cf][k]]

StoreTypeOK == IsBundle(mem) /\ IsBundle(sst)

StoreInit == mem = Nothing /\ sst = Nothing

\* What a reader of the open store sees.
View == Layer(mem, sst)

\* DB.Write with DisableWAL: the whole batch, in memory only.
Write(batch) == mem' = Layer(batch, mem) /\ UNCHANGED sst

\* RocksDB persists one family when it likes (its memtable is full).
FlushFamily(cf) ==
  /\ mem[cf] # EmptyMap
  /\ sst' = [sst EXCEPT ![cf] = Overlay(mem[cf], sst[cf])]
  /\ mem' = [mem EXCEPT ![cf] = EmptyMap]

\* The process ends and the families in kept reach disk: all of them on an
\* orderly DB.Close, whose errors nobody sees, none of them in a crash.
Vanish(kept) ==
  /\ sst' = [cf \in Families |-> IF cf \in kept THEN View[cf] ELSE sst[cf]]
  /\ mem' = Nothing
=============================================================================
