------------------------------ MODULE MetaStore ------------------------------
(***************************************************************************)
(* internal/metastore/metadata.go: counters and schemas accumulated in     *)
(* memory during one ingestion, and the file metadata.json they are saved  *)
(* to.  The counting maps are bags; a schema is the set of its <<label,    *)
(* property>> pairs; the connections count <<label, source label, target   *)
(* label>> triples.                                                        *)
(***************************************************************************)
EXTENDS Naturals, BagsExt

VARIABLES
  meta,       \* the MetaStore of the running ingestion
  metaFile    \* metadata.json of the database

metaVars == <<meta, metaFile>>

NoCopies == [k \in {} |-> 0]

NewMetaStore ==
  [nodeCount        |-> 0,
   edgeCount        |-> 0,
   nodeCountByLabel |-> NoCopies,
   edgeCountByLabel |-> NoCopies,
   nodeSchema       |-> {},
   edgeSchema       |-> {},
   edgeConnections  |-> NoCopies]

Pairs(label, props) == {label} \X props

\* Variant: the schema keeps the properties of the latest node only.
IncNodeForgetful(label, props) ==
  meta' = [meta EXCEPT !.nodeCount = @ + 1,
                       !.nodeCountByLabel = BagAdd(@, label),
                       !.nodeSchema = Pairs(label, props)]

IncNode(label, props) ==
  meta' = [meta EXCEPT !.nodeCount = @ + 1,
                       !.nodeCountByLabel = BagAdd(@, label),
                       !.nodeSchema = @ \cup Pairs(label, props)]

\* Variant: only the first edge of a label is counted.
IncEdgeOnce(label, srcLabel, dstLabel, props) ==
  meta' = [meta EXCEPT !.edgeCount =
                         IF label \in DOMAIN meta.edgeCountByLabel THEN @ ELSE @ + 1,
                       !.edgeCountByLabel = BagAdd(@, label),
                       !.edgeSchema = @ \cup Pairs(label, props),
                       !.edgeConnections = BagAdd(@, <<label, srcLabel, dstLabel>>)]

IncEdge(label, srcLabel, dstLabel, props) ==
  meta' = [meta EXCEPT !.edgeCount = @ + 1,
                       !.edgeCountByLabel = BagAdd(@, label),
                       !.edgeSchema = @ \cup Pairs(label, props),
                       !.edgeConnections = BagAdd(@, <<label, srcLabel, dstLabel>>)]

\* Save is os.WriteFile: it truncates the file, then writes all of it.
Absent == [state |-> "absent", data |-> NewMetaStore]
Torn == [state |-> "torn", data |-> NewMetaStore]
Complete(data) == [state |-> "complete", data |-> data]

MetaInit == meta = NewMetaStore /\ metaFile = Absent

\* Load fails on a missing file and on one that is not complete JSON.
Loadable == metaFile.state = "complete"

MetaTypeOK ==
  /\ meta = [f \in DOMAIN NewMetaStore |-> meta[f]]
  /\ meta.nodeCount \in Nat
  /\ meta.edgeCount \in Nat
  /\ metaFile.state \in {"absent", "torn", "complete"}
=============================================================================
