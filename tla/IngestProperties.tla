-------------------------- MODULE IngestProperties --------------------------
(***************************************************************************)
(* What an ingestion promises: about the store while it runs, about what   *)
(* is on disk after it, about the metadata, and that it ends.              *)
(***************************************************************************)
EXTENDS Ingest

-----------------------------------------------------------------------------
(* Safety.                                                                 *)

Indexed(b) ==
  /\ \A id \in DOMAIN b["nodes"] : \A k \in DOMAIN b["nodes"][id].props :
       PropKey(b["nodes"][id].props, k, id) \in DOMAIN b["nodeProp"]
  /\ \A id \in DOMAIN b["edges"] :
       /\ <<b["edges"][id].src, id>> \in DOMAIN b["edgeSrc"]
       /\ <<b["edges"][id].dst, id>> \in DOMAIN b["edgeDst"]
       /\ \A k \in DOMAIN b["edges"][id].props :
            PropKey(b["edges"][id].props, k, id) \in DOMAIN b["edgeProp"]

NoOrphans(b) ==
  /\ \A k \in DOMAIN b["nodeProp"] : k[3] \in DOMAIN b["nodes"]
  /\ \A k \in DOMAIN b["edgeProp"] : k[3] \in DOMAIN b["edges"]
  /\ \A k \in DOMAIN b["edgeSrc"] \cup DOMAIN b["edgeDst"] : k[2] \in DOMAIN b["edges"]

Consistent(b) == Indexed(b) /\ NoOrphans(b)

\* As long as no memtable was lost, every node and edge a reader of the store
\* can see has all its secondary index entries, and every entry leads to a
\* record: whatever the batches, the errors between them, the overwritten ids
\* and the later ingestions, because a record and its entries share a batch.
IndexesConsistent == ~lossy => Consistent(View)

\* While edges are denormalised, the cached blob of a node is the record the
\* store holds under that id: the cache never runs ahead of a failed or
\* pending write, and never keeps an overwritten row.
CacheAgrees ==
  pc = "edges" => \A id \in DOMAIN cache :
                    id \in DOMAIN View["nodes"] /\ View["nodes"][id] = cache[id]

Blobs(fat) == UNION {{fat[k][j] : j \in 1..Len(fat[k])} : k \in DOMAIN fat}
PendingBlobs == UNION {{pending[l][j] : j \in 1..Len(pending[l])} : l \in Tokens}

\* Until a fault intervenes, an edge that is stored or about to be has its mega
\* blob in the label index, in the batch, or pending under its label: the
\* resets of the pending list lose none.
EveryEdgeHasBlob ==
  ~lossy /\ ending # "crashed" /\ outcome # "error" /\ ingests = 1 =>
    LET b == Layer(batch, View)
    IN  {b["edges"][id] : id \in DOMAIN b["edges"]}
          \subseteq {blob.edge : blob \in Blobs(b["label"]) \cup PendingBlobs}

NodeAt(i) == RecordAt(nodesFile, i)
EdgeAt(i) == RecordAt(edgesFile, i)
LastNodeRows == {i \in NodeRows(nodesFile) : \A j \in NodeRows(nodesFile) :
                   j > i => NodeAt(j).id # NodeAt(i).id}
LastEdgeRows == {i \in EdgeRows(edgesFile) : \A j \in EdgeRows(edgesFile) :
                   j > i => EdgeId(EdgeAt(j)) # EdgeId(EdgeAt(i))}

\* b holds every accepted row of the two files, the later over the earlier.
HoldsRows(b) ==
  /\ \A i \in LastNodeRows : LET rec == NodeAt(i) IN
       rec.id \in DOMAIN b["nodes"] /\ b["nodes"][rec.id] = NodeValue(rec)
  /\ \A i \in LastEdgeRows : LET rec == EdgeAt(i) IN
       EdgeId(rec) \in DOMAIN b["edges"] /\ b["edges"][EdgeId(rec)] = EdgeValue(rec)

HoldsEntries(b) ==
  /\ \A i \in NodeRows(nodesFile) : LET rec == NodeAt(i) IN
       \A cf \in Families : DOMAIN NodePuts(rec)[cf] \subseteq DOMAIN b[cf]
  /\ \A i \in EdgeRows(edgesFile) : LET rec == EdgeAt(i) IN
       \A cf \in Families : DOMAIN EdgePuts(rec)[cf] \subseteq DOMAIN b[cf]

Succeeded == pc = "idle" /\ outcome = "success" /\ ending = "closed"

\* After a reported success and an orderly close the disk holds every accepted
\* row of the files with all its index entries, also when an earlier run
\* failed, crashed or left other data: running \i again repairs what it covers.
SuccessStoresAll == Succeeded => HoldsRows(sst) /\ HoldsEntries(sst)

\* The node as the label index should copy it: the last row of the nodes file
\* with that id, nothing for an id the file does not define.
Endpoint(id) == {NodeValue(NodeAt(i)) : i \in {j \in LastNodeRows : NodeAt(j).id = id}}

\* The places of the blobs in an index: a key, and a place in its list.
BlobSlots(fat) == UNION {{k} \X (1..Len(fat[k])) : k \in DOMAIN fat}

\* After a reported success the label index holds, under the edge's label, a
\* blob for every accepted edge row with the final version of its endpoints;
\* after a first ingestion it holds exactly one blob for each.
LabelIndexComplete ==
  Succeeded =>
    /\ \A i \in EdgeRows(edgesFile) : LET rec == EdgeAt(i) IN
         \E k \in DOMAIN sst["label"] : \E j \in 1..Len(sst["label"][k]) :
           /\ k[1] = rec.label
           /\ sst["label"][k][j] = [edge |-> EdgeValue(rec),
                                    src |-> Endpoint(rec.src),
                                    dst |-> Endpoint(rec.dst)]
    /\ ingests = 1 =>
         Cardinality(BlobSlots(sst["label"])) = Cardinality(EdgeRows(edgesFile))

\* metadata.json after a success counts every accepted row once, by label too,
\* and lists exactly the property names that occur under each label: those of the
\* latest ingestion and no other, also over a file that an earlier one has
\* completed or left torn.
MetadataExact ==
  Succeeded =>
    LET nodes == NodeRows(nodesFile)
        edges == EdgeRows(edgesFile)
        data == metaFile.data
    IN  /\ Loadable
        /\ data.nodeCount = Cardinality(nodes)
        /\ data.edgeCount = Cardinality(edges)
        /\ data.nodeCountByLabel =
             [l \in {NodeAt(i).label : i \in nodes} |->
                Cardinality({i \in nodes : NodeAt(i).label = l})]
        /\ data.edgeCountByLabel =
             [l \in {EdgeAt(i).label : i \in edges} |->
                Cardinality({i \in edges : EdgeAt(i).label = l})]
        /\ data.nodeSchema =
             UNION {{NodeAt(i).label} \X DOMAIN NodeAt(i).props : i \in nodes}
        /\ data.edgeSchema =
             UNION {{EdgeAt(i).label} \X DOMAIN EdgeAt(i).props : i \in edges}

\* The two readers of a file see the same headers, and no header names a
\* special column twice.
ReadAlike(file) ==
  /\ ValHeads(file) = IngestHeads(file)
  /\ \A i \in ValHeads(file) : \A key \in Keywords :
       Cardinality(Columns(file[i], key)) <= 1

Alike == ReadAlike(nodesFile) /\ ReadAlike(edgesFile)
AllLabelled == \A i \in ValRows(nodesFile) : NodeAt(i).label # ""

\* When the two readers agree on a validated pair of files and every node row
\* has a label, no edge stored by a first ingestion dangles, at any moment, in
\* memory, and none does on disk after an orderly close, unless a read failed
\* in the middle of a line: the beginning of an edge row is stored as an edge.
ReferentialIntegrity ==
  ~lossy /\ ingests = 1 /\ ~yolo /\ ~readErr /\ Alike /\ AllLabelled =>
    \A id \in DOMAIN View["edges"] :
      {View["edges"][id].src, View["edges"][id].dst} \subseteq DOMAIN View["nodes"]

\* For such files a first successful ingestion leaves metadata whose counts are
\* the numbers of records in the store: validation excludes duplicate ids.
CountsMatchStore ==
  Succeeded /\ Loadable /\ ingests = 1 /\ ~yolo /\ Alike =>
    /\ metaFile.data.nodeCount = Cardinality(DOMAIN sst["nodes"])
    /\ metaFile.data.edgeCount = Cardinality(DOMAIN sst["edges"])

-----------------------------------------------------------------------------
(* Action properties.                                                      *)

\* The metadata file is completed only when every accepted row, every index
\* entry and every pending blob has been handed to the store.
MetadataAfterData ==
  [][metaFile'.state = "complete" /\ metaFile' # metaFile =>
       /\ HoldsRows(View) /\ HoldsEntries(View)
       /\ batch = Nothing /\ pending = NoPending]_vars

-----------------------------------------------------------------------------
(* Liveness.                                                               *)

\* Where nothing fails, a validated ingestion ends in a success: the files it
\* accepts contain nothing the ingestor gives up on.
CleanIngestSucceeds ==
  Faults = {} /\ pc = "nodes" /\ ~yolo ~> pc = "idle" /\ outcome = "success"
=============================================================================
