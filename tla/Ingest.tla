------------------------------- MODULE Ingest -------------------------------
(***************************************************************************)
(* Executor.ingest (internal/repl/executor.go) and the Ingestor it drives  *)
(* (internal/pipeline/ingestor.go), against one database directory: the    *)
(* optional validation, the pass over the nodes file, the pass over the    *)
(* edges file with its cache look-ups and pending fat batches, the saving  *)
(* of the metadata and the closing of the store, any number of times, with *)
(* background flushes, failing reads and writes, and crashes in between.   *)
(*                                                                         *)
(* A step is one iteration of a scanning loop.  Validation is one step:    *)
(* module Validator shows that its verdict is ValidFiles.                  *)
(***************************************************************************)
EXTENDS PGDF, RocksStore, MetaStore, NodeCache

CONSTANTS
  NodeFiles, EdgeFiles,      \* the files that may be given to \i
  Norm,                      \* storage.Norm: the lower-case form of a token
  HashID,                    \* storage.MakeEdgeID
  MaxBatchSizeBytes,         \* flush threshold of the write batch
  TargetMegaBlobSizeBytes,   \* flush threshold of a label's pending blobs
  RecordBytes, BlobBytes,    \* the sizes one record, one mega blob may have
  Prefixes,                  \* what a read that fails may leave of a token
  Faults,                    \* what may go wrong
  MaxIngests                 \* bound: runs of \i that are explored

ASSUME IngestAssumption ==
  /\ NodeFiles \subseteq File
  /\ EdgeFiles \subseteq File
  /\ Norm \in [Tokens -> Tokens]
  /\ HashID \in [Tokens \X Tokens \X Tokens -> Tokens]
  /\ MaxBatchSizeBytes \in Nat \ {0}
  /\ TargetMegaBlobSizeBytes \in Nat \ {0}
  /\ RecordBytes \subseteq Nat \ {0}
  /\ BlobBytes \subseteq Nat \ {0}
  /\ Prefixes \in [Tokens -> SUBSET Tokens]
  /\ Faults \subseteq {"open", "read", "write", "save", "close", "crash"}
  /\ MaxIngests \in Nat

VARIABLES
  nodesFile, edgesFile, yolo,   \* the arguments of the latest \i
  pc,           \* where Executor.ingest is
  pos, header,  \* next line of the scanner, currentHeader
  readErr,      \* whether a read failed within a line of the latest ingestion
  batch,        \* the WriteBatch: its puts, the later over the earlier
  batchBytes,   \* currentBatchBytes
  pending,      \* labelToPendingMegaBlobs
  pendingSize,  \* labelToPendingSize
  uuids,        \* how many uuids uuid.New has produced
  outcome,      \* the last line the latest \i printed
  ending,       \* how the store of the latest ingestion was left
  lossy,        \* whether a memtable was ever lost in this database
  ingests       \* how many times \i was run

argVars == <<nodesFile, edgesFile, yolo>>
loopVars == <<pos, header, readErr>>
batchVars == <<batch, batchBytes>>
fatVars == <<pending, pendingSize, uuids>>
ghostVars == <<ending, lossy, ingests>>
vars == <<argVars, pc, loopVars, batchVars, fatVars, outcome, ghostVars,
          storeVars, metaVars, cache>>

Phases == {"idle", "nodes", "edges", "save", "writing", "closing"}
Outcomes == {"none", "rejected", "error", "success"}
Endings == {"none", "closed", "unflushed", "crashed"}

\* A sequence, of whatever blobs.
IsList(s) == Len(s) \in Nat /\ s = [i \in 1..Len(s) |-> s[i]]

TypeOK ==
  /\ nodesFile \in NodeFiles \cup {<<>>}
  /\ edgesFile \in EdgeFiles \cup {<<>>}
  /\ yolo \in BOOLEAN
  /\ pc \in Phases
  /\ pos \in Nat \ {0}
  /\ header \in Seq(Tokens)
  /\ readErr \in BOOLEAN
  /\ IsBundle(batch)
  /\ batchBytes \in Nat
  /\ pending = [l \in Tokens |-> pending[l]]
  /\ \A l \in Tokens : IsList(pending[l])
  /\ pendingSize \in [Tokens -> Nat]
  /\ uuids \in Nat
  /\ outcome \in Outcomes
  /\ ending \in Endings
  /\ lossy \in BOOLEAN
  /\ ingests \in Nat
  /\ StoreTypeOK
  /\ MetaTypeOK
  /\ cache = [id \in DOMAIN cache |-> cache[id]]

NoPending == [l \in Tokens |-> <<>>]
FatHeader == 4                                \* the count of a fat batch
NoPendingSize == [l \in Tokens |-> FatHeader]

Init ==
  /\ nodesFile = <<>> /\ edgesFile = <<>> /\ yolo = FALSE
  /\ pc = "idle"
  /\ pos = 1 /\ header = NoHeader /\ readErr = FALSE
  /\ batch = Nothing /\ batchBytes = 0
  /\ pending = NoPending /\ pendingSize = NoPendingSize /\ uuids = 0
  /\ outcome = "none" /\ ending = "none" /\ lossy = FALSE /\ ingests = 0
  /\ StoreInit /\ MetaInit
  /\ cache = NewNodeCache

-----------------------------------------------------------------------------
(* What one record puts into the batch.                                    *)

NodeValue(rec) == [label |-> rec.label, props |-> rec.props]

EdgeId(rec) ==
  IF rec.id # "" THEN rec.id ELSE HashID[<<rec.src, rec.label, rec.dst>>]
EdgeValue(rec) ==
  [id |-> EdgeId(rec), label |-> rec.label,
   src |-> rec.src, dst |-> rec.dst, props |-> rec.props]

\* An index entry is a key with an empty value.
Entries(keys) == [k \in keys |-> ""]
PropKey(props, k, id) == <<k, Norm[props[k]], id>>
PropEntries(props, id) == Entries({PropKey(props, k, id) : k \in DOMAIN props})

NodePuts(rec) ==
  [Nothing EXCEPT
     !["nodes"]    = [id \in {rec.id} |-> NodeValue(rec)],
     !["nodeProp"] = PropEntries(rec.props, rec.id)]

\* Variant: the source is indexed twice, the target never.
EdgePutsSrcTwice(rec) ==
  [Nothing EXCEPT
     !["edges"]    = [id \in {EdgeId(rec)} |-> EdgeValue(rec)],
     !["edgeSrc"]  = Entries({<<rec.src, EdgeId(rec)>>}),
     !["edgeDst"]  = Entries({<<rec.src, EdgeId(rec)>>}),
     !["edgeProp"] = PropEntries(rec.props, EdgeId(rec))]

EdgePuts(rec) ==
  [Nothing EXCEPT
     !["edges"]    = [id \in {EdgeId(rec)} |-> EdgeValue(rec)],
     !["edgeSrc"]  = Entries({<<rec.src, EdgeId(rec)>>}),
     !["edgeDst"]  = Entries({<<rec.dst, EdgeId(rec)>>}),
     !["edgeProp"] = PropEntries(rec.props, EdgeId(rec))]

\* Variant: the endpoints are swapped.
MegaBlobSwapped(rec) ==
  [edge |-> EdgeValue(rec), src |-> Get(rec.dst), dst |-> Get(rec.src)]

\* The edge with the encoded endpoints, as far as the cache knows them.
MegaBlob(rec) ==
  [edge |-> EdgeValue(rec), src |-> Get(rec.src), dst |-> Get(rec.dst)]

\* Variant: the key is the label alone.
FatPutsPerLabel(blobs) ==
  [Nothing EXCEPT !["label"] = [k \in (DOMAIN blobs) \X {0} |-> blobs[k[1]]]]

\* One fat batch per label of blobs, each under a key of its own.
FatPuts(blobs) ==
  [Nothing EXCEPT
     !["label"] = [k \in (DOMAIN blobs) \X {uuids} |-> blobs[k[1]]]]

-----------------------------------------------------------------------------
(* Starting.                                                               *)

MayStart == pc = "idle" /\ ingests < MaxIngests

Invoke(n, e, y) ==
  /\ MayStart
  /\ nodesFile' = n /\ edgesFile' = e /\ yolo' = y
  /\ ending' = "none"
  /\ ingests' = ingests + 1

\* "Aborting ingestion due to validation errors": nothing was opened.
RejectIngest ==
  \E n \in NodeFiles, e \in EdgeFiles :
    /\ Invoke(n, e, FALSE)
    /\ ~ValidFiles(n, e) \/ "read" \in Faults
    /\ outcome' = "rejected"
    /\ UNCHANGED <<pc, loopVars, batchVars, fatVars, lossy, storeVars, metaVars, cache>>

OpenFails ==
  \E n \in NodeFiles, e \in EdgeFiles, y \in BOOLEAN :
    /\ Invoke(n, e, y)
    /\ y \/ ValidFiles(n, e)
    /\ "open" \in Faults
    /\ outcome' = "error"
    /\ UNCHANGED <<pc, loopVars, batchVars, fatVars, lossy, storeVars, metaVars, cache>>

\* Variant: the counts go on from those of the file there is.
BeginIngestAdding ==
  \E n \in NodeFiles, e \in EdgeFiles, y \in BOOLEAN :
    /\ Invoke(n, e, y)
    /\ y \/ ValidFiles(n, e)
    /\ pc' = "nodes"
    /\ outcome' = "none"
    /\ readErr' = FALSE
    /\ meta' = IF Loadable THEN metaFile.data ELSE NewMetaStore
    /\ cache' = NewNodeCache
    /\ UNCHANGED <<pos, header, batchVars, fatVars, lossy, storeVars, metaFile>>

\* The store is opened; metadata and cache start empty, whatever the database
\* already holds.
BeginIngest ==
  \E n \in NodeFiles, e \in EdgeFiles, y \in BOOLEAN :
    /\ Invoke(n, e, y)
    /\ y \/ ValidFiles(n, e)
    /\ pc' = "nodes"
    /\ outcome' = "none"
    /\ readErr' = FALSE
    /\ meta' = NewMetaStore
    /\ cache' = NewNodeCache
    /\ UNCHANGED <<pos, header, batchVars, fatVars, lossy, storeVars, metaFile>>

-----------------------------------------------------------------------------
(* The scanning loops.                                                     *)

Scanned == IF pc = "nodes" THEN nodesFile ELSE edgesFile
AtLine == pc \in {"nodes", "edges"} /\ pos <= Len(Scanned) /\ ~readErr
HasLine == AtLine /\ ~TooLongToIngest(Scanned[pos])

\* bufio.Scanner hands over what it has of a line when a read fails, and
\* reports the failure only afterwards.  An empty last cell reads like none.
Cuts(line) ==
  UNION {{Append(SubSeq(line, 1, c - 1), t) : t \in Prefixes[line[c]]} : c \in 1..Len(line)}
Texts ==
  {line \in {Scanned[pos]} \cup (IF "read" \in Faults THEN Cuts(Scanned[pos]) ELSE {}) :
     ~TooLongToIngest(line)}

IsNodeRow(line) == IsIngestRow(header, line) /\ AcceptsNode(ParseLine(header, line))
IsEdgeRow(line) == IsIngestRow(header, line) /\ AcceptsEdge(ParseLine(header, line))

ReadHeader ==
  /\ HasLine
  /\ IsIngestHeader(Scanned[pos])
  /\ header' = Scanned[pos]
  /\ pos' = pos + 1
  /\ UNCHANGED <<argVars, pc, readErr, batchVars, fatVars, outcome, ghostVars,
                 storeVars, metaVars, cache>>

\* Variant: the loop has no answer to a row it cannot use.
SkipBlankOnly ==
  /\ HasLine /\ IsBlank(Scanned[pos])
  /\ pos' = pos + 1
  /\ UNCHANGED <<argVars, pc, header, readErr, batchVars, fatVars, outcome, ghostVars,
                 storeVars, metaVars, cache>>

\* Blank lines, rows before any header, rows with a missing special column.
SkipLine ==
  /\ HasLine
  /\ ~IsIngestHeader(Scanned[pos])
  /\ IF pc = "nodes" THEN ~IsNodeRow(Scanned[pos]) ELSE ~IsEdgeRow(Scanned[pos])
  /\ pos' = pos + 1
  /\ UNCHANGED <<argVars, pc, header, readErr, batchVars, fatVars, outcome, ghostVars,
                 storeVars, metaVars, cache>>

\* The early returns of the loops: the batch is destroyed with what it holds.
Fail ==
  /\ pc' = "closing"
  /\ outcome' = "error"
  /\ batch' = Nothing /\ batchBytes' = 0

\* Variant: the batch is written before the record that fills it is added.
WriteOutEarly(filled) == Write(batch) /\ batch' = Nothing /\ batchBytes' = 0

WriteOut(filled) == Write(filled) /\ batch' = Nothing /\ batchBytes' = 0

\* The record's puts join the batch, which is written when it is big enough.
Commit(puts, size) ==
  LET filled == Layer(puts, batch)
      bytes == batchBytes + size
  IN  \/ /\ bytes < MaxBatchSizeBytes
         /\ batch' = filled /\ batchBytes' = bytes
         /\ pos' = pos + 1
         /\ UNCHANGED <<pc, outcome, storeVars>>
      \/ /\ bytes >= MaxBatchSizeBytes
         /\ WriteOut(filled)
         /\ pos' = pos + 1
         /\ UNCHANGED <<pc, outcome>>
      \/ /\ bytes >= MaxBatchSizeBytes
         /\ "write" \in Faults
         /\ Fail
         /\ UNCHANGED <<pos, storeVars>>

PutNode ==
  /\ pc = "nodes" /\ AtLine
  /\ \E line \in Texts, size \in RecordBytes :
       LET rec == ParseLine(header, line)
       IN  /\ IsNodeRow(line)
           /\ readErr' = (line # Scanned[pos])
           /\ Put(rec.id, NodeValue(rec))
           /\ IncNode(rec.label, DOMAIN rec.props)
           /\ Commit(NodePuts(rec), size)
  /\ UNCHANGED <<argVars, header, fatVars, ghostVars, metaFile>>

\* The blob is pending under its label until the label has enough of them; the
\* bytes of a fat batch are not added to currentBatchBytes.
AddBlob(rec, size, blobSize) ==
  LET l == rec.label
      blobs == Append(pending[l], MegaBlob(rec))
      grown == pendingSize[l] + 4 + blobSize
  IN \/ /\ grown < TargetMegaBlobSizeBytes
        /\ pending' = [pending EXCEPT ![l] = blobs]
        /\ pendingSize' = [pendingSize EXCEPT ![l] = grown]
        /\ Commit(EdgePuts(rec), size)
        /\ UNCHANGED uuids
     \/ /\ grown >= TargetMegaBlobSizeBytes
        /\ pending' = [pending EXCEPT ![l] = <<>>]
        /\ pendingSize' = [pendingSize EXCEPT ![l] = FatHeader]
        /\ uuids' = uuids + 1
        /\ Commit(Layer(EdgePuts(rec), FatPuts([k \in {l} |-> blobs])), size)

PutEdge ==
  /\ pc = "edges" /\ AtLine
  /\ \E line \in Texts, size \in RecordBytes, blobSize \in BlobBytes :
       LET rec == ParseLine(header, line)
       IN  /\ IsEdgeRow(line)
           /\ readErr' = (line # Scanned[pos])
           /\ IncEdge(rec.label, "", "", DOMAIN rec.props)
           /\ AddBlob(rec, size, blobSize)
  /\ UNCHANGED <<argVars, header, ghostVars, metaFile, cache>>

-----------------------------------------------------------------------------
(* After a loop.                                                           *)

\* Variant: scanner.Err() is never asked, any end of the scan is the file's.
ScanEndsQuietly(failed) ==
  ~failed /\ (pos > Len(Scanned) \/ TooLongToIngest(Scanned[pos]) \/ "read" \in Faults)

\* scanner.Scan() returned false: end of file, a line too long for the
\* buffer, or a failing read (an unreadable file fails before its first line).
ScanEnds(failed) ==
  \/ ~failed /\ pos > Len(Scanned) /\ ~readErr
  \/ failed /\ pos <= Len(Scanned) /\ TooLongToIngest(Scanned[pos])
  \/ failed /\ "read" \in Faults

\* Variant: the next scan starts before its first line.
FinalFlushToZero(rest, failed, next) ==
  /\ IF rest = Nothing THEN UNCHANGED storeVars ELSE Write(rest)
  /\ batch' = Nothing /\ batchBytes' = 0 /\ pos' = 0 /\ header' = NoHeader
  /\ pc' = next /\ UNCHANGED <<outcome, readErr>>

\* The final flush comes before scanner.Err() is looked at.
FinalFlush(rest, failed, next) ==
  /\ \/ /\ IF rest = Nothing THEN UNCHANGED storeVars ELSE Write(rest)
        /\ batch' = Nothing /\ batchBytes' = 0
        /\ pos' = 1 /\ header' = NoHeader
        /\ IF failed THEN pc' = "closing" /\ outcome' = "error"
                     ELSE pc' = next /\ UNCHANGED outcome
     \/ /\ rest # Nothing /\ "write" \in Faults
        /\ Fail
        /\ UNCHANGED <<pos, header, storeVars>>
  /\ UNCHANGED readErr

\* Variant: the last, partial batch of nodes is not written.
FinishNodesUnflushed ==
  /\ pc = "nodes"
  /\ \E failed \in BOOLEAN : ScanEnds(failed) /\ FinalFlush(Nothing, failed, "edges")
  /\ UNCHANGED <<argVars, fatVars, ghostVars, metaVars, cache>>

FinishNodes ==
  /\ pc = "nodes"
  /\ \E failed \in BOOLEAN : ScanEnds(failed) /\ FinalFlush(batch, failed, "edges")
  /\ UNCHANGED <<argVars, fatVars, ghostVars, metaVars, cache>>

\* Variant: a label with a single pending blob is overlooked.
UnwrittenMany == [l \in {k \in Tokens : Len(pending[k]) > 1} |-> pending[l]]

Unwritten == [l \in {k \in Tokens : pending[k] # <<>>} |-> pending[l]]

FinishEdges ==
  /\ pc = "edges"
  /\ \E failed \in BOOLEAN :
       /\ ScanEnds(failed)
       /\ FinalFlush(Layer(FatPuts(Unwritten), batch), failed, "save")
  /\ pending' = NoPending /\ pendingSize' = NoPendingSize
  /\ uuids' = uuids + 1
  /\ UNCHANGED <<argVars, ghostVars, metaVars, cache>>

\* os.WriteFile: open with O_TRUNC, then write.
SaveTruncate ==
  /\ pc = "save"
  /\ metaFile' = Torn
  /\ pc' = "writing"
  /\ UNCHANGED <<argVars, loopVars, batchVars, fatVars, outcome, ghostVars,
                 storeVars, meta, cache>>

\* "Ingestion completed successfully." is printed before the deferred Close.
SaveWrite ==
  /\ pc = "writing"
  /\ metaFile' = Complete(meta)
  /\ pc' = "closing"
  /\ outcome' = "success"
  /\ UNCHANGED <<argVars, loopVars, batchVars, fatVars, ghostVars, storeVars,
                 meta, cache>>

SaveFails ==
  /\ pc \in {"save", "writing"} /\ "save" \in Faults
  /\ pc' = "closing"
  /\ outcome' = "error"
  /\ UNCHANGED <<argVars, loopVars, batchVars, fatVars, ghostVars, storeVars,
                 metaVars, cache>>

-----------------------------------------------------------------------------
(* The store's own doings, and the end of the process's work on it.        *)

BackgroundFlush ==
  /\ pc # "idle"
  /\ \E cf \in Families : FlushFamily(cf)
  /\ UNCHANGED <<argVars, pc, loopVars, batchVars, fatVars, outcome, ghostVars,
                 metaVars, cache>>

\* The locals of the ingestion are gone, the store is left with the families
\* in kept on disk.
Leave(kept, how) ==
  /\ Vanish(kept)
  /\ ending' = how
  /\ lossy' = (lossy \/ \E cf \in Families \ kept : mem[cf] # EmptyMap)
  /\ pc' = "idle"
  /\ pos' = 1 /\ header' = NoHeader
  /\ batch' = Nothing /\ batchBytes' = 0
  /\ pending' = NoPending /\ pendingSize' = NoPendingSize
  /\ Clear
  /\ meta' = NewMetaStore
  /\ UNCHANGED <<argVars, readErr, uuids, outcome, ingests, metaFile>>

\* The deferred Close: RocksDB flushes every family.
CloseStore == pc = "closing" /\ Leave(Families, "closed")

\* Close reports nothing when some of those flushes fail.
CloseUnflushed ==
  /\ pc = "closing" /\ "close" \in Faults
  /\ \E kept \in SUBSET {cf \in Families : mem[cf] # EmptyMap} : Leave(kept, "unflushed")

Crash ==
  /\ pc # "idle" /\ "crash" \in Faults
  /\ Leave({}, "crashed")

Process ==
  \/ ReadHeader \/ SkipLine \/ PutNode \/ PutEdge
  \/ FinishNodes \/ FinishEdges
  \/ SaveTruncate \/ SaveWrite \/ SaveFails
  \/ CloseStore \/ CloseUnflushed

Next ==
  \/ RejectIngest \/ OpenFails \/ BeginIngest
  \/ Process \/ BackgroundFlush \/ Crash

Spec == Init /\ [][Next]_vars

\* ingest runs on the caller's goroutine until it returns; nothing obliges a
\* user to start it, RocksDB to flush early, or the process to crash.
FairSpec == Spec /\ WF_vars(Process)
=============================================================================
