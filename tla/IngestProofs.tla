---------------------------- MODULE IngestProofs ----------------------------
(***************************************************************************)
(* Proofs about an ingestion, for any files, thresholds, sizes and faults: *)
(* first that records, indexes and cache agree, then what it leaves in the *)
(* store: every edge has its blob, every accepted row its record and its   *)
(* entries, and the metadata file is completed only after them.            *)
(***************************************************************************)
EXTENDS IngestRefinement, PGDFProofs

-----------------------------------------------------------------------------
(* Layering bundles of key-value maps.                                     *)

\* Laying batches over a store one after the other or all at once is the same:
\* why a reader cannot tell a flushed family from one in its memtable.
LEMMA LayerAssoc ==
  ASSUME NEW a, NEW b, NEW c
  PROVE  Layer(Layer(a, b), c) = Layer(a, Layer(b, c))
BY DEF Layer, Overlay

\* Records and entries that agree in two bundles agree in their overlay.
LEMMA LayerConsistent ==
  ASSUME NEW a, NEW b, Consistent(a), Consistent(b)
  PROVE  Consistent(Layer(a, b))
<1> DEFINE c == Layer(a, b)
<1>1. \A cf \in Families : DOMAIN c[cf] = DOMAIN a[cf] \cup DOMAIN b[cf]
  BY DEF Layer, Overlay
<1>2. \A cf \in Families : \A k \in DOMAIN c[cf] :
        \/ k \in DOMAIN a[cf] /\ c[cf][k] = a[cf][k]
        \/ k \in DOMAIN b[cf] /\ c[cf][k] = b[cf][k]
  BY DEF Layer, Overlay
<1>3. {"nodes", "edges", "nodeProp", "edgeProp", "edgeSrc", "edgeDst"} \subseteq Families
  BY DEF Families
<1> HIDE DEF c
<1>4. Indexed(c)
  <2>1. ASSUME NEW id \in DOMAIN c["nodes"], NEW k \in DOMAIN c["nodes"][id].props
        PROVE  PropKey(c["nodes"][id].props, k, id) \in DOMAIN c["nodeProp"]
    BY <1>1, <1>2, <1>3 DEF Consistent, Indexed
  <2>2. ASSUME NEW id \in DOMAIN c["edges"]
        PROVE  /\ <<c["edges"][id].src, id>> \in DOMAIN c["edgeSrc"]
               /\ <<c["edges"][id].dst, id>> \in DOMAIN c["edgeDst"]
    BY <1>1, <1>2, <1>3 DEF Consistent, Indexed
  <2>3. ASSUME NEW id \in DOMAIN c["edges"], NEW k \in DOMAIN c["edges"][id].props
        PROVE  PropKey(c["edges"][id].props, k, id) \in DOMAIN c["edgeProp"]
    <3>1. CASE id \in DOMAIN a["edges"] /\ c["edges"][id] = a["edges"][id]
      BY <1>1, <1>3, <2>3, <3>1 DEF Consistent, Indexed
    <3>2. CASE id \in DOMAIN b["edges"] /\ c["edges"][id] = b["edges"][id]
      BY <1>1, <1>3, <2>3, <3>2 DEF Consistent, Indexed
    <3> QED
      BY <1>2, <1>3, <2>3, <3>1, <3>2
  <2> QED
    BY <2>1, <2>2, <2>3 DEF Indexed
<1>5. NoOrphans(c)
  BY <1>1, <1>3 DEF Consistent, NoOrphans
<1> QED
  BY <1>4, <1>5 DEF Consistent, c

\* What one node record puts is complete in itself.
LEMMA NodePutsConsistent ==
  ASSUME NEW rec
  PROVE  Consistent(NodePuts(rec))
<1> DEFINE p == NodePuts(rec)
<1>1. /\ p["nodes"] = [id \in {rec.id} |-> NodeValue(rec)]
      /\ p["nodeProp"] = PropEntries(rec.props, rec.id)
      /\ \A cf \in Families \ {"nodes", "nodeProp"} : p[cf] = EmptyMap
  BY DEF NodePuts, Nothing, Families
<1>2. \A cf \in Families \ {"nodes", "nodeProp"} : DOMAIN p[cf] = {}
  BY <1>1 DEF EmptyMap
<1>3. DOMAIN p["nodeProp"] = {PropKey(rec.props, k, rec.id) : k \in DOMAIN rec.props}
  BY <1>1 DEF PropEntries, Entries
<1> HIDE DEF p
<1>4. Indexed(p)
  BY <1>1, <1>2, <1>3 DEF Indexed, NodeValue, Families
<1>5. NoOrphans(p)
  BY <1>1, <1>2, <1>3 DEF NoOrphans, PropKey, Families
<1> QED
  BY <1>4, <1>5 DEF Consistent, p

\* So is what one edge record puts.
LEMMA EdgePutsConsistent ==
  ASSUME NEW rec
  PROVE  Consistent(EdgePuts(rec))
<1> DEFINE p == EdgePuts(rec)
<1>1. /\ p["edges"] = [id \in {EdgeId(rec)} |-> EdgeValue(rec)]
      /\ p["edgeSrc"] = Entries({<<rec.src, EdgeId(rec)>>})
      /\ p["edgeDst"] = Entries({<<rec.dst, EdgeId(rec)>>})
      /\ p["edgeProp"] = PropEntries(rec.props, EdgeId(rec))
      /\ p["nodes"] = EmptyMap /\ p["nodeProp"] = EmptyMap
  BY DEF EdgePuts, Nothing, Families
<1>2. DOMAIN p["nodes"] = {} /\ DOMAIN p["nodeProp"] = {}
  BY <1>1 DEF EmptyMap
<1>3. /\ DOMAIN p["edgeProp"] =
           {PropKey(rec.props, k, EdgeId(rec)) : k \in DOMAIN rec.props}
      /\ DOMAIN p["edgeSrc"] = {<<rec.src, EdgeId(rec)>>}
      /\ DOMAIN p["edgeDst"] = {<<rec.dst, EdgeId(rec)>>}
  BY <1>1 DEF PropEntries, Entries
<1> HIDE DEF p
<1>4. Indexed(p)
  BY <1>1, <1>2, <1>3 DEF Indexed, EdgeValue
<1>5. NoOrphans(p)
  BY <1>1, <1>2, <1>3 DEF NoOrphans, PropKey
<1> QED
  BY <1>4, <1>5 DEF Consistent, p

\* A bundle with no records and no entries, as fat batches are.
LEMMA NoRecordsConsistent ==
  ASSUME NEW b, \A cf \in Families \ {"label"} : b[cf] = EmptyMap
  PROVE  Consistent(b)
<1>1. \A cf \in Families \ {"label"} : DOMAIN b[cf] = {}
  BY DEF EmptyMap
<1> QED
  BY <1>1 DEF Consistent, Indexed, NoOrphans, Families

\* A write of fat batches alone touches none of the indexed families.
LEMMA FatPutsConsistent ==
  ASSUME NEW blobs
  PROVE  Consistent(FatPuts(blobs))
<1>1. \A cf \in Families \ {"label"} : FatPuts(blobs)[cf] = EmptyMap
  BY DEF FatPuts, Nothing
<1> QED
  BY <1>1, NoRecordsConsistent

\* The empty batch and the empty store are consistent.
LEMMA NothingConsistent == Consistent(Nothing)
<1>1. \A cf \in Families \ {"label"} : Nothing[cf] = EmptyMap
  BY DEF Nothing
<1> QED
  BY <1>1, NoRecordsConsistent

-----------------------------------------------------------------------------
(* What a reader of the store sees, under the steps of the store.          *)

IsMap(f) == f = [k \in DOMAIN f |-> f[k]]

\* Laying nothing over a map changes nothing.
LEMMA OverlayEmpty ==
  ASSUME NEW f, IsMap(f)
  PROVE  Overlay(EmptyMap, f) = f
BY DEF Overlay, EmptyMap, IsMap

\* Whatever is laid over whatever, the result is a map.
LEMMA OverlayIsMap ==
  ASSUME NEW f, NEW g
  PROVE  IsMap(Overlay(f, g))
BY DEF Overlay, IsMap

\* Whatever is layered over whatever, the result is a bundle.
LEMMA LayerIsBundle ==
  ASSUME NEW a, NEW b
  PROVE  IsBundle(Layer(a, b))
BY DEF Layer, Overlay, IsBundle

\* The empty bundle is a bundle.
LEMMA NothingIsBundle == IsBundle(Nothing)
BY DEF Nothing, EmptyMap, IsBundle

\* A write shows at once, over everything written before.
LEMMA WriteView ==
  ASSUME NEW b, Write(b)
  PROVE  View' = Layer(b, View) /\ (StoreTypeOK => StoreTypeOK')
<1>1. View' = Layer(Layer(b, mem), sst)
  BY DEF Write, View
<1>2. IsBundle(mem')
  BY LayerIsBundle DEF Write
<1> QED
  BY <1>1, <1>2, LayerAssoc DEF View, Write, StoreTypeOK

\* A background flush shows nothing.
LEMMA FlushView ==
  ASSUME StoreTypeOK, NEW cf \in Families, FlushFamily(cf)
  PROVE  View' = View /\ StoreTypeOK'
<1>1. /\ mem' = [c \in Families |-> IF c = cf THEN EmptyMap ELSE mem[c]]
      /\ sst' = [c \in Families |-> IF c = cf THEN Overlay(mem[cf], sst[cf]) ELSE sst[c]]
  BY DEF FlushFamily, StoreTypeOK, IsBundle
<1>2. Overlay(EmptyMap, Overlay(mem[cf], sst[cf])) = Overlay(mem[cf], sst[cf])
  BY OverlayEmpty, OverlayIsMap
<1>3. \A c \in Families : Overlay(mem'[c], sst'[c]) = Overlay(mem[c], sst[c])
  BY <1>1, <1>2
<1>4. View' = View
  BY <1>3 DEF View, Layer
<1>5. \A c \in Families : IsMap(mem'[c]) /\ IsMap(sst'[c])
  <2>1. IsMap(EmptyMap)
    BY DEF IsMap, EmptyMap
  <2> QED
    BY <1>1, <2>1, OverlayIsMap DEF StoreTypeOK, IsBundle, IsMap
<1> QED
  BY <1>1, <1>4, <1>5 DEF StoreTypeOK, IsBundle, IsMap

\* Leaving the store shows nothing either, unless a memtable is lost.
LEMMA VanishView ==
  ASSUME StoreTypeOK, NEW kept, Vanish(kept)
  PROVE  /\ StoreTypeOK'
         /\ (\A cf \in Families \ kept : mem[cf] = EmptyMap) => View' = View
<1>1. \A cf \in Families : View[cf] = Overlay(mem[cf], sst[cf])
  BY DEF View, Layer
<1>2. \A cf \in Families :
        sst'[cf] = IF cf \in kept THEN Overlay(mem[cf], sst[cf]) ELSE sst[cf]
  BY <1>1 DEF Vanish
<1>3. \A cf \in Families : IsMap(sst'[cf])
  BY <1>2, OverlayIsMap DEF StoreTypeOK, IsBundle, IsMap
<1>4. StoreTypeOK'
  BY <1>3, NothingIsBundle DEF StoreTypeOK, IsBundle, Vanish, IsMap
<1>5. ASSUME \A cf \in Families \ kept : mem[cf] = EmptyMap
      PROVE  View' = View
  <2>1. \A cf \in Families : mem'[cf] = EmptyMap
    BY DEF Vanish, Nothing
  <2>2. \A cf \in Families : Overlay(mem'[cf], sst'[cf]) = sst'[cf]
    BY <2>1, <1>3, OverlayEmpty
  <2>3. \A cf \in Families \ kept : Overlay(mem[cf], sst[cf]) = sst[cf]
    BY <1>5, OverlayEmpty DEF StoreTypeOK, IsBundle, IsMap
  <2>4. \A cf \in Families : Overlay(mem'[cf], sst'[cf]) = Overlay(mem[cf], sst[cf])
    BY <2>2, <2>3, <1>2
  <2> QED
    BY <2>4 DEF View, Layer
<1> QED
  BY <1>4, <1>5

-----------------------------------------------------------------------------
(* The indexes.                                                            *)

\* The store is consistent only because the batch about to join it is.
IndexInv ==
  /\ StoreTypeOK
  /\ Consistent(batch)
  /\ IndexesConsistent

\* A new database is consistent.
LEMMA IndexInit == Init => IndexInv
<1> SUFFICES ASSUME Init PROVE IndexInv
  OBVIOUS
<1>1. View = Nothing
  BY DEF Init, StoreInit, View, Layer, Overlay, Nothing, EmptyMap
<1> QED
  BY <1>1, NothingIsBundle, NothingConsistent
  DEF Init, StoreInit, StoreTypeOK, IndexInv, IndexesConsistent

\* Whatever a record puts, committing it keeps the invariant.
LEMMA CommitKeepsIndexes ==
  ASSUME IndexInv, NEW puts, Consistent(puts), NEW size, Commit(puts, size),
         lossy' = lossy
  PROVE  IndexInv'
<1>1. Consistent(Layer(puts, batch))
  BY LayerConsistent DEF IndexInv
<1>2. CASE UNCHANGED storeVars /\ batch' = Layer(puts, batch)
  BY <1>1, <1>2 DEF IndexInv, storeVars, StoreTypeOK, IndexesConsistent, View
<1>3. CASE WriteOut(Layer(puts, batch))
  <2>1. View' = Layer(Layer(puts, batch), View) /\ StoreTypeOK'
    BY <1>3, WriteView DEF WriteOut, IndexInv
  <2>2. ~lossy => Consistent(View')
    BY <2>1, <1>1, LayerConsistent DEF IndexInv, IndexesConsistent
  <2> QED
    BY <2>1, <2>2, <1>3, NothingConsistent DEF WriteOut, IndexInv, IndexesConsistent
<1>4. CASE Fail /\ UNCHANGED storeVars
  BY <1>4, NothingConsistent
  DEF Fail, IndexInv, storeVars, StoreTypeOK, IndexesConsistent, View
<1> QED
  BY <1>2, <1>3, <1>4 DEF Commit

\* So does the final flush of a loop.
LEMMA FinalFlushKeepsIndexes ==
  ASSUME IndexInv, NEW rest, Consistent(rest), NEW failed, NEW next,
         FinalFlush(rest, failed, next), lossy' = lossy
  PROVE  IndexInv'
<1>1. batch' = Nothing
  BY DEF FinalFlush, Fail
<1>2. CASE Write(rest)
  <2>1. View' = Layer(rest, View) /\ StoreTypeOK'
    BY <1>2, WriteView DEF IndexInv
  <2>2. ~lossy => Consistent(View')
    BY <2>1, LayerConsistent DEF IndexInv, IndexesConsistent
  <2> QED
    BY <2>1, <2>2, <1>1, NothingConsistent DEF IndexInv, IndexesConsistent
<1>3. CASE UNCHANGED storeVars
  BY <1>1, <1>3, NothingConsistent
  DEF IndexInv, storeVars, StoreTypeOK, IndexesConsistent, View
<1> QED
  BY <1>2, <1>3 DEF FinalFlush

\* And the end of the process's work, orderly or not.
LEMMA LeaveKeepsIndexes ==
  ASSUME IndexInv, NEW kept, NEW how, Leave(kept, how)
  PROVE  IndexInv'
<1>1. Vanish(kept) /\ batch' = Nothing
  BY DEF Leave
<1>2. StoreTypeOK'
  BY <1>1, VanishView DEF IndexInv
<1>3. ASSUME ~lossy'
      PROVE  ~lossy /\ View' = View
  <2>1. ~lossy /\ \A cf \in Families \ kept : mem[cf] = EmptyMap
    BY <1>3 DEF Leave
  <2> QED
    BY <2>1, <1>1, VanishView DEF IndexInv
<1> QED
  BY <1>1, <1>2, <1>3, NothingConsistent DEF IndexInv, IndexesConsistent

\* Every step keeps batch and store consistent, loss of a memtable aside.
LEMMA IndexNext == IndexInv /\ [Next]_vars => IndexInv'
<1> SUFFICES ASSUME IndexInv, [Next]_vars PROVE IndexInv'
  OBVIOUS
<1> USE DEF ghostVars, batchVars
<1>1. CASE UNCHANGED <<batch, lossy, storeVars>>
  BY <1>1 DEF IndexInv, storeVars, StoreTypeOK, IndexesConsistent, View
<1>2. CASE RejectIngest \/ OpenFails \/ BeginIngest
  BY <1>1, <1>2 DEF RejectIngest, OpenFails, BeginIngest
<1>3. CASE ReadHeader \/ SkipLine
  BY <1>1, <1>3 DEF ReadHeader, SkipLine
<1>4. CASE PutNode
  <2>1. PICK puts, size : Commit(puts, size) /\ Consistent(puts)
    BY <1>4, NodePutsConsistent DEF PutNode
  <2> QED
    BY <1>4, <2>1, CommitKeepsIndexes DEF PutNode
<1>5. CASE PutEdge
  <2>1. PICK rec, size, blobSize : AddBlob(rec, size, blobSize)
    BY <1>5 DEF PutEdge
  <2>2. PICK puts : Commit(puts, size) /\ Consistent(puts)
    BY <2>1, EdgePutsConsistent, FatPutsConsistent, LayerConsistent DEF AddBlob
  <2> QED
    BY <1>5, <2>2, CommitKeepsIndexes DEF PutEdge
<1>6. CASE FinishNodes
  BY <1>6, FinalFlushKeepsIndexes DEF FinishNodes, IndexInv
<1>7. CASE FinishEdges
  <2>1. Consistent(Layer(FatPuts(Unwritten), batch))
    BY FatPutsConsistent, LayerConsistent DEF IndexInv
  <2> QED
    BY <1>7, <2>1, FinalFlushKeepsIndexes DEF FinishEdges
<1>8. CASE SaveTruncate \/ SaveWrite \/ SaveFails
  BY <1>1, <1>8 DEF SaveTruncate, SaveWrite, SaveFails
<1>9. CASE CloseStore \/ CloseUnflushed \/ Crash
  BY <1>9, LeaveKeepsIndexes DEF CloseStore, CloseUnflushed, Crash
<1>10. CASE BackgroundFlush
  <2>1. PICK cf \in Families : FlushFamily(cf)
    BY <1>10 DEF BackgroundFlush
  <2>2. View' = View /\ StoreTypeOK'
    BY <2>1, FlushView DEF IndexInv
  <2> QED
    BY <1>10, <2>2 DEF BackgroundFlush, IndexInv, IndexesConsistent
<1>11. CASE UNCHANGED vars
  BY <1>1, <1>11 DEF vars
<1> QED
  BY <1>2, <1>3, <1>4, <1>5, <1>6, <1>7, <1>8, <1>9, <1>10, <1>11 DEF Next, Process

\* Whatever files are ingested, however often and whatever fails, the store
\* and its secondary indexes agree until a memtable is lost: records and their
\* entries travel in one batch from ingestor.go to RocksDB.
THEOREM IndexesAlwaysConsistent == Spec => []IndexesConsistent
<1>1. IndexInv => IndexesConsistent
  BY DEF IndexInv
<1> QED
  BY <1>1, IndexInit, IndexNext, PTL DEF Spec

-----------------------------------------------------------------------------
(* The types.                                                              *)

\* A member of Seq(S) is a list.
LEMMA SeqIsList ==
  ASSUME NEW S, NEW s \in Seq(S)
  PROVE  IsList(s)
<1>1. Len(s) \in Nat /\ s \in [1..Len(s) -> S]
  OBVIOUS
<1> QED
  BY <1>1 DEF IsList

\* A list with one more blob is a list.
LEMMA AppendIsList ==
  ASSUME NEW s, IsList(s), NEW x
  PROVE  IsList(Append(s, x))
<1> DEFINE S == {s[i] : i \in 1..Len(s)} \cup {x}
<1>1. s \in Seq(S)
  BY DEF IsList
<1>2. Append(s, x) \in Seq(S)
  BY <1>1
<1> QED
  BY <1>2, SeqIsList

\* A new database is well typed.
LEMMA TypeInit == Init => TypeOK
<1> SUFFICES ASSUME Init PROVE TypeOK
  OBVIOUS
<1>1. IsList(<<>>)
  BY DEF IsList
<1>2. \A l \in Tokens : NoPending[l] = <<>>
  BY DEF NoPending
<1>3. StoreTypeOK /\ IsBundle(batch)
  BY NothingIsBundle DEF Init, StoreInit, StoreTypeOK
<1>4. MetaTypeOK
  BY DEF Init, MetaInit, MetaTypeOK, NewMetaStore, Absent
<1>5. <<>> \in Seq(Tokens)
  OBVIOUS
<1>6. pending = [l \in Tokens |-> pending[l]] /\ \A l \in Tokens : IsList(pending[l])
  BY <1>1, <1>2 DEF Init, NoPending
<1>7. pendingSize \in [Tokens -> Nat] /\ header \in Seq(Tokens)
  BY <1>5 DEF Init, NoPendingSize, FatHeader, NoHeader
<1>8. cache = [id \in DOMAIN cache |-> cache[id]]
  BY DEF Init, NewNodeCache
<1>9. /\ nodesFile \in NodeFiles \cup {<<>>} /\ edgesFile \in EdgeFiles \cup {<<>>}
      /\ yolo \in BOOLEAN /\ lossy \in BOOLEAN /\ readErr \in BOOLEAN
  BY DEF Init
<1>10. /\ pc \in Phases /\ outcome \in Outcomes /\ ending \in Endings
       /\ pos \in Nat \ {0} /\ batchBytes \in Nat /\ uuids \in Nat /\ ingests \in Nat
  BY DEF Init, Phases, Outcomes, Endings
<1> QED
  BY <1>3, <1>4, <1>6, <1>7, <1>8, <1>9, <1>10 DEF TypeOK

\* The line being read is one, so a header is a sequence of tokens.
LEMMA HeaderType ==
  ASSUME TypeOK, ReadHeader
  PROVE  header' \in Seq(Tokens)
<1>1. Scanned \in File \cup {<<>>}
  BY IngestAssumption DEF TypeOK, Scanned
<1>2. pos \in 1..Len(Scanned)
  BY <1>1 DEF ReadHeader, HasLine, AtLine, TypeOK, File
<1>3. Scanned \in Seq(Line)
  <2>1. <<>> \in Seq(Line)
    OBVIOUS
  <2> QED
    BY <1>1, <2>1 DEF File
<1>4. Scanned[pos] \in Line
  BY <1>2, <1>3
<1> QED
  BY <1>4 DEF ReadHeader, Line

\* Adding one record to the batch, written or not, keeps the types.
LEMMA CommitType ==
  ASSUME TypeOK, NEW puts, NEW size \in RecordBytes, Commit(puts, size)
  PROVE  /\ IsBundle(batch') /\ batchBytes' \in Nat /\ pos' \in Nat \ {0}
         /\ pc' \in Phases /\ outcome' \in Outcomes /\ StoreTypeOK'
<1>1. size \in Nat /\ MaxBatchSizeBytes \in Nat
  BY IngestAssumption
<1>2. IsBundle(Layer(puts, batch))
  BY LayerIsBundle
<1>3. ASSUME WriteOut(Layer(puts, batch)) PROVE StoreTypeOK'
  BY <1>3, WriteView DEF WriteOut, TypeOK
<1>4. UNCHANGED storeVars => StoreTypeOK'
  BY DEF TypeOK, storeVars, StoreTypeOK
<1> QED
  BY <1>1, <1>2, <1>3, <1>4, NothingIsBundle
  DEF Commit, WriteOut, Fail, TypeOK, Phases, Outcomes

\* The flush after a scanning loop keeps the types.
LEMMA FinalFlushType ==
  ASSUME TypeOK, NEW rest, NEW failed, NEW next \in Phases,
         FinalFlush(rest, failed, next)
  PROVE  /\ IsBundle(batch') /\ batchBytes' \in Nat /\ pos' \in Nat \ {0}
         /\ header' \in Seq(Tokens) /\ readErr' \in BOOLEAN
         /\ pc' \in Phases /\ outcome' \in Outcomes /\ StoreTypeOK'
<1>1. ASSUME Write(rest) PROVE StoreTypeOK'
  BY <1>1, WriteView DEF TypeOK
<1>2. UNCHANGED storeVars => StoreTypeOK'
  BY DEF TypeOK, storeVars, StoreTypeOK
<1>3. NoHeader \in Seq(Tokens)
  BY DEF NoHeader
<1>4. readErr' \in BOOLEAN
  BY DEF FinalFlush, TypeOK
<1> QED
  BY <1>1, <1>2, <1>3, <1>4, NothingIsBundle
  DEF FinalFlush, Fail, TypeOK, Phases, Outcomes

\* However the store is left, the types are kept.
LEMMA LeaveType ==
  ASSUME TypeOK, NEW kept, NEW how \in Endings, Leave(kept, how)
  PROVE  TypeOK'
<1>1. StoreTypeOK'
  BY VanishView DEF Leave, TypeOK
<1>2. IsList(<<>>) /\ NoHeader \in Seq(Tokens)
  BY DEF IsList, NoHeader
<1>3. MetaTypeOK'
  BY DEF Leave, TypeOK, MetaTypeOK, NewMetaStore
<1>4. lossy' \in BOOLEAN /\ readErr' \in BOOLEAN
  BY DEF Leave, TypeOK
<1> QED
  BY <1>1, <1>2, <1>3, <1>4, NothingIsBundle
  DEF Leave, TypeOK, argVars, Clear, NewNodeCache, NoPending, NoPendingSize,
      FatHeader, Phases

\* The counters of the metadata stay natural numbers.
LEMMA IncType ==
  ASSUME MetaTypeOK, NEW label, NEW s, NEW d, NEW props, UNCHANGED metaFile,
         IncNode(label, props) \/ IncEdge(label, s, d, props)
  PROVE  MetaTypeOK'
<1>1. CASE IncNode(label, props)
  <2>1. meta' = [f \in DOMAIN NewMetaStore |-> meta'[f]]
    BY <1>1 DEF MetaTypeOK, IncNode, NewMetaStore
  <2>2. meta'.nodeCount = meta.nodeCount + 1 /\ meta'.edgeCount = meta.edgeCount
    BY <1>1 DEF MetaTypeOK, IncNode, NewMetaStore
  <2> QED
    BY <2>1, <2>2 DEF MetaTypeOK
<1>2. CASE IncEdge(label, s, d, props)
  <2>1. meta' = [f \in DOMAIN NewMetaStore |-> meta'[f]]
    BY <1>2 DEF MetaTypeOK, IncEdge, NewMetaStore
  <2>2. meta'.nodeCount = meta.nodeCount /\ meta'.edgeCount = meta.edgeCount + 1
    BY <1>2 DEF MetaTypeOK, IncEdge, NewMetaStore
  <2> QED
    BY <2>1, <2>2 DEF MetaTypeOK
<1> QED
  BY <1>1, <1>2

\* Nothing but the arguments, the outcome and the ghosts changes at the start.
LEMMA InvokeType ==
  ASSUME TypeOK, NEW n \in NodeFiles, NEW e \in EdgeFiles, NEW y \in BOOLEAN,
         Invoke(n, e, y)
  PROVE  /\ nodesFile' \in NodeFiles \cup {<<>>} /\ edgesFile' \in EdgeFiles \cup {<<>>}
         /\ yolo' \in BOOLEAN /\ ending' \in Endings /\ ingests' \in Nat
BY DEF Invoke, TypeOK, Endings

\* Every step keeps the types.
LEMMA TypeNext == TypeOK /\ [Next]_vars => TypeOK'
<1> SUFFICES ASSUME TypeOK, [Next]_vars PROVE TypeOK'
  OBVIOUS
<1> USE DEF argVars, loopVars, batchVars, fatVars, ghostVars, storeVars, metaVars,
            vars
<1>1. CASE RejectIngest \/ OpenFails
  <2>1. PICK n \in NodeFiles, e \in EdgeFiles, y \in BOOLEAN : Invoke(n, e, y)
    BY <1>1 DEF RejectIngest, OpenFails
  <2>2. outcome' \in Outcomes
    BY <1>1 DEF RejectIngest, OpenFails, Outcomes
  <2>3. UNCHANGED <<pc, loopVars, batchVars, fatVars, lossy, storeVars, metaVars, cache>>
    BY <1>1 DEF RejectIngest, OpenFails
  <2> QED
    BY <2>1, <2>2, <2>3, InvokeType DEF TypeOK, StoreTypeOK, MetaTypeOK
<1>2. CASE BeginIngest
  <2>1. PICK n \in NodeFiles, e \in EdgeFiles, y \in BOOLEAN : Invoke(n, e, y)
    BY <1>2 DEF BeginIngest
  <2>2. outcome' \in Outcomes /\ pc' \in Phases
    BY <1>2 DEF BeginIngest, Outcomes, Phases
  <2>3. MetaTypeOK'
    <3>1. meta' = NewMetaStore /\ metaFile' = metaFile
      BY <1>2 DEF BeginIngest
    <3> QED
      BY <3>1 DEF TypeOK, MetaTypeOK, NewMetaStore
  <2>4. cache' = [id \in DOMAIN cache' |-> cache'[id]]
    BY <1>2 DEF BeginIngest, NewNodeCache
  <2>5. readErr' \in BOOLEAN /\ UNCHANGED <<pos, header, batchVars, fatVars, lossy, storeVars>>
    BY <1>2 DEF BeginIngest
  <2> QED
    BY <2>1, <2>2, <2>3, <2>4, <2>5, InvokeType DEF TypeOK, StoreTypeOK
<1>3. CASE ReadHeader
  <2>1. header' \in Seq(Tokens)
    BY <1>3, HeaderType
  <2> QED
    BY <1>3, <2>1 DEF ReadHeader, TypeOK, StoreTypeOK, MetaTypeOK
<1>4. CASE SkipLine
  BY <1>4 DEF SkipLine, TypeOK, StoreTypeOK, MetaTypeOK
<1>5. CASE PutNode
  <2>1. PICK puts : \E size \in RecordBytes : Commit(puts, size)
    BY <1>5 DEF PutNode
  <2>2. MetaTypeOK'
    BY <1>5, IncType DEF PutNode, TypeOK
  <2>3. cache' = [id \in DOMAIN cache' |-> cache'[id]]
    BY <1>5 DEF PutNode, Put
  <2>4. UNCHANGED <<argVars, header, fatVars, ghostVars>>
    BY <1>5 DEF PutNode
  <2>5. readErr' \in BOOLEAN
    BY <1>5 DEF PutNode
  <2> QED
    BY <2>1, <2>2, <2>3, <2>4, <2>5, CommitType DEF TypeOK
<1>6. CASE PutEdge
  <2>1. PICK rec : \E size \in RecordBytes, blobSize \in BlobBytes :
                     AddBlob(rec, size, blobSize)
    BY <1>6 DEF PutEdge
  <2>2. PICK puts : \E size \in RecordBytes : Commit(puts, size)
    BY <2>1 DEF AddBlob
  <2>3. MetaTypeOK'
    BY <1>6, IncType DEF PutEdge, TypeOK
  <2>4. /\ pending' = [l \in Tokens |-> pending'[l]]
        /\ \A l \in Tokens : IsList(pending'[l])
    <3>1. \/ pending' = [pending EXCEPT ![rec.label] =
                                Append(pending[rec.label], MegaBlob(rec))]
          \/ pending' = [pending EXCEPT ![rec.label] = <<>>]
      BY <2>1 DEF AddBlob
    <3>2. pending' = [l \in Tokens |-> pending'[l]]
      BY <3>1 DEF TypeOK
    <3>3. \A l \in Tokens : pending'[l] \in {pending[l], <<>>,
                                             Append(pending[l], MegaBlob(rec))}
      BY <3>1 DEF TypeOK
    <3>4. IsList(<<>>) /\ \A l \in Tokens : IsList(Append(pending[l], MegaBlob(rec)))
      BY AppendIsList DEF TypeOK, IsList
    <3> QED
      BY <3>2, <3>3, <3>4 DEF TypeOK
  <2>5. pendingSize' \in [Tokens -> Nat] /\ uuids' \in Nat
    <3>1. BlobBytes \subseteq Nat
      BY IngestAssumption
    <3>2. \/ \E blobSize \in BlobBytes :
               pendingSize' = [pendingSize EXCEPT ![rec.label] =
                                 pendingSize[rec.label] + 4 + blobSize]
          \/ pendingSize' = [pendingSize EXCEPT ![rec.label] = FatHeader]
      BY <2>1 DEF AddBlob
    <3>3. uuids' \in Nat
      <4>1. uuids' = uuids \/ uuids' = uuids + 1
        BY <2>1 DEF AddBlob
      <4> QED
        BY <4>1 DEF TypeOK
    <3>4. pendingSize' \in [Tokens -> Nat]
      <4>1. pendingSize \in [Tokens -> Nat]
        BY DEF TypeOK
      <4> QED
        BY <3>1, <3>2, <4>1 DEF FatHeader
    <3> QED
      BY <3>3, <3>4
  <2>6. UNCHANGED <<argVars, header, ghostVars, cache>>
    BY <1>6 DEF PutEdge
  <2>7. readErr' \in BOOLEAN
    BY <1>6 DEF PutEdge
  <2> QED
    BY <2>2, <2>3, <2>4, <2>5, <2>6, <2>7, CommitType DEF TypeOK
<1>7. CASE FinishNodes
  <2>1. PICK failed \in BOOLEAN : FinalFlush(batch, failed, "edges")
    BY <1>7 DEF FinishNodes
  <2>2. UNCHANGED <<argVars, fatVars, ghostVars, metaVars, cache>>
    BY <1>7 DEF FinishNodes
  <2> QED
    BY <2>1, <2>2, FinalFlushType DEF TypeOK, MetaTypeOK, Phases
<1>8. CASE FinishEdges
  <2>1. PICK rest : \E failed \in BOOLEAN : FinalFlush(rest, failed, "save")
    BY <1>8 DEF FinishEdges
  <2>2. UNCHANGED <<argVars, ghostVars, metaVars, cache>>
    BY <1>8 DEF FinishEdges
  <2>3. /\ pending' = [l \in Tokens |-> pending'[l]]
        /\ \A l \in Tokens : IsList(pending'[l])
    BY <1>8 DEF FinishEdges, NoPending, IsList
  <2>4. pendingSize' \in [Tokens -> Nat] /\ uuids' \in Nat
    BY <1>8 DEF FinishEdges, NoPendingSize, FatHeader, TypeOK
  <2> QED
    BY <2>1, <2>2, <2>3, <2>4, FinalFlushType DEF TypeOK, MetaTypeOK, Phases
<1>9. CASE SaveTruncate \/ SaveWrite \/ SaveFails
  <2>1. UNCHANGED <<argVars, loopVars, batchVars, fatVars, ghostVars, storeVars,
                    meta, cache>>
    BY <1>9 DEF SaveTruncate, SaveWrite, SaveFails
  <2>2. pc' \in Phases /\ outcome' \in Outcomes
    BY <1>9 DEF SaveTruncate, SaveWrite, SaveFails, Phases, Outcomes, TypeOK
  <2>3. metaFile'.state \in {"absent", "torn", "complete"}
    BY <1>9 DEF SaveTruncate, SaveWrite, SaveFails, Torn, Complete, TypeOK, MetaTypeOK
  <2> QED
    BY <2>1, <2>2, <2>3 DEF TypeOK, StoreTypeOK, MetaTypeOK
<1>10. CASE CloseStore \/ CloseUnflushed \/ Crash
  BY <1>10, LeaveType DEF CloseStore, CloseUnflushed, Crash, Endings
<1>11. CASE BackgroundFlush
  <2>1. PICK cf \in Families : FlushFamily(cf)
    BY <1>11 DEF BackgroundFlush
  <2>2. StoreTypeOK'
    BY <2>1, FlushView DEF TypeOK
  <2> QED
    BY <1>11, <2>2 DEF BackgroundFlush, TypeOK, MetaTypeOK
<1>12. CASE UNCHANGED vars
  BY <1>12 DEF TypeOK, StoreTypeOK, MetaTypeOK
<1> QED
  BY <1>1, <1>2, <1>3, <1>4, <1>5, <1>6, <1>7, <1>8, <1>9, <1>10, <1>11, <1>12
  DEF Next, Process

\* The state keeps its types: the scanner never runs off its file, headers are
\* lines of it, and counters, bundles and lists stay what the code declares.
THEOREM TypesAlwaysOK == Spec => []TypeOK
BY TypeInit, TypeNext, PTL DEF Spec

-----------------------------------------------------------------------------
(* The node cache.                                                         *)

\* Everything put so far: what the batch will make of what readers see.
Written == Layer(batch, View)

\* The cache follows what was written, in the batch or in the store; once the
\* edges are read no batch holds a node, so the store alone decides.
CacheInv ==
  /\ StoreTypeOK
  /\ pc \in {"nodes", "edges"} =>
       \A id \in DOMAIN cache : /\ id \in DOMAIN Written["nodes"]
                                /\ Written["nodes"][id] = cache[id]
  /\ pc = "edges" => batch["nodes"] = EmptyMap

\* What a reader sees is a bundle.
LEMMA ViewIsBundle == IsBundle(View)
BY LayerIsBundle DEF View

\* Writing the empty batch changes no family.
LEMMA LayerNothing ==
  ASSUME NEW b, IsBundle(b)
  PROVE  Layer(Nothing, b) = b
<1>1. \A cf \in Families : Overlay(Nothing[cf], b[cf]) = b[cf]
  BY OverlayEmpty DEF IsBundle, IsMap, Nothing
<1> QED
  BY <1>1 DEF Layer, IsBundle

\* Committing a record writes it, unless the loop is left.
LEMMA CommitWrites ==
  ASSUME StoreTypeOK, NEW puts, NEW size, Commit(puts, size), pc' # "closing"
  PROVE  Written' = Layer(puts, Written) /\ pc' = pc /\ StoreTypeOK'
<1>1. CASE UNCHANGED <<pc, storeVars>> /\ batch' = Layer(puts, batch)
  BY <1>1, LayerAssoc DEF Written, View, storeVars, StoreTypeOK
<1>2. CASE WriteOut(Layer(puts, batch)) /\ UNCHANGED pc
  <2>1. View' = Layer(Layer(puts, batch), View) /\ StoreTypeOK'
    BY <1>2, WriteView DEF WriteOut
  <2>2. Written' = View'
    BY <1>2, <2>1, LayerIsBundle, LayerNothing DEF Written, WriteOut
  <2> QED
    BY <1>2, <2>1, <2>2, LayerAssoc DEF Written
<1> QED
  BY <1>1, <1>2 DEF Commit, Fail

\* A loop that ends well has written everything, and the batch is empty.
LEMMA FinalFlushWrites ==
  ASSUME StoreTypeOK, NEW failed, NEW next, FinalFlush(batch, failed, next),
         pc' # "closing"
  PROVE  Written' = Written /\ batch' = Nothing /\ StoreTypeOK'
<1>1. batch' = Nothing
  BY DEF FinalFlush, Fail
<1>2. CASE Write(batch)
  <2>1. View' = Written /\ StoreTypeOK'
    BY <1>2, WriteView DEF Written
  <2>2. Written' = View'
    BY <1>1, <2>1, LayerIsBundle, LayerNothing DEF Written
  <2> QED
    BY <1>1, <2>1, <2>2
<1>3. CASE batch = Nothing /\ UNCHANGED storeVars
  BY <1>1, <1>3 DEF Written, View, storeVars, StoreTypeOK
<1> QED
  BY <1>2, <1>3 DEF FinalFlush, Fail

\* Adding one record to the batch keeps the store well typed.
LEMMA CommitStoreType ==
  ASSUME StoreTypeOK, NEW puts, NEW size, Commit(puts, size)
  PROVE  StoreTypeOK'
<1>1. WriteOut(Layer(puts, batch)) => StoreTypeOK'
  BY WriteView DEF WriteOut
<1> QED
  BY <1>1 DEF Commit, storeVars, StoreTypeOK

\* The flush after a loop keeps the store well typed.
LEMMA FinalFlushStoreType ==
  ASSUME StoreTypeOK, NEW rest, NEW failed, NEW next, FinalFlush(rest, failed, next)
  PROVE  StoreTypeOK'
<1>1. Write(rest) => StoreTypeOK'
  BY WriteView
<1> QED
  BY <1>1 DEF FinalFlush, storeVars, StoreTypeOK

\* A new database has an empty cache.
LEMMA CacheInit == Init => CacheInv
BY NothingIsBundle DEF Init, StoreInit, StoreTypeOK, CacheInv

\* Every step keeps the cache equal to what is or will be written.
LEMMA CacheNext == CacheInv /\ [Next]_vars => CacheInv'
<1> SUFFICES ASSUME CacheInv, [Next]_vars PROVE CacheInv'
  OBVIOUS
<1> USE DEF batchVars, metaVars
<1>1. CASE UNCHANGED <<pc, batch, storeVars, cache>>
  BY <1>1 DEF CacheInv, Written, View, storeVars, StoreTypeOK
<1>2. CASE RejectIngest \/ OpenFails \/ ReadHeader \/ SkipLine
  BY <1>1, <1>2 DEF RejectIngest, OpenFails, ReadHeader, SkipLine
<1>3. CASE BeginIngest
  <2>1. cache' = NewNodeCache /\ pc' = "nodes" /\ UNCHANGED storeVars
    BY <1>3 DEF BeginIngest
  <2>2. DOMAIN cache' = {}
    BY <2>1 DEF NewNodeCache
  <2> QED
    BY <2>1, <2>2 DEF CacheInv, storeVars, StoreTypeOK
<1>4. CASE PutNode
  <2>1. PICK rec, size : Commit(NodePuts(rec), size) /\ Put(rec.id, NodeValue(rec))
    BY <1>4 DEF PutNode
  <2>2. pc = "nodes"
    BY <1>4 DEF PutNode
  <2>3. CASE pc' = "closing"
    BY <2>1, <2>3, CommitStoreType DEF CacheInv
  <2>4. CASE pc' # "closing"
    <3>1. Written' = Layer(NodePuts(rec), Written) /\ pc' = "nodes" /\ StoreTypeOK'
      BY <2>1, <2>2, <2>4, CommitWrites DEF CacheInv
    <3>2. NodePuts(rec)["nodes"] = [id \in {rec.id} |-> NodeValue(rec)]
      BY DEF NodePuts, Nothing, Families
    <3>3. Written'["nodes"] = Overlay(NodePuts(rec)["nodes"], Written["nodes"])
      BY <3>1 DEF Layer, Families
    <3>4. ASSUME NEW id \in DOMAIN cache'
          PROVE  id \in DOMAIN Written'["nodes"] /\ Written'["nodes"][id] = cache'[id]
      <4>1. cache' = [k \in DOMAIN cache \cup {rec.id} |->
                        IF k = rec.id THEN NodeValue(rec) ELSE cache[k]]
        BY <2>1 DEF Put
      <4>2. CASE id = rec.id
        BY <4>1, <4>2, <3>2, <3>3 DEF Overlay
      <4>3. CASE id # rec.id
        <5>1. id \in DOMAIN Written["nodes"] /\ Written["nodes"][id] = cache'[id]
          BY <4>1, <4>3, <2>2 DEF CacheInv
        <5> QED
          BY <4>3, <5>1, <3>2, <3>3 DEF Overlay
      <4> QED
        BY <4>2, <4>3
    <3> QED
      BY <3>1, <3>4 DEF CacheInv
  <2> QED
    BY <2>3, <2>4
<1>5. CASE PutEdge
  <2>1. PICK puts, size : Commit(puts, size) /\ puts["nodes"] = EmptyMap
    <3>1. PICK rec, size, blobSize : AddBlob(rec, size, blobSize)
      BY <1>5 DEF PutEdge
    <3>2. EdgePuts(rec)["nodes"] = EmptyMap
      BY DEF EdgePuts, Nothing, Families
    <3>3. \A blobs : Layer(EdgePuts(rec), FatPuts(blobs))["nodes"] = EmptyMap
      BY <3>2 DEF FatPuts, Nothing, Families, Layer, Overlay, EmptyMap
    <3> QED
      BY <3>1, <3>2, <3>3 DEF AddBlob
  <2>2. pc = "edges" /\ UNCHANGED cache
    BY <1>5 DEF PutEdge
  <2>3. CASE pc' = "closing"
    BY <2>1, <2>3, CommitStoreType DEF CacheInv
  <2>4. CASE pc' # "closing"
    <3>1. Written' = Layer(puts, Written) /\ StoreTypeOK'
      BY <2>1, <2>4, CommitWrites DEF CacheInv
    <3>2. Written'["nodes"] = Written["nodes"]
      <4>1. IsMap(Written["nodes"])
        BY OverlayIsMap DEF Written, Layer, Families
      <4> QED
        BY <3>1, <2>1, <4>1, OverlayEmpty DEF Layer, Families
    <3>3. batch'["nodes"] = EmptyMap
      <4>1. Overlay(EmptyMap, EmptyMap) = EmptyMap
        BY DEF Overlay, EmptyMap
      <4>2. Layer(puts, batch)["nodes"] = EmptyMap
        BY <4>1, <2>1, <2>2 DEF CacheInv, Layer, Families
      <4> QED
        BY <4>2, <2>1 DEF Commit, WriteOut, Fail, Nothing, Families
    <3> QED
      BY <2>2, <3>1, <3>2, <3>3 DEF CacheInv
  <2> QED
    BY <2>3, <2>4
<1>6. CASE FinishNodes
  <2>1. PICK failed : FinalFlush(batch, failed, "edges")
    BY <1>6 DEF FinishNodes
  <2>2. pc = "nodes" /\ UNCHANGED cache
    BY <1>6 DEF FinishNodes
  <2>3. CASE pc' = "closing"
    BY <2>1, <2>3, FinalFlushStoreType DEF CacheInv
  <2>4. CASE pc' # "closing"
    <3>1. Written' = Written /\ batch' = Nothing /\ StoreTypeOK'
      BY <2>1, <2>4, FinalFlushWrites DEF CacheInv
    <3> QED
      BY <2>2, <3>1 DEF CacheInv, Nothing, Families
  <2> QED
    BY <2>3, <2>4
<1>7. CASE FinishEdges
  <2>1. pc' \in {"save", "closing"} /\ StoreTypeOK'
    <3>1. PICK rest, failed : FinalFlush(rest, failed, "save")
      BY <1>7 DEF FinishEdges
    <3>2. pc' \in {"save", "closing"}
      BY <3>1 DEF FinalFlush, Fail
    <3> QED
      BY <3>1, <3>2, FinalFlushStoreType DEF CacheInv
  <2> QED
    BY <2>1 DEF CacheInv
<1>8. CASE SaveTruncate \/ SaveWrite \/ SaveFails
  <2>1. pc' \in {"writing", "closing"} /\ UNCHANGED storeVars
    BY <1>8 DEF SaveTruncate, SaveWrite, SaveFails
  <2> QED
    BY <2>1 DEF CacheInv, storeVars, StoreTypeOK
<1>9. CASE CloseStore \/ CloseUnflushed \/ Crash
  <2>1. PICK kept : Vanish(kept) /\ pc' = "idle"
    BY <1>9 DEF CloseStore, CloseUnflushed, Crash, Leave
  <2> QED
    BY <2>1, VanishView DEF CacheInv
<1>10. CASE BackgroundFlush
  <2>1. PICK cf \in Families : FlushFamily(cf)
    BY <1>10 DEF BackgroundFlush
  <2>2. View' = View /\ StoreTypeOK'
    BY <2>1, FlushView DEF CacheInv
  <2> QED
    BY <1>10, <2>2 DEF BackgroundFlush, CacheInv, Written
<1>11. CASE UNCHANGED vars
  BY <1>1, <1>11 DEF vars
<1> QED
  BY <1>2, <1>3, <1>4, <1>5, <1>6, <1>7, <1>8, <1>9, <1>10, <1>11 DEF Next, Process

\* The label index copies endpoints from the cache instead of reading the store
\* (ingestor.go, cache.Get): whatever was flushed, overwritten or refused
\* before, the copy is the record the store holds.
THEOREM CacheAlwaysAgrees == Spec => []CacheAgrees
<1>1. CacheInv => CacheAgrees
  <2> SUFFICES ASSUME CacheInv, pc = "edges"
               PROVE  Written["nodes"] = View["nodes"]
    BY DEF CacheAgrees, CacheInv
  <2>1. IsMap(View["nodes"])
    BY ViewIsBundle DEF IsBundle, IsMap, Families
  <2> QED
    BY <2>1, OverlayEmpty DEF CacheInv, Written, Layer, Families
<1> QED
  BY <1>1, CacheInit, CacheNext, PTL DEF Spec

-----------------------------------------------------------------------------
(* The buffers and the outcome in each phase.                              *)

\* What the phase of an ingestion says of its buffers and of what it printed:
\* the buffers of the last loop are empty before anything is saved, an error
\* leads nowhere but to the closing, and nothing happened before the first \i.
FlowInv ==
  /\ pc \notin {"nodes", "edges"} => batch = Nothing
  /\ pc # "edges" /\ (pc # "closing" \/ outcome # "error") => pending = NoPending
  /\ pc \in {"nodes", "edges", "save", "writing"} => outcome = "none"
  /\ pc = "closing" => outcome \in {"error", "success"}
  /\ pc # "idle" => ending = "none"
  /\ ingests = 0 => /\ pc = "idle" /\ outcome = "none" /\ ending = "none"
                    /\ View = Nothing /\ ~readErr
  /\ pc = "nodes" => batch["edges"] = EmptyMap
  /\ readErr => outcome # "success" /\ (pc \in {"idle", "nodes", "edges"} \/ outcome = "error")

\* What committing a record does to the flow of control.
LEMMA CommitFlow ==
  ASSUME NEW puts, NEW size, Commit(puts, size)
  PROVE  \/ /\ UNCHANGED <<pc, outcome>> /\ pos' = pos + 1
            /\ batch' \in {Layer(puts, batch), Nothing}
         \/ /\ pc' = "closing" /\ outcome' = "error" /\ batch' = Nothing
            /\ UNCHANGED <<pos, storeVars>>
BY DEF Commit, WriteOut, Fail

\* What the final flush of a loop does to it.
LEMMA FinalFlushFlow ==
  ASSUME NEW rest, NEW failed \in BOOLEAN, NEW next, FinalFlush(rest, failed, next)
  PROVE  /\ batch' = Nothing /\ readErr' = readErr
         /\ \/ pc' = "closing" /\ outcome' = "error"
            \/ ~failed /\ pc' = next /\ outcome' = outcome
BY DEF FinalFlush, Fail

\* A new database is idle.
LEMMA FlowInit == Init => FlowInv
<1> SUFFICES ASSUME Init PROVE FlowInv
  OBVIOUS
<1>1. View = Nothing
  BY DEF Init, StoreInit, View, Layer, Overlay, Nothing, EmptyMap
<1> QED
  BY <1>1 DEF Init, FlowInv

\* What neither loop puts.
LEMMA NodePutsNoEdge ==
  ASSUME NEW rec, NEW b, b["edges"] = EmptyMap
  PROVE  Layer(NodePuts(rec), b)["edges"] = EmptyMap
<1>1. NodePuts(rec)["edges"] = EmptyMap
  BY DEF NodePuts, Nothing, Families
<1>2. Overlay(EmptyMap, EmptyMap) = EmptyMap
  BY DEF Overlay, EmptyMap
<1> QED
  BY <1>1, <1>2 DEF Layer, Families

\* Every step keeps what the phases say.
LEMMA FlowNext == TypeOK /\ FlowInv /\ [Next]_vars => FlowInv'
<1> SUFFICES ASSUME TypeOK, FlowInv, [Next]_vars PROVE FlowInv'
  OBVIOUS
<1> USE DEF loopVars, batchVars, fatVars, ghostVars
<1>1. CASE UNCHANGED <<pc, batch, pending, outcome, ending, ingests, storeVars, readErr>>
  BY <1>1 DEF FlowInv, View, storeVars
<1>2. CASE RejectIngest \/ OpenFails
  <2>1. /\ pc = "idle" /\ ending' = "none" /\ ingests' = ingests + 1
        /\ outcome' \in {"rejected", "error"} /\ UNCHANGED <<pc, batch, pending, readErr>>
    BY <1>2 DEF RejectIngest, OpenFails, Invoke, MayStart
  <2>2. ingests' # 0
    BY <2>1 DEF TypeOK
  <2> QED
    BY <2>1, <2>2 DEF FlowInv
<1>3. CASE BeginIngest
  <2>1. /\ pc = "idle" /\ pc' = "nodes" /\ ending' = "none" /\ ingests' = ingests + 1
        /\ outcome' = "none" /\ readErr' = FALSE /\ UNCHANGED <<batch, pending>>
    BY <1>3 DEF BeginIngest, Invoke, MayStart
  <2>2. ingests' # 0
    BY <2>1 DEF TypeOK
  <2>3. batch'["edges"] = EmptyMap
    BY <2>1 DEF FlowInv, Nothing, Families
  <2> QED
    BY <2>1, <2>2, <2>3 DEF FlowInv
<1>4. CASE ReadHeader \/ SkipLine
  BY <1>1, <1>4 DEF ReadHeader, SkipLine
<1>5. CASE PutNode
  <2>1. PICK rec, size : Commit(NodePuts(rec), size)
    BY <1>5 DEF PutNode
  <2>2. pc = "nodes" /\ UNCHANGED <<pending, ending, ingests>> /\ ingests # 0
    BY <1>5 DEF PutNode, FlowInv
  <2>3. Layer(NodePuts(rec), batch)["edges"] = EmptyMap
    BY <2>2, NodePutsNoEdge DEF FlowInv
  <2>4. Nothing["edges"] = EmptyMap
    BY DEF Nothing, Families
  <2> QED
    BY <2>1, <2>2, <2>3, <2>4, CommitFlow DEF FlowInv
<1>6. CASE PutEdge
  <2>1. PICK puts, size : Commit(puts, size)
    BY <1>6 DEF PutEdge, AddBlob
  <2>2. pc = "edges" /\ UNCHANGED <<ending, ingests>> /\ ingests # 0
    BY <1>6 DEF PutEdge, FlowInv
  <2> QED
    BY <2>1, <2>2, CommitFlow DEF FlowInv
<1>7. CASE FinishNodes
  <2>1. PICK failed \in BOOLEAN : ScanEnds(failed) /\ FinalFlush(batch, failed, "edges")
    BY <1>7 DEF FinishNodes
  <2>2. pc = "nodes" /\ UNCHANGED <<pending, ending, ingests>> /\ ingests # 0
    BY <1>7 DEF FinishNodes, FlowInv
  <2>3. ~failed => ~readErr
    BY <2>1 DEF ScanEnds
  <2> QED
    BY <2>1, <2>2, <2>3, FinalFlushFlow DEF FlowInv
<1>8. CASE FinishEdges
  <2>1. PICK failed \in BOOLEAN :
          ScanEnds(failed) /\ FinalFlush(Layer(FatPuts(Unwritten), batch), failed, "save")
    BY <1>8 DEF FinishEdges
  <2>2. /\ pc = "edges" /\ pending' = NoPending
        /\ UNCHANGED <<ending, ingests>> /\ ingests # 0
    BY <1>8 DEF FinishEdges, FlowInv
  <2>3. ~failed => ~readErr
    BY <2>1 DEF ScanEnds
  <2>4. NoPending' = NoPending
    BY DEF NoPending
  <2> QED
    BY <2>1, <2>2, <2>3, <2>4, FinalFlushFlow DEF FlowInv
<1>9. CASE SaveTruncate \/ SaveWrite \/ SaveFails
  <2>1. /\ UNCHANGED <<batch, pending, ending, ingests, readErr>> /\ ingests # 0
        /\ pc \in {"save", "writing"}
        /\ \/ pc' = "writing" /\ UNCHANGED outcome
           \/ pc' = "closing" /\ outcome' \in {"error", "success"}
    BY <1>9 DEF SaveTruncate, SaveWrite, SaveFails, FlowInv
  <2> QED
    BY <2>1 DEF FlowInv
<1>10. CASE CloseStore \/ CloseUnflushed \/ Crash
  <2>1. /\ pc # "idle" /\ pc' = "idle" /\ batch' = Nothing /\ pending' = NoPending
        /\ UNCHANGED <<ingests, outcome, readErr>>
    BY <1>10 DEF CloseStore, CloseUnflushed, Crash, Leave
  <2> QED
    BY <2>1 DEF FlowInv
<1>11. CASE BackgroundFlush
  <2>1. pc # "idle" /\ UNCHANGED <<pc, batch, pending, outcome, ending, ingests, readErr>>
    BY <1>11 DEF BackgroundFlush
  <2> QED
    BY <2>1 DEF FlowInv
<1>12. CASE UNCHANGED vars
  BY <1>1, <1>12 DEF vars
<1> QED
  BY <1>2, <1>3, <1>4, <1>5, <1>6, <1>7, <1>8, <1>9, <1>10, <1>11, <1>12
  DEF Next, Process

-----------------------------------------------------------------------------
(* Every edge has its blob.                                                *)

HasBlob(edge, fat, more) == \E blob \in Blobs(fat) \cup more : blob.edge = edge

Covered(b, more) ==
  \A id \in DOMAIN b["edges"] : HasBlob(b["edges"][id], b["label"], more)

FreshKeys(fat) == \A k \in DOMAIN fat : k[2] \in Nat /\ k[2] < uuids

Undisturbed == ~lossy /\ ending # "crashed" /\ outcome # "error" /\ ingests <= 1

\* A fat batch can only be hidden by one under the same key, so the invariant
\* says that the keys in use are older than the next uuid.
BlobInv ==
  /\ FreshKeys(Written["label"])
  /\ Undisturbed => Covered(Written, PendingBlobs)

\* A blob of a label index is in one of its fat batches.
LEMMA BlobsMembers ==
  ASSUME NEW fat, NEW blob
  PROVE  blob \in Blobs(fat) <=>
           \E k \in DOMAIN fat : \E j \in 1..Len(fat[k]) : blob = fat[k][j]
BY DEF Blobs

\* A pending blob is in one of the lists.
LEMMA PendingMembers ==
  ASSUME NEW blob
  PROVE  blob \in PendingBlobs <=>
           \E l \in Tokens : \E j \in 1..Len(pending[l]) : blob = pending[l][j]
BY DEF PendingBlobs

\* A blob stays in the label index when fat batches under new keys join it, and
\* theirs join it too.
LEMMA FreshBlobs ==
  ASSUME NEW fat, FreshKeys(fat), NEW blobs, uuids \in Nat
  PROVE  Blobs(fat) \cup Blobs(FatPuts(blobs)["label"])
           \subseteq Blobs(Overlay(FatPuts(blobs)["label"], fat))
<1> DEFINE new == FatPuts(blobs)["label"]
           all == Overlay(new, fat)
<1>1. new = [k \in (DOMAIN blobs) \X {uuids} |-> blobs[k[1]]]
  BY DEF FatPuts, Nothing, Families
<1>2. \A k \in DOMAIN new : k[2] = uuids
  BY <1>1
<1>3. \A k \in DOMAIN fat : k \notin DOMAIN new
  BY <1>2 DEF FreshKeys
<1>4. /\ \A k \in DOMAIN fat : k \in DOMAIN all /\ all[k] = fat[k]
      /\ \A k \in DOMAIN new : k \in DOMAIN all /\ all[k] = new[k]
  BY <1>3 DEF Overlay
<1> HIDE DEF new, all
<1>5. ASSUME NEW blob \in Blobs(fat) \cup Blobs(new)
      PROVE  blob \in Blobs(all)
  BY <1>4, BlobsMembers
<1> QED
  BY <1>5 DEF new, all

\* The blobs of the lists that become fat batches.
LEMMA FatPutsBlobs ==
  ASSUME NEW blobs, NEW l \in DOMAIN blobs, NEW j \in 1..Len(blobs[l])
  PROVE  blobs[l][j] \in Blobs(FatPuts(blobs)["label"])
<1> DEFINE new == FatPuts(blobs)["label"]
<1>1. new = [k \in (DOMAIN blobs) \X {uuids} |-> blobs[k[1]]]
  BY DEF FatPuts, Nothing, Families
<1>2. <<l, uuids>> \in DOMAIN new /\ new[<<l, uuids>>] = blobs[l]
  BY <1>1
<1> HIDE DEF new
<1>3. blobs[l][j] \in Blobs(new)
  BY <1>2, BlobsMembers
<1> QED
  BY <1>3 DEF new
\* Appending adds one element and keeps the others.
LEMMA AppendMembers ==
  ASSUME NEW s, IsList(s), NEW x
  PROVE  /\ Len(Append(s, x)) = Len(s) + 1
         /\ Append(s, x)[Len(s) + 1] = x
         /\ \A j \in 1..Len(s) : Append(s, x)[j] = s[j]
<1> DEFINE S == {s[i] : i \in 1..Len(s)} \cup {x}
<1>1. s \in Seq(S)
  BY DEF IsList
<1> QED
  BY <1>1

\* What the scanner hands over, whole or cut, is a sequence of tokens.
LEMMA TextType ==
  ASSUME TypeOK, AtLine, NEW line \in Texts
  PROVE  /\ Scanned \in Seq(Line) /\ pos \in 1..Len(Scanned)
         /\ line \in Seq(Tokens)
<1>1. Scanned \in Seq(Line)
  <2>1. Scanned \in File \cup {<<>>}
    BY IngestAssumption DEF TypeOK, Scanned
  <2>2. <<>> \in Seq(Line)
    OBVIOUS
  <2> QED
    BY <2>1, <2>2 DEF File
<1>2. pos \in 1..Len(Scanned)
  BY <1>1 DEF AtLine, TypeOK
<1>3. Scanned[pos] \in Seq(Tokens)
  BY <1>1, <1>2 DEF Line
<1>4. CASE line = Scanned[pos]
  BY <1>1, <1>2, <1>3, <1>4
<1>5. CASE line # Scanned[pos]
  <2>1. line \in Cuts(Scanned[pos])
    BY <1>5 DEF Texts
  <2>2. PICK c \in 1..Len(Scanned[pos]) : \E t \in Prefixes[Scanned[pos][c]] :
          line = Append(SubSeq(Scanned[pos], 1, c - 1), t)
    BY <2>1 DEF Cuts
  <2>3. PICK t \in Prefixes[Scanned[pos][c]] :
          line = Append(SubSeq(Scanned[pos], 1, c - 1), t)
    BY <2>2
  <2>4. Scanned[pos][c] \in Tokens
    BY <1>3
  <2>5. t \in Tokens
    BY <2>4, IngestAssumption
  <2>6. SubSeq(Scanned[pos], 1, c - 1) \in Seq(Tokens)
    BY <1>3
  <2> QED
    BY <1>1, <1>2, <2>3, <2>5, <2>6
<1> QED
  BY <1>4, <1>5

\* What the loops parse carries a token as its label.
LEMMA LabelType ==
  ASSUME TypeOK, AtLine, NEW line \in Texts
  PROVE  ParseLine(header, line).label \in Tokens
BY TextType, FieldType DEF ParseLine, TypeOK

\* A new database has no edge and no fat batch.
LEMMA BlobInit == Init => BlobInv
<1> SUFFICES ASSUME Init PROVE BlobInv
  OBVIOUS
<1>1. Written = Nothing
  BY DEF Init, StoreInit, Written, View, Layer, Overlay, Nothing, EmptyMap
<1>2. Written["edges"] = EmptyMap /\ Written["label"] = EmptyMap
  BY <1>1 DEF Nothing, Families
<1>3. DOMAIN Written["edges"] = {} /\ DOMAIN Written["label"] = {}
  BY <1>2 DEF EmptyMap
<1> QED
  BY <1>3 DEF BlobInv, FreshKeys, Covered

\* What was covered stays so when puts that are join it, if no blob is lost.
LEMMA CoverMore ==
  ASSUME NEW puts, NEW b, NEW more, NEW now, Covered(b, more),
         Blobs(b["label"]) \cup more \subseteq Blobs(Layer(puts, b)["label"]) \cup now,
         \A id \in DOMAIN puts["edges"] :
           HasBlob(puts["edges"][id], Layer(puts, b)["label"], now)
  PROVE  Covered(Layer(puts, b), now)
<1> DEFINE c == Layer(puts, b)
<1>1. /\ DOMAIN c["edges"] = DOMAIN puts["edges"] \cup DOMAIN b["edges"]
      /\ \A id \in DOMAIN c["edges"] :
           \/ id \in DOMAIN puts["edges"] /\ c["edges"][id] = puts["edges"][id]
           \/ id \in DOMAIN b["edges"] /\ c["edges"][id] = b["edges"][id]
  BY DEF Layer, Overlay, Families
<1> HIDE DEF c
<1>2. ASSUME NEW id \in DOMAIN c["edges"]
      PROVE  HasBlob(c["edges"][id], c["label"], now)
  <2>1. CASE id \in DOMAIN puts["edges"] /\ c["edges"][id] = puts["edges"][id]
    BY <2>1 DEF c
  <2>2. CASE id \in DOMAIN b["edges"] /\ c["edges"][id] = b["edges"][id]
    BY <2>2 DEF Covered, HasBlob, c
  <2> QED
    BY <1>1, <1>2, <2>1, <2>2
<1> QED
  BY <1>2 DEF Covered, c

\* What one edge record puts into the families of edges and labels.
LEMMA EdgePutsParts ==
  ASSUME NEW rec
  PROVE  /\ EdgePuts(rec)["edges"] = [id \in {EdgeId(rec)} |-> EdgeValue(rec)]
         /\ EdgePuts(rec)["label"] = EmptyMap
         /\ EdgePuts(rec)["nodes"] = EmptyMap
         /\ EdgePuts(rec)["nodeProp"] = EmptyMap
BY DEF EdgePuts, Nothing, Families
\* The families of edges and labels after an edge record and fat batches.
LEMMA FatEdgePutsParts ==
  ASSUME NEW rec, NEW blobs
  PROVE  LET puts == Layer(EdgePuts(rec), FatPuts(blobs))
         IN  /\ puts["edges"] = [id \in {EdgeId(rec)} |-> EdgeValue(rec)]
             /\ puts["label"] = FatPuts(blobs)["label"]
<1>1. FatPuts(blobs)["edges"] = EmptyMap
  BY DEF FatPuts, Nothing, Families
<1>2. IsMap(FatPuts(blobs)["label"])
  BY DEF FatPuts, Nothing, Families, IsMap
<1>3. Overlay(EmptyMap, FatPuts(blobs)["label"]) = FatPuts(blobs)["label"]
  BY <1>2, OverlayEmpty
<1>4. Overlay(EdgePuts(rec)["edges"], EmptyMap) = EdgePuts(rec)["edges"]
  BY EdgePutsParts DEF Overlay, EmptyMap
<1> QED
  BY <1>1, <1>3, <1>4, EdgePutsParts DEF Layer, Families

\* The label index of a bundle under puts.
LEMMA LabelOfLayer ==
  ASSUME NEW puts, NEW b
  PROVE  /\ Layer(puts, b)["label"] = Overlay(puts["label"], b["label"])
         /\ DOMAIN Layer(puts, b)["label"] = DOMAIN puts["label"] \cup DOMAIN b["label"]
BY DEF Layer, Overlay, Families

\* Keys in use stay older than the next uuid.
LEMMA KeysStayFresh ==
  ASSUME NEW fat, FreshKeys(fat), uuids \in Nat, NEW new,
         \/ uuids' = uuids /\ DOMAIN new \subseteq DOMAIN fat
         \/ /\ uuids' = uuids + 1
            /\ \A k \in DOMAIN new : k \in DOMAIN fat \/ k[2] = uuids
  PROVE  \A k \in DOMAIN new : k[2] \in Nat /\ k[2] < uuids'
BY DEF FreshKeys

\* Every key of fat batches is the uuid of the moment.
LEMMA FatPutsKeys ==
  ASSUME NEW blobs
  PROVE  \A k \in DOMAIN FatPuts(blobs)["label"] : k[2] = uuids
<1>1. FatPuts(blobs)["label"] = [k \in (DOMAIN blobs) \X {uuids} |-> blobs[k[1]]]
  BY DEF FatPuts, Nothing, Families
<1> QED
  BY <1>1

\* A stored edge finds its blob pending under its label, or in the fat batch
\* that empties the list.
LEMMA PutEdgeKeepsBlobs ==
  ASSUME TypeOK, BlobInv, PutEdge
  PROVE  BlobInv'
<1>1. PICK line \in Texts, size \in RecordBytes, blobSize \in BlobBytes :
        AddBlob(ParseLine(header, line), size, blobSize)
  BY DEF PutEdge
<1> DEFINE rec == ParseLine(header, line)
           l == rec.label
           m == MegaBlob(rec)
           blobs == Append(pending[l], m)
           lists == [k \in {l} |-> blobs]
<1>2. l \in Tokens
  BY LabelType DEF PutEdge
<1>3. /\ IsList(pending[l]) /\ Len(blobs) = Len(pending[l]) + 1 /\ Len(pending[l]) \in Nat
      /\ blobs[Len(pending[l]) + 1] = m
      /\ \A j \in 1..Len(pending[l]) : blobs[j] = pending[l][j]
  <2>1. IsList(pending[l])
    BY <1>2 DEF TypeOK
  <2> QED
    BY <2>1, AppendMembers DEF IsList
<1>4. m.edge = EdgeValue(rec)
  BY DEF MegaBlob
<1> HIDE DEF rec, l, m, blobs
<1>5. /\ UNCHANGED <<lossy, ending, ingests>> /\ uuids \in Nat
      /\ StoreTypeOK /\ FreshKeys(Written["label"])
  BY DEF PutEdge, ghostVars, TypeOK, BlobInv
<1>6. PICK puts :
        /\ Commit(puts, size)
        /\ puts["edges"] = [id \in {EdgeId(rec)} |-> EdgeValue(rec)]
        /\ \/ /\ puts["label"] = EmptyMap /\ uuids' = uuids
              /\ pending' = [pending EXCEPT ![l] = blobs]
           \/ /\ puts["label"] = FatPuts(lists)["label"] /\ uuids' = uuids + 1
              /\ pending' = [pending EXCEPT ![l] = <<>>]
  <2>1. AddBlob(rec, size, blobSize)
    BY <1>1 DEF rec
  <2>2. \/ /\ pending' = [pending EXCEPT ![l] = blobs] /\ uuids' = uuids
           /\ Commit(EdgePuts(rec), size)
        \/ /\ pending' = [pending EXCEPT ![l] = <<>>] /\ uuids' = uuids + 1
           /\ Commit(Layer(EdgePuts(rec), FatPuts(lists)), size)
    BY <2>1 DEF AddBlob, l, m, blobs
  <2> QED
    BY <2>2, EdgePutsParts, FatEdgePutsParts
<1>7. CASE pc' = "closing" /\ outcome' = "error" /\ batch' = Nothing /\ UNCHANGED storeVars
  <2>1. Written' = View
    BY <1>7, ViewIsBundle, LayerNothing DEF Written, View, storeVars
  <2>2. DOMAIN Written'["label"] \subseteq DOMAIN Written["label"]
    BY <2>1 DEF Written, Layer, Overlay, Families
  <2> QED
    BY <1>5, <1>6, <1>7, <2>2, KeysStayFresh DEF BlobInv, FreshKeys, Undisturbed
<1>8. CASE pc' = pc /\ outcome' = outcome
  <2>1. pc' # "closing"
    BY <1>8 DEF PutEdge
  <2>2. Written' = Layer(puts, Written)
    BY <1>5, <1>6, <2>1, CommitWrites
  <2>3. FreshKeys(Written["label"])'
    <3>1. \A k \in DOMAIN Written'["label"] :
            k \in DOMAIN Written["label"] \/ (uuids' = uuids + 1 /\ k[2] = uuids)
      BY <1>6, <2>2, FatPutsKeys, LabelOfLayer DEF EmptyMap
    <3> QED
      BY <1>5, <1>6, <3>1, KeysStayFresh DEF FreshKeys
  <2>4. ASSUME Undisturbed'
        PROVE  Covered(Written', PendingBlobs')
    <3>1. Covered(Written, PendingBlobs)
      BY <1>5, <1>8, <2>4 DEF BlobInv, Undisturbed
    <3>2. /\ Blobs(Written["label"]) \cup PendingBlobs
               \subseteq Blobs(Layer(puts, Written)["label"]) \cup PendingBlobs'
          /\ m \in Blobs(Layer(puts, Written)["label"]) \cup PendingBlobs'
      <4>1. CASE puts["label"] = EmptyMap /\ pending' = [pending EXCEPT ![l] = blobs]
        <5>1. Layer(puts, Written)["label"] = Written["label"]
          <6>1. IsMap(Written["label"])
            BY OverlayIsMap DEF Written, Layer, Families
          <6> QED
            BY <4>1, <6>1, LabelOfLayer, OverlayEmpty
        <5>2. pending'[l] = blobs /\ \A k \in Tokens : k # l => pending'[k] = pending[k]
          BY <4>1, <1>2 DEF TypeOK
        <5>3. \A b \in PendingBlobs : b \in PendingBlobs'
          BY <5>2, <1>2, <1>3 DEF PendingBlobs
        <5>4. m \in PendingBlobs'
          <6>1. Len(pending[l]) + 1 \in 1..Len(pending'[l])
            BY <5>2, <1>3
          <6> QED
            BY <5>2, <6>1, <1>2, <1>3 DEF PendingBlobs
        <5> QED
          BY <5>1, <5>3, <5>4
      <4>2. CASE puts["label"] = FatPuts(lists)["label"] /\ pending' = [pending EXCEPT ![l] = <<>>]
        <5>1. Blobs(Written["label"]) \cup Blobs(FatPuts(lists)["label"])
                \subseteq Blobs(Layer(puts, Written)["label"])
          BY <1>5, <4>2, FreshBlobs, LabelOfLayer
        <5>2. \A j \in 1..Len(blobs) : blobs[j] \in Blobs(FatPuts(lists)["label"])
          <6>1. l \in DOMAIN lists /\ lists[l] = blobs
            OBVIOUS
          <6> QED
            BY <6>1, FatPutsBlobs
        <5>3. m \in Blobs(FatPuts(lists)["label"])
          BY <5>2, <1>3
        <5>4. \A k \in Tokens : k # l => pending'[k] = pending[k]
          BY <4>2, <1>2 DEF TypeOK
        <5>5. ASSUME NEW b \in PendingBlobs
              PROVE  b \in PendingBlobs' \/ b \in Blobs(FatPuts(lists)["label"])
          <6>1. PICK k \in Tokens : \E j \in 1..Len(pending[k]) : b = pending[k][j]
            BY <5>5, PendingMembers
          <6>2. CASE k = l
            BY <6>1, <6>2, <5>2, <1>3
          <6>3. CASE k # l
            BY <6>1, <6>3, <5>4 DEF PendingBlobs
          <6> QED
            BY <6>2, <6>3
        <5> QED
          BY <5>1, <5>3, <5>5
      <4> QED
        BY <1>6, <4>1, <4>2
    <3>3. \A id \in DOMAIN puts["edges"] :
            HasBlob(puts["edges"][id], Layer(puts, Written)["label"], PendingBlobs')
      BY <1>4, <1>6, <3>2 DEF HasBlob
    <3>4. Covered(Layer(puts, Written), PendingBlobs')
      BY <3>1, <3>2, <3>3, CoverMore
    <3> QED
      BY <2>2, <3>4
  <2> QED
    BY <2>3, <2>4 DEF BlobInv
<1> QED
  BY <1>6, <1>7, <1>8, CommitFlow
\* What the final flush of a loop shows of what it is given.
LEMMA FinalFlushView ==
  ASSUME StoreTypeOK, NEW rest, NEW failed, NEW next, next # "closing",
         FinalFlush(rest, failed, next)
  PROVE  /\ StoreTypeOK' /\ batch' = Nothing /\ Written' = View'
         /\ View' \in {Layer(rest, View), View}
         /\ pc' # "closing" => View' = Layer(rest, View)
<1>1. batch' = Nothing /\ StoreTypeOK'
  BY FinalFlushStoreType DEF FinalFlush, Fail
<1>2. Written' = View'
  BY <1>1, LayerIsBundle, LayerNothing DEF Written, View
<1>3. CASE Write(rest)
  BY <1>1, <1>2, <1>3, WriteView
<1>4. CASE rest = Nothing /\ UNCHANGED storeVars
  <2>1. View' = View /\ Layer(rest, View) = View
    BY <1>4, ViewIsBundle, LayerNothing DEF storeVars, View
  <2> QED
    BY <1>1, <1>2, <2>1
<1>5. CASE Fail /\ UNCHANGED storeVars
  BY <1>1, <1>2, <1>5 DEF Fail, storeVars, View
<1> QED
  BY <1>3, <1>4, <1>5 DEF FinalFlush

\* A family that a bundle of puts leaves alone.
LEMMA UntouchedFamily ==
  ASSUME NEW puts, NEW b, IsBundle(b), NEW cf \in Families, puts[cf] = EmptyMap
  PROVE  Layer(puts, b)[cf] = b[cf]
BY OverlayEmpty DEF Layer, IsBundle, IsMap

\* What is written is a bundle.
LEMMA WrittenIsBundle == IsBundle(Written)
BY LayerIsBundle DEF Written

\* What readers see is written.
LEMMA ViewInWritten ==
  ASSUME NEW cf \in Families
  PROVE  DOMAIN View[cf] \subseteq DOMAIN Written[cf]
BY DEF Written, Layer, Overlay

\* Keys stay fresh when none is added.
LEMMA FewerKeys ==
  ASSUME FreshKeys(Written["label"]), uuids \in Nat, uuids' \in {uuids, uuids + 1},
         DOMAIN Written'["label"] \subseteq DOMAIN Written["label"]
  PROVE  FreshKeys(Written["label"])'
BY DEF FreshKeys

\* The pending blobs become fat batches when the edges are read.
LEMMA FinishEdgesKeepsBlobs ==
  ASSUME TypeOK, BlobInv, FinishEdges
  PROVE  BlobInv'
<1> DEFINE fat == FatPuts(Unwritten)
           rest == Layer(fat, batch)
<1>1. PICK failed \in BOOLEAN : FinalFlush(rest, failed, "save")
  BY DEF FinishEdges
<1>2. /\ UNCHANGED <<lossy, ending, ingests>> /\ uuids \in Nat /\ uuids' = uuids + 1
      /\ StoreTypeOK /\ FreshKeys(Written["label"])
      /\ outcome' # "error" => outcome' = outcome /\ pc' # "closing"
  BY <1>1 DEF FinishEdges, FinalFlush, Fail, ghostVars, TypeOK, BlobInv
<1>3. Layer(rest, View) = Layer(fat, Written)
  BY LayerAssoc DEF Written
<1>4. /\ Written' \in {Layer(fat, Written), View}
      /\ outcome' # "error" => Written' = Layer(fat, Written)
  BY <1>1, <1>2, <1>3, FinalFlushView
<1> HIDE DEF rest
<1>5. FreshKeys(Written["label"])'
  <2>1. CASE Written' = Layer(fat, Written)
    <3>1. \A k \in DOMAIN Written'["label"] : k \in DOMAIN Written["label"] \/ k[2] = uuids
      BY <2>1, LabelOfLayer, FatPutsKeys
    <3> QED
      BY <1>2, <3>1, KeysStayFresh DEF FreshKeys
  <2>2. CASE Written' = View
    BY <1>2, <2>2, FewerKeys, ViewInWritten DEF Families
  <2> QED
    BY <1>4, <2>1, <2>2
<1>6. ASSUME Undisturbed'
      PROVE  Covered(Written', PendingBlobs')
  <2>1. Covered(Written, PendingBlobs) /\ Written' = Layer(fat, Written)
    BY <1>2, <1>4, <1>6 DEF BlobInv, Undisturbed
  <2>2. Blobs(Written["label"]) \cup Blobs(fat["label"])
          \subseteq Blobs(Layer(fat, Written)["label"])
    BY <1>2, FreshBlobs, LabelOfLayer
  <2>3. ASSUME NEW b \in PendingBlobs
        PROVE  b \in Blobs(fat["label"])
    <3>1. PICK k \in Tokens : \E j \in 1..Len(pending[k]) : b = pending[k][j]
      BY <2>3, PendingMembers
    <3>2. PICK j \in 1..Len(pending[k]) : b = pending[k][j]
      BY <3>1
    <3>3. pending[k] # <<>>
      BY <3>2
    <3>4. k \in DOMAIN Unwritten /\ Unwritten[k] = pending[k]
      BY <3>3 DEF Unwritten
    <3> QED
      BY <3>2, <3>4, FatPutsBlobs
  <2>4. fat["edges"] = EmptyMap /\ DOMAIN fat["edges"] = {}
    BY DEF FatPuts, Nothing, Families, EmptyMap
  <2>5. Covered(Layer(fat, Written), PendingBlobs')
    BY <2>1, <2>2, <2>3, <2>4, CoverMore
  <2> QED
    BY <2>1, <2>5
<1> QED
  BY <1>5, <1>6 DEF BlobInv

\* Every step keeps the edges covered and the keys fresh.
LEMMA BlobNext == TypeOK /\ FlowInv /\ BlobInv /\ [Next]_vars => BlobInv'
<1> SUFFICES ASSUME TypeOK, FlowInv, BlobInv, [Next]_vars PROVE BlobInv'
  OBVIOUS
<1> USE DEF loopVars, batchVars, fatVars, ghostVars
<1>1. ASSUME UNCHANGED <<pending, uuids, lossy>>, Written' = Written,
             Undisturbed' => Undisturbed
      PROVE  BlobInv'
  <2>1. PendingBlobs' = PendingBlobs
    BY <1>1 DEF PendingBlobs
  <2> QED
    BY <1>1, <2>1 DEF BlobInv, FreshKeys
<1>2. UNCHANGED <<batch, storeVars>> => Written' = Written
  BY DEF Written, View, storeVars
<1>3. CASE RejectIngest \/ OpenFails \/ BeginIngest
  <2>1. /\ UNCHANGED <<pending, uuids, lossy, batch, storeVars>> /\ ingests' = ingests + 1
    BY <1>3 DEF RejectIngest, OpenFails, BeginIngest, Invoke
  <2>2. ingests' <= 1 => ingests = 0
    BY <2>1 DEF TypeOK
  <2>3. Undisturbed' => Undisturbed
    BY <2>1, <2>2 DEF Undisturbed, FlowInv
  <2> QED
    BY <1>1, <1>2, <2>1, <2>3
<1>4. CASE ReadHeader \/ SkipLine
  BY <1>1, <1>2, <1>4 DEF ReadHeader, SkipLine, Undisturbed
<1>5. CASE PutNode
  <2>1. PICK rec, size : Commit(NodePuts(rec), size)
    BY <1>5 DEF PutNode
  <2>2. pc = "nodes" /\ UNCHANGED <<pending, uuids, lossy, ending, ingests>>
    BY <1>5 DEF PutNode
  <2>3. CASE outcome' = "error" /\ batch' = Nothing /\ UNCHANGED storeVars
    <3>1. Written' = View
      BY <2>3, ViewIsBundle, LayerNothing DEF Written, View, storeVars
    <3> QED
      BY <2>2, <2>3, <3>1, FewerKeys, ViewInWritten DEF BlobInv, Undisturbed, TypeOK, Families
  <2>4. CASE UNCHANGED <<pc, outcome>>
    <3>1. Written' = Layer(NodePuts(rec), Written)
      BY <2>1, <2>2, <2>4, CommitWrites DEF TypeOK
    <3>2. NodePuts(rec)["edges"] = EmptyMap /\ NodePuts(rec)["label"] = EmptyMap
      BY DEF NodePuts, Nothing, Families
    <3>3. Written'["edges"] = Written["edges"] /\ Written'["label"] = Written["label"]
      BY <3>1, <3>2, UntouchedFamily, WrittenIsBundle DEF Families
    <3>4. PendingBlobs' = PendingBlobs
      BY <2>2 DEF PendingBlobs
    <3> QED
      BY <2>2, <2>4, <3>3, <3>4 DEF BlobInv, FreshKeys, Undisturbed, Covered
  <2> QED
    BY <2>1, <2>3, <2>4, CommitFlow
<1>6. CASE PutEdge
  BY <1>6, PutEdgeKeepsBlobs
<1>7. CASE FinishNodes
  <2>1. PICK failed \in BOOLEAN : FinalFlush(batch, failed, "edges")
    BY <1>7 DEF FinishNodes
  <2>2. UNCHANGED <<pending, uuids, lossy, ending, ingests>>
    BY <1>7 DEF FinishNodes
  <2>3. Written' \in {Written, View} /\ (pc' # "closing" => Written' = Written)
    BY <2>1, FinalFlushView DEF TypeOK, Written
  <2>4. CASE pc' = "closing" /\ outcome' = "error"
    BY <2>2, <2>3, <2>4, FewerKeys, ViewInWritten DEF BlobInv, Undisturbed, TypeOK, Families
  <2>5. CASE pc' = "edges" /\ outcome' = outcome
    BY <1>1, <2>2, <2>3, <2>5 DEF Undisturbed
  <2> QED
    BY <2>1, <2>4, <2>5, FinalFlushFlow
<1>8. CASE FinishEdges
  BY <1>8, FinishEdgesKeepsBlobs
<1>9. CASE SaveTruncate \/ SaveWrite \/ SaveFails
  <2>1. /\ UNCHANGED <<batch, storeVars, pending, uuids, lossy, ending, ingests>>
        /\ outcome = "none"
    BY <1>9 DEF SaveTruncate, SaveWrite, SaveFails, FlowInv
  <2> QED
    BY <1>1, <1>2, <2>1 DEF Undisturbed
<1>10. CASE CloseStore \/ CloseUnflushed \/ Crash
  <2>1. PICK kept, how : Leave(kept, how) /\ (how = "crashed" \/ pc = "closing")
    BY <1>10 DEF CloseStore, CloseUnflushed, Crash
  <2>2. /\ ending' = how /\ batch' = Nothing /\ pending' = NoPending
        /\ Vanish(kept) /\ UNCHANGED <<outcome, ingests, uuids>>
        /\ ~lossy' => ~lossy /\ \A cf \in Families \ kept : mem[cf] = EmptyMap
    BY <2>1 DEF Leave
  <2>3. Written' = View'
    BY <2>2, LayerIsBundle, LayerNothing DEF Written, View
  <2>4. FreshKeys(Written["label"])'
    <3>1. DOMAIN View'["label"] \subseteq DOMAIN View["label"]
      BY <2>2 DEF Vanish, View, Layer, Overlay, Families, Nothing, EmptyMap
    <3> QED
      BY <2>2, <2>3, <3>1, FewerKeys, ViewInWritten DEF BlobInv, TypeOK, Families
  <2>5. ASSUME Undisturbed'
        PROVE  Covered(Written', PendingBlobs')
    <3>1. View' = View
      BY <2>2, <2>5, VanishView DEF Undisturbed, TypeOK
    <3>2. pc = "closing" /\ outcome # "error" /\ Undisturbed
      BY <2>1, <2>2, <2>5 DEF Undisturbed, FlowInv
    <3>3. batch = Nothing /\ pending = NoPending
      BY <3>2 DEF FlowInv
    <3>4. Written' = Written /\ PendingBlobs' = PendingBlobs
      BY <2>2, <2>3, <3>1, <3>3, LayerNothing, ViewIsBundle DEF Written, PendingBlobs
    <3> QED
      BY <3>2, <3>4 DEF BlobInv
  <2> QED
    BY <2>4, <2>5 DEF BlobInv
<1>11. CASE BackgroundFlush
  <2>1. View' = View
    BY <1>11, FlushView DEF BackgroundFlush, TypeOK
  <2>2. UNCHANGED <<batch, pending, uuids, outcome, lossy, ending, ingests>>
    BY <1>11 DEF BackgroundFlush
  <2> QED
    BY <1>1, <2>1, <2>2 DEF Written, Undisturbed
<1>12. CASE UNCHANGED vars
  BY <1>1, <1>2, <1>12 DEF vars, Undisturbed
<1> QED
  BY <1>3, <1>4, <1>5, <1>6, <1>7, <1>8, <1>9, <1>10, <1>11, <1>12 DEF Next, Process

\* No resetting of the pending lists, at the threshold or at the end of the
\* edges file (ingestor.go, labelToPendingMegaBlobs), loses the mega blob of an
\* edge, and no fat batch is overwritten: until a fault intervenes a first
\* ingestion has a blob for every edge, whatever the sizes.
THEOREM EveryEdgeAlwaysHasBlob == Spec => []EveryEdgeHasBlob
<1>1. BlobInv => EveryEdgeHasBlob
  <2> SUFFICES ASSUME BlobInv, Undisturbed, NEW id \in DOMAIN Written["edges"]
               PROVE  \E blob \in Blobs(Written["label"]) \cup PendingBlobs :
                        Written["edges"][id] = blob.edge
    BY DEF EveryEdgeHasBlob, Undisturbed, Written
  <2> QED
    BY DEF BlobInv, Covered, HasBlob
<1>2. Spec => [](TypeOK /\ FlowInv /\ BlobInv)
  <2>1. Init => TypeOK /\ FlowInv /\ BlobInv
    BY TypeInit, FlowInit, BlobInit
  <2>2. TypeOK /\ FlowInv /\ BlobInv /\ [Next]_vars => (TypeOK /\ FlowInv /\ BlobInv)'
    BY TypeNext, FlowNext, BlobNext
  <2> QED
    BY <2>1, <2>2, PTL DEF Spec
<1> QED
  BY <1>1, <1>2, PTL
-----------------------------------------------------------------------------
(* Every accepted row is written.                                          *)

\* b holds the accepted rows before line p, the later over the earlier, and
\* their entries.
HoldsNodesTo(file, b, p) ==
  \A i \in NodeRows(file) : i < p =>
    /\ \A cf \in Families : DOMAIN NodePuts(RecordAt(file, i))[cf] \subseteq DOMAIN b[cf]
    /\ (\A j \in NodeRows(file) : i < j /\ j < p => RecordAt(file, j).id # RecordAt(file, i).id)
         => b["nodes"][RecordAt(file, i).id] = NodeValue(RecordAt(file, i))

HoldsEdgesTo(file, b, p) ==
  \A i \in EdgeRows(file) : i < p =>
    /\ \A cf \in Families : DOMAIN EdgePuts(RecordAt(file, i))[cf] \subseteq DOMAIN b[cf]
    /\ (\A j \in EdgeRows(file) : i < j /\ j < p => EdgeId(RecordAt(file, j)) # EdgeId(RecordAt(file, i)))
         => b["edges"][EdgeId(RecordAt(file, i))] = EdgeValue(RecordAt(file, i))

HoldsNodes(file, b) == HoldsNodesTo(file, b, Len(file) + 1)
HoldsEdges(file, b) == HoldsEdgesTo(file, b, Len(file) + 1)

Saving == pc \in {"save", "writing"} \/ (pc = "closing" /\ outcome # "error")

\* What the loops have written when the scanner is at line pos; a text that a
\* failing read has cut short stands for no line, and nothing follows it.
RowsInv ==
  /\ pc = "idle" => pos = 1 /\ header = NoHeader
  /\ pc = "nodes" /\ ~readErr =>
       header = IngestHeader(nodesFile, pos) /\ HoldsNodesTo(nodesFile, Written, pos)
  /\ pc = "edges" =>
       HoldsNodes(nodesFile, Written)
  /\ pc = "edges" /\ ~readErr =>
       header = IngestHeader(edgesFile, pos) /\ HoldsEdgesTo(edgesFile, Written, pos)
  /\ Saving => HoldsNodes(nodesFile, View) /\ HoldsEdges(edgesFile, View)
  /\ Succeeded => HoldsNodes(nodesFile, sst) /\ HoldsEdges(edgesFile, sst)

\* The files are files.
LEMMA FileTypes ==
  ASSUME TypeOK
  PROVE  /\ nodesFile \in File /\ edgesFile \in File
         /\ Len(nodesFile) \in Nat /\ Len(edgesFile) \in Nat
<1>1. <<>> \in File
  BY DEF File
<1>2. nodesFile \in File /\ edgesFile \in File
  BY <1>1, IngestAssumption DEF TypeOK
<1> QED
  BY <1>2 DEF File

\* Nothing precedes the first line.
LEMMA HoldsNoRow ==
  ASSUME NEW file, NEW b
  PROVE  HoldsNodesTo(file, b, 1) /\ HoldsEdgesTo(file, b, 1)
<1>1. \A i \in NodeRows(file) \cup EdgeRows(file) : ~(i < 1)
  BY RowPositions
<1> QED
  BY <1>1 DEF HoldsNodesTo, HoldsEdgesTo

\* Nothing follows the last line.
LEMMA HoldsAllRows ==
  ASSUME NEW file \in File, NEW b, NEW p \in Nat, p > Len(file)
  PROVE  /\ HoldsNodesTo(file, b, p) => HoldsNodes(file, b)
         /\ HoldsEdgesTo(file, b, p) => HoldsEdges(file, b)
<1>1. Len(file) \in Nat
  BY DEF File
<1>2. \A i \in NodeRows(file) \cup EdgeRows(file) : i \in Nat /\ i < Len(file) + 1 /\ i < p
  BY <1>1, RowPositions
<1> QED
  BY <1>2 DEF HoldsNodes, HoldsEdges, HoldsNodesTo, HoldsEdgesTo

\* Puts add keys and keep the values of the keys they lack.
LEMMA LayerKeeps ==
  ASSUME NEW puts, NEW b, NEW cf \in Families
  PROVE  /\ DOMAIN Layer(puts, b)[cf] = DOMAIN puts[cf] \cup DOMAIN b[cf]
         /\ \A k \in DOMAIN puts[cf] : Layer(puts, b)[cf][k] = puts[cf][k]
         /\ \A k \in DOMAIN b[cf] \ DOMAIN puts[cf] : Layer(puts, b)[cf][k] = b[cf][k]
BY DEF Layer, Overlay

\* What a node row puts into the family of nodes.
LEMMA NodePutsParts ==
  ASSUME NEW rec
  PROVE  /\ NodePuts(rec)["nodes"] = [id \in {rec.id} |-> NodeValue(rec)]
         /\ NodePuts(rec)["edges"] = EmptyMap
         /\ NodePuts(rec)["label"] = EmptyMap
BY DEF NodePuts, Nothing, Families

\* One more line of the nodes file.
LEMMA NodesGrow ==
  ASSUME NEW file, NEW b, NEW p \in Nat, HoldsNodesTo(file, b, p)
  PROVE  /\ p \notin NodeRows(file) => HoldsNodesTo(file, b, p + 1)
         /\ p \in NodeRows(file) =>
              HoldsNodesTo(file, Layer(NodePuts(RecordAt(file, p)), b), p + 1)
<1>1. \A i \in NodeRows(file) : i \in Nat /\ (i < p + 1 <=> i < p \/ i = p)
  BY RowPositions
<1>2. ASSUME p \notin NodeRows(file) PROVE HoldsNodesTo(file, b, p + 1)
  BY <1>1, <1>2 DEF HoldsNodesTo
<1>3. ASSUME p \in NodeRows(file)
      PROVE  HoldsNodesTo(file, Layer(NodePuts(RecordAt(file, p)), b), p + 1)
  <2> DEFINE puts == NodePuts(RecordAt(file, p))
             c == Layer(puts, b)
  <2>1. "nodes" \in Families /\ puts["nodes"] = [id \in {RecordAt(file, p).id} |-> NodeValue(RecordAt(file, p))]
    BY NodePutsParts DEF Families
  <2>2. /\ \A cf \in Families : DOMAIN c[cf] = DOMAIN puts[cf] \cup DOMAIN b[cf]
        /\ c["nodes"][RecordAt(file, p).id] = NodeValue(RecordAt(file, p))
        /\ \A id \in DOMAIN b["nodes"] : id # RecordAt(file, p).id => c["nodes"][id] = b["nodes"][id]
    BY <2>1, LayerKeeps
  <2> HIDE DEF c
  <2>3. ASSUME NEW i \in NodeRows(file), i < p + 1
        PROVE  \A cf \in Families : DOMAIN NodePuts(RecordAt(file, i))[cf] \subseteq DOMAIN c[cf]
    BY <1>1, <2>2, <2>3 DEF HoldsNodesTo
  <2>4. ASSUME NEW i \in NodeRows(file), i < p + 1,
               \A j \in NodeRows(file) : i < j /\ j < p + 1 => RecordAt(file, j).id # RecordAt(file, i).id
        PROVE  c["nodes"][RecordAt(file, i).id] = NodeValue(RecordAt(file, i))
    <3>1. CASE i = p
      BY <2>2, <3>1
    <3>2. CASE i < p
      <4>1. RecordAt(file, p).id # RecordAt(file, i).id
        BY <1>1, <1>3, <2>4, <3>2
      <4>2. b["nodes"][RecordAt(file, i).id] = NodeValue(RecordAt(file, i))
        BY <1>1, <2>4, <3>2 DEF HoldsNodesTo
      <4>3. RecordAt(file, i).id \in DOMAIN b["nodes"]
        <5>1. DOMAIN NodePuts(RecordAt(file, i))["nodes"] \subseteq DOMAIN b["nodes"]
          BY <2>1, <3>2 DEF HoldsNodesTo
        <5>2. NodePuts(RecordAt(file, i))["nodes"] = [id \in {RecordAt(file, i).id} |-> NodeValue(RecordAt(file, i))]
          BY NodePutsParts
        <5> QED
          BY <5>1, <5>2
      <4> QED
        BY <4>1, <4>2, <4>3, <2>2
    <3> QED
      BY <1>1, <2>4, <3>1, <3>2
  <2> QED
    BY <2>3, <2>4 DEF HoldsNodesTo, c
<1> QED
  BY <1>2, <1>3
\* What an edge row puts, alone or with a fat batch, as far as rows go.
EdgeRowPuts(puts, rec) ==
  /\ \A cf \in Families : DOMAIN EdgePuts(rec)[cf] \subseteq DOMAIN puts[cf]
  /\ puts["edges"] = [id \in {EdgeId(rec)} |-> EdgeValue(rec)]
  /\ puts["nodes"] = EmptyMap

\* A fat batch does not change that.
LEMMA EdgeRowPutsHold ==
  ASSUME NEW rec, NEW blobs
  PROVE  /\ EdgeRowPuts(EdgePuts(rec), rec)
         /\ EdgeRowPuts(Layer(EdgePuts(rec), FatPuts(blobs)), rec)
<1>1. EdgeRowPuts(EdgePuts(rec), rec)
  BY EdgePutsParts DEF EdgeRowPuts
<1>2. FatPuts(blobs)["nodes"] = EmptyMap /\ "nodes" \in Families
  BY DEF FatPuts, Nothing, Families
<1>3. Layer(EdgePuts(rec), FatPuts(blobs))["nodes"] = EmptyMap
  BY <1>2, EdgePutsParts DEF Layer, Overlay, EmptyMap
<1> QED
  BY <1>1, <1>3, LayerKeeps, FatEdgePutsParts DEF EdgeRowPuts

\* One more line of the edges file.
LEMMA EdgesGrow ==
  ASSUME NEW file, NEW b, NEW p \in Nat, HoldsEdgesTo(file, b, p), NEW puts
  PROVE  /\ p \notin EdgeRows(file) => HoldsEdgesTo(file, b, p + 1)
         /\ p \in EdgeRows(file) /\ EdgeRowPuts(puts, RecordAt(file, p)) =>
              HoldsEdgesTo(file, Layer(puts, b), p + 1)
<1>1. \A i \in EdgeRows(file) : i \in Nat /\ (i < p + 1 <=> i < p \/ i = p)
  BY RowPositions
<1>2. ASSUME p \notin EdgeRows(file) PROVE HoldsEdgesTo(file, b, p + 1)
  BY <1>1, <1>2 DEF HoldsEdgesTo
<1>3. ASSUME p \in EdgeRows(file), EdgeRowPuts(puts, RecordAt(file, p))
      PROVE  HoldsEdgesTo(file, Layer(puts, b), p + 1)
  <2> DEFINE c == Layer(puts, b)
             here == EdgeId(RecordAt(file, p))
  <2>1. "edges" \in Families /\ puts["edges"] = [id \in {here} |-> EdgeValue(RecordAt(file, p))]
    BY <1>3 DEF Families, EdgeRowPuts
  <2>2. /\ \A cf \in Families : DOMAIN c[cf] = DOMAIN puts[cf] \cup DOMAIN b[cf]
        /\ c["edges"][here] = EdgeValue(RecordAt(file, p))
        /\ \A id \in DOMAIN b["edges"] : id # here => c["edges"][id] = b["edges"][id]
    BY <2>1, LayerKeeps
  <2> HIDE DEF c
  <2>3. ASSUME NEW i \in EdgeRows(file), i < p + 1
        PROVE  \A cf \in Families : DOMAIN EdgePuts(RecordAt(file, i))[cf] \subseteq DOMAIN c[cf]
    BY <1>1, <1>3, <2>2, <2>3 DEF HoldsEdgesTo, EdgeRowPuts
  <2>4. ASSUME NEW i \in EdgeRows(file), i < p + 1,
               \A j \in EdgeRows(file) :
                 i < j /\ j < p + 1 => EdgeId(RecordAt(file, j)) # EdgeId(RecordAt(file, i))
        PROVE  c["edges"][EdgeId(RecordAt(file, i))] = EdgeValue(RecordAt(file, i))
    <3>1. CASE i = p
      BY <2>2, <3>1
    <3>2. CASE i < p
      <4>1. here # EdgeId(RecordAt(file, i))
        BY <1>1, <1>3, <2>4, <3>2
      <4>2. b["edges"][EdgeId(RecordAt(file, i))] = EdgeValue(RecordAt(file, i))
        BY <1>1, <2>4, <3>2 DEF HoldsEdgesTo
      <4>3. EdgeId(RecordAt(file, i)) \in DOMAIN b["edges"]
        <5>1. DOMAIN EdgePuts(RecordAt(file, i))["edges"] \subseteq DOMAIN b["edges"]
          BY <2>1, <3>2 DEF HoldsEdgesTo
        <5>2. EdgePuts(RecordAt(file, i))["edges"] = [id \in {EdgeId(RecordAt(file, i))} |-> EdgeValue(RecordAt(file, i))]
          BY EdgePutsParts
        <5> QED
          BY <5>1, <5>2
      <4> QED
        BY <4>1, <4>2, <4>3, <2>2
    <3> QED
      BY <1>1, <2>4, <3>1, <3>2
  <2> QED
    BY <2>3, <2>4 DEF HoldsEdgesTo, c
<1> QED
  BY <1>2, <1>3

\* Rows stay held under puts that leave their family alone.
LEMMA HoldsUnder ==
  ASSUME NEW file, NEW b, IsBundle(b), NEW p, NEW puts
  PROVE  /\ HoldsNodesTo(file, b, p) /\ puts["nodes"] = EmptyMap => HoldsNodesTo(file, Layer(puts, b), p)
         /\ HoldsEdgesTo(file, b, p) /\ puts["edges"] = EmptyMap => HoldsEdgesTo(file, Layer(puts, b), p)
<1> DEFINE c == Layer(puts, b)
<1>1. \A cf \in Families : DOMAIN b[cf] \subseteq DOMAIN c[cf]
  BY LayerKeeps
<1>2. /\ puts["nodes"] = EmptyMap => c["nodes"] = b["nodes"]
      /\ puts["edges"] = EmptyMap => c["edges"] = b["edges"]
  BY UntouchedFamily DEF Families
<1> HIDE DEF c
<1>3. ASSUME HoldsNodesTo(file, b, p), puts["nodes"] = EmptyMap PROVE HoldsNodesTo(file, c, p)
  BY <1>1, <1>2, <1>3 DEF HoldsNodesTo
<1>4. ASSUME HoldsEdgesTo(file, b, p), puts["edges"] = EmptyMap PROVE HoldsEdgesTo(file, c, p)
  BY <1>1, <1>2, <1>4 DEF HoldsEdgesTo
<1> QED
  BY <1>3, <1>4 DEF c

\* The test of the loop on the line at pos is the declarative one, and what
\* the loop parses from it is its record.
LEMMA LineAt ==
  ASSUME TypeOK, AtLine,
         header = IngestHeader(Scanned, pos)
  PROVE  /\ Scanned \in File /\ pos \in 1..Len(Scanned)
         /\ ParseLine(header, Scanned[pos]) = RecordAt(Scanned, pos)
         /\ IsNodeRow(Scanned[pos]) <=> pos \in NodeRows(Scanned)
         /\ IsEdgeRow(Scanned[pos]) <=> pos \in EdgeRows(Scanned)
         /\ IngestHeader(Scanned, pos + 1) =
              IF IsIngestHeader(Scanned[pos]) THEN Scanned[pos] ELSE header
<1>1. Scanned \in File
  BY FileTypes DEF Scanned
<1>2. pos \in 1..Len(Scanned)
  BY <1>1 DEF AtLine, TypeOK, File
<1> QED
  BY <1>1, <1>2, RowTests, IngestHeaderSteps DEF IsNodeRow, IsEdgeRow, RecordAt

\* A header line is no row.
LEMMA HeaderNoRow ==
  ASSUME NEW file, NEW p \in 1..Len(file), IsIngestHeader(file[p])
  PROVE  p \notin NodeRows(file) /\ p \notin EdgeRows(file)
BY RowTests DEF IsIngestRow

\* Nothing is read in a new database.
LEMMA RowsInit == Init => RowsInv
BY DEF Init, RowsInv, Saving, Succeeded

\* A node row goes into the batch, or out of it with the loop.
LEMMA PutNodeKeepsRows ==
  ASSUME TypeOK, RowsInv, PutNode
  PROVE  RowsInv'
<1>1. PICK line \in Texts, size \in RecordBytes :
        /\ IsNodeRow(line) /\ readErr' = (line # Scanned[pos])
        /\ Commit(NodePuts(ParseLine(header, line)), size)
  BY DEF PutNode
<1>2. /\ pc = "nodes" /\ AtLine /\ ~readErr /\ UNCHANGED <<nodesFile, edgesFile, header>>
      /\ Scanned = nodesFile
  BY DEF PutNode, argVars, AtLine, Scanned
<1>3. CASE pc' = "closing" /\ outcome' = "error"
  BY <1>3 DEF RowsInv, Saving, Succeeded
<1>4. CASE pc' = pc /\ pos' = pos + 1
  <2>1. pc' = "nodes" /\ Written' = Layer(NodePuts(ParseLine(header, line)), Written)
    BY <1>1, <1>2, <1>4, CommitWrites DEF TypeOK
  <2>2. ASSUME ~readErr'
        PROVE  /\ header' = IngestHeader(nodesFile', pos')
               /\ HoldsNodesTo(nodesFile', Written', pos')
    <3>1. line = nodesFile[pos] /\ header = IngestHeader(nodesFile, pos)
          /\ HoldsNodesTo(nodesFile, Written, pos)
      BY <1>1, <1>2, <2>2 DEF RowsInv
    <3>2. /\ pos \in NodeRows(nodesFile) /\ pos \in Nat
          /\ ParseLine(header, line) = RecordAt(nodesFile, pos)
          /\ IngestHeader(nodesFile, pos + 1) = header
      BY <1>1, <1>2, <3>1, LineAt DEF IsNodeRow, IsIngestRow
    <3> QED
      BY <1>2, <1>4, <2>1, <3>1, <3>2, NodesGrow
  <2> QED
    BY <2>1, <2>2 DEF RowsInv, Saving, Succeeded
<1> QED
  BY <1>1, <1>3, <1>4, CommitFlow

\* An edge row likewise; the rows of the nodes file stay written.
LEMMA PutEdgeKeepsRows ==
  ASSUME TypeOK, RowsInv, PutEdge
  PROVE  RowsInv'
<1>1. PICK line \in Texts, size \in RecordBytes, blobSize \in BlobBytes :
        /\ IsEdgeRow(line) /\ readErr' = (line # Scanned[pos])
        /\ AddBlob(ParseLine(header, line), size, blobSize)
  BY DEF PutEdge
<1>2. /\ pc = "edges" /\ AtLine /\ ~readErr /\ UNCHANGED <<nodesFile, edgesFile, header>>
      /\ Scanned = edgesFile
  BY DEF PutEdge, argVars, AtLine, Scanned
<1>3. PICK puts : Commit(puts, size) /\ EdgeRowPuts(puts, ParseLine(header, line))
  BY <1>1, EdgeRowPutsHold DEF AddBlob
<1>4. CASE pc' = "closing" /\ outcome' = "error"
  BY <1>4 DEF RowsInv, Saving, Succeeded
<1>5. CASE pc' = pc /\ pos' = pos + 1
  <2>1. pc' = "edges" /\ Written' = Layer(puts, Written)
    BY <1>2, <1>3, <1>5, CommitWrites DEF TypeOK
  <2>2. HoldsNodes(nodesFile', Written')
    BY <1>2, <1>3, <2>1, HoldsUnder, WrittenIsBundle DEF RowsInv, HoldsNodes, EdgeRowPuts
  <2>3. ASSUME ~readErr'
        PROVE  /\ header' = IngestHeader(edgesFile', pos')
               /\ HoldsEdgesTo(edgesFile', Written', pos')
    <3>1. line = edgesFile[pos] /\ header = IngestHeader(edgesFile, pos)
          /\ HoldsEdgesTo(edgesFile, Written, pos)
      BY <1>1, <1>2, <2>3 DEF RowsInv
    <3>2. /\ pos \in EdgeRows(edgesFile) /\ pos \in Nat
          /\ ParseLine(header, line) = RecordAt(edgesFile, pos)
          /\ IngestHeader(edgesFile, pos + 1) = header
      BY <1>1, <1>2, <3>1, LineAt DEF IsEdgeRow, IsIngestRow
    <3> QED
      BY <1>2, <1>3, <1>5, <2>1, <3>1, <3>2, EdgesGrow
  <2> QED
    BY <2>1, <2>2, <2>3 DEF RowsInv, Saving, Succeeded
<1> QED
  BY <1>3, <1>4, <1>5, CommitFlow

\* A line that is no row is passed over, a header line is remembered.
LEMMA PassKeepsRows ==
  ASSUME TypeOK, RowsInv, ReadHeader \/ SkipLine
  PROVE  RowsInv'
<1>1. /\ pc \in {"nodes", "edges"} /\ AtLine /\ ~readErr /\ pos' = pos + 1
      /\ header' = IF IsIngestHeader(Scanned[pos]) THEN Scanned[pos] ELSE header
      /\ UNCHANGED <<nodesFile, edgesFile, pc, readErr, outcome, ending, batch, mem, sst>>
  BY DEF ReadHeader, SkipLine, HasLine, AtLine, argVars, batchVars, ghostVars, storeVars
<1>2. Written' = Written /\ View' = View
  BY <1>1 DEF Written, View
<1>3. CASE pc = "nodes"
  <2>1. Scanned = nodesFile /\ header = IngestHeader(nodesFile, pos)
    BY <1>1, <1>3 DEF Scanned, RowsInv
  <2>2. pos \in 1..Len(nodesFile) /\ header' = IngestHeader(nodesFile, pos')
    BY <1>1, <2>1, LineAt
  <2>3. pos \notin NodeRows(nodesFile)
    <3>1. IsIngestHeader(Scanned[pos]) \/ ~IsNodeRow(Scanned[pos])
      BY <1>3 DEF ReadHeader, SkipLine
    <3> QED
      BY <1>1, <2>1, <2>2, <3>1, LineAt, HeaderNoRow
  <2>4. HoldsNodesTo(nodesFile, Written, pos + 1)
    BY <1>1, <1>3, <2>2, <2>3, NodesGrow DEF RowsInv
  <2> QED
    BY <1>1, <1>2, <1>3, <2>2, <2>4 DEF RowsInv, Saving, Succeeded
<1>4. CASE pc = "edges"
  <2>1. Scanned = edgesFile /\ header = IngestHeader(edgesFile, pos)
    BY <1>1, <1>4 DEF Scanned, RowsInv
  <2>2. pos \in 1..Len(edgesFile) /\ header' = IngestHeader(edgesFile, pos')
    BY <1>1, <2>1, LineAt
  <2>3. pos \notin EdgeRows(edgesFile)
    <3>1. IsIngestHeader(Scanned[pos]) \/ ~IsEdgeRow(Scanned[pos])
      BY <1>4 DEF ReadHeader, SkipLine
    <3> QED
      BY <1>1, <2>1, <2>2, <3>1, LineAt, HeaderNoRow
  <2>4. HoldsEdgesTo(edgesFile, Written, pos + 1)
    BY <1>1, <1>4, <2>2, <2>3, EdgesGrow DEF RowsInv
  <2> QED
    BY <1>1, <1>2, <1>4, <2>2, <2>4 DEF RowsInv, Saving, Succeeded
<1> QED
  BY <1>1, <1>3, <1>4

\* The nodes loop ends well only at the end of the nodes file.
LEMMA FinishNodesKeepsRows ==
  ASSUME TypeOK, RowsInv, FinishNodes
  PROVE  RowsInv'
<1>1. PICK failed \in BOOLEAN : ScanEnds(failed) /\ FinalFlush(batch, failed, "edges")
  BY DEF FinishNodes
<1>2. pc = "nodes" /\ UNCHANGED <<nodesFile, edgesFile>> /\ readErr' = readErr
  BY <1>1, FinalFlushFlow DEF FinishNodes, argVars
<1>3. CASE pc' = "closing" /\ outcome' = "error"
  BY <1>3 DEF RowsInv, Saving, Succeeded
<1>4. CASE ~failed /\ pc' = "edges"
  <2>1. /\ pos > Len(nodesFile) /\ ~readErr /\ pos \in Nat
        /\ nodesFile \in File /\ edgesFile \in File
    BY <1>1, <1>2, <1>4, FileTypes DEF ScanEnds, Scanned, TypeOK
  <2>2. Written' = Written /\ HoldsNodes(nodesFile, Written)
    BY <1>1, <1>2, <1>4, <2>1, FinalFlushWrites, HoldsAllRows DEF RowsInv, TypeOK
  <2>3. pos' = 1 /\ header' = NoHeader
    BY <1>1, <1>4 DEF FinalFlush, Fail
  <2>4. HoldsEdgesTo(edgesFile, Written, 1) /\ IngestHeader(edgesFile, 1) = NoHeader
    BY <2>1, HoldsNoRow, IngestHeaderSteps
  <2> QED
    BY <1>2, <1>4, <2>2, <2>3, <2>4 DEF RowsInv, Saving, Succeeded
<1> QED
  BY <1>1, <1>3, <1>4, FinalFlushFlow

\* The edges loop likewise; after it everything is in the store.
LEMMA FinishEdgesKeepsRows ==
  ASSUME TypeOK, RowsInv, FinishEdges
  PROVE  RowsInv'
<1> DEFINE fat == FatPuts(Unwritten)
<1>1. PICK failed \in BOOLEAN : ScanEnds(failed) /\ FinalFlush(Layer(fat, batch), failed, "save")
  BY DEF FinishEdges
<1>2. pc = "edges" /\ UNCHANGED <<nodesFile, edgesFile>>
  BY DEF FinishEdges, argVars
<1>3. fat["nodes"] = EmptyMap /\ fat["edges"] = EmptyMap
  BY DEF FatPuts, Nothing, Families
<1> HIDE DEF fat
<1>4. CASE pc' = "closing" /\ outcome' = "error"
  BY <1>4 DEF RowsInv, Saving, Succeeded
<1>5. CASE ~failed /\ pc' = "save"
  <2>1. pos > Len(edgesFile) /\ ~readErr /\ pos \in Nat /\ edgesFile \in File
    BY <1>1, <1>2, <1>5, FileTypes DEF ScanEnds, Scanned, TypeOK
  <2>2. HoldsNodes(nodesFile, Written) /\ HoldsEdges(edgesFile, Written)
    BY <1>2, <2>1, HoldsAllRows DEF RowsInv
  <2>3. View' = Layer(fat, Written)
    <3>1. View' = Layer(Layer(fat, batch), View)
      BY <1>1, <1>5, FinalFlushView DEF TypeOK
    <3> QED
      BY <3>1, LayerAssoc DEF Written
  <2>4. HoldsNodes(nodesFile, View') /\ HoldsEdges(edgesFile, View')
    BY <1>3, <2>2, <2>3, HoldsUnder, WrittenIsBundle DEF HoldsNodes, HoldsEdges
  <2> QED
    BY <1>2, <1>5, <2>4 DEF RowsInv, Saving, Succeeded
<1> QED
  BY <1>1, <1>4, <1>5, FinalFlushFlow

\* A store that is closed in order holds on disk what readers saw.
LEMMA LeaveKeepsRows ==
  ASSUME RowsInv, CloseStore \/ CloseUnflushed \/ Crash
  PROVE  RowsInv'
<1>1. PICK kept, how : Leave(kept, how)
  BY DEF CloseStore, CloseUnflushed, Crash
<1>2. /\ pc' = "idle" /\ pos' = 1 /\ header' = NoHeader
      /\ UNCHANGED <<nodesFile, edgesFile, outcome>>
  BY <1>1 DEF Leave, argVars
<1>3. ASSUME Succeeded'
      PROVE  Saving /\ sst' = View
  <2>1. CloseStore
    BY <1>3 DEF Succeeded, CloseUnflushed, Crash, Leave
  <2>2. Saving
    BY <1>2, <1>3, <2>1 DEF Succeeded, CloseStore, Saving
  <2>3. sst' = View
    BY <2>1, ViewIsBundle DEF CloseStore, Leave, Vanish, IsBundle
  <2> QED
    BY <2>2, <2>3
<1> QED
  BY <1>2, <1>3 DEF RowsInv, Saving

\* Every step keeps what the scanner has passed written.
LEMMA RowsNext == TypeOK /\ RowsInv /\ [Next]_vars => RowsInv'
<1> SUFFICES ASSUME TypeOK, RowsInv, [Next]_vars PROVE RowsInv'
  OBVIOUS
<1> USE DEF argVars, loopVars, batchVars, ghostVars
<1>1. UNCHANGED <<batch, storeVars>> => Written' = Written /\ View' = View
  BY DEF Written, View, storeVars
<1>2. CASE RejectIngest \/ OpenFails
  <2>1. /\ pc = "idle" /\ outcome' \in {"rejected", "error"}
        /\ UNCHANGED <<pc, pos, header>>
    BY <1>2 DEF RejectIngest, OpenFails, Invoke, MayStart
  <2> QED
    BY <2>1 DEF RowsInv, Saving, Succeeded
<1>3. CASE BeginIngest
  <2>1. /\ pc = "idle" /\ pc' = "nodes" /\ nodesFile' \in NodeFiles
        /\ UNCHANGED <<pos, header>>
    BY <1>3 DEF BeginIngest, Invoke, MayStart
  <2>2. pos = 1 /\ header = NoHeader /\ nodesFile' \in File
    BY <2>1, IngestAssumption DEF RowsInv
  <2>3. /\ HoldsNodesTo(nodesFile', Written', 1)
        /\ IngestHeader(nodesFile', 1) = NoHeader
    BY <2>2, HoldsNoRow, IngestHeaderSteps
  <2> QED
    BY <2>1, <2>2, <2>3 DEF RowsInv, Saving, Succeeded
<1>4. CASE ReadHeader \/ SkipLine
  BY <1>4, PassKeepsRows
<1>5. CASE PutNode
  BY <1>5, PutNodeKeepsRows
<1>6. CASE PutEdge
  BY <1>6, PutEdgeKeepsRows
<1>7. CASE FinishNodes
  BY <1>7, FinishNodesKeepsRows
<1>8. CASE FinishEdges
  BY <1>8, FinishEdgesKeepsRows
<1>9. CASE SaveTruncate \/ SaveWrite \/ SaveFails
  <2>1. /\ UNCHANGED <<nodesFile, edgesFile, batch, storeVars>>
        /\ pc \in {"save", "writing"} /\ pc' \in {"writing", "closing"}
    BY <1>9 DEF SaveTruncate, SaveWrite, SaveFails
  <2> QED
    BY <1>1, <2>1 DEF RowsInv, Saving, Succeeded
<1>10. CASE CloseStore \/ CloseUnflushed \/ Crash
  BY <1>10, LeaveKeepsRows
<1>11. CASE BackgroundFlush
  <2>1. View' = View
    BY <1>11, FlushView DEF BackgroundFlush, TypeOK
  <2>2. /\ pc # "idle"
        /\ UNCHANGED <<nodesFile, edgesFile, pc, pos, header, readErr, outcome, batch>>
    BY <1>11 DEF BackgroundFlush
  <2>3. Written' = Written
    BY <2>1, <2>2 DEF Written
  <2> QED
    BY <2>1, <2>2, <2>3 DEF RowsInv, Saving, Succeeded
<1>12. CASE UNCHANGED vars
  <2>1. UNCHANGED <<nodesFile, edgesFile, pc, pos, header, readErr, outcome, ending, sst>>
    BY <1>12 DEF vars, storeVars
  <2> QED
    BY <1>1, <1>12, <2>1 DEF RowsInv, Saving, Succeeded, vars
<1> QED
  BY <1>2, <1>3, <1>4, <1>5, <1>6, <1>7, <1>8, <1>9, <1>10, <1>11, <1>12
  DEF Next, Process

\* What the invariant says of whole files is what the properties ask.
LEMMA HoldsFiles ==
  ASSUME TypeOK, NEW b, HoldsNodes(nodesFile, b), HoldsEdges(edgesFile, b)
  PROVE  HoldsRows(b) /\ HoldsEntries(b)
<1>1. /\ \A i \in NodeRows(nodesFile) : i \in Nat /\ i < Len(nodesFile) + 1
      /\ \A i \in EdgeRows(edgesFile) : i \in Nat /\ i < Len(edgesFile) + 1
  BY FileTypes, RowPositions
<1>2. HoldsEntries(b)
  BY <1>1 DEF HoldsEntries, HoldsNodes, HoldsEdges, HoldsNodesTo, HoldsEdgesTo, NodeAt, EdgeAt
<1>3. ASSUME NEW i \in LastNodeRows
      PROVE  NodeAt(i).id \in DOMAIN b["nodes"] /\ b["nodes"][NodeAt(i).id] = NodeValue(NodeAt(i))
  <2>1. i \in NodeRows(nodesFile) /\ \A j \in NodeRows(nodesFile) :
          i < j => NodeAt(j).id # NodeAt(i).id
    BY <1>1 DEF LastNodeRows
  <2>2. b["nodes"][NodeAt(i).id] = NodeValue(NodeAt(i))
    BY <1>1, <2>1 DEF HoldsNodes, HoldsNodesTo, NodeAt
  <2>3. DOMAIN NodePuts(NodeAt(i))["nodes"] = {NodeAt(i).id} /\ "nodes" \in Families
    BY NodePutsParts DEF Families
  <2> QED
    BY <1>2, <2>1, <2>2, <2>3 DEF HoldsEntries
<1>4. ASSUME NEW i \in LastEdgeRows
      PROVE  /\ EdgeId(EdgeAt(i)) \in DOMAIN b["edges"]
             /\ b["edges"][EdgeId(EdgeAt(i))] = EdgeValue(EdgeAt(i))
  <2>1. i \in EdgeRows(edgesFile) /\ \A j \in EdgeRows(edgesFile) :
          i < j => EdgeId(EdgeAt(j)) # EdgeId(EdgeAt(i))
    BY <1>1 DEF LastEdgeRows
  <2>2. b["edges"][EdgeId(EdgeAt(i))] = EdgeValue(EdgeAt(i))
    BY <1>1, <2>1 DEF HoldsEdges, HoldsEdgesTo, EdgeAt
  <2>3. DOMAIN EdgePuts(EdgeAt(i))["edges"] = {EdgeId(EdgeAt(i))} /\ "edges" \in Families
    BY EdgePutsParts DEF Families
  <2> QED
    BY <1>2, <2>1, <2>2, <2>3 DEF HoldsEntries
<1> QED
  BY <1>2, <1>3, <1>4 DEF HoldsRows

\* What all states of an ingestion satisfy, together.
LEMMA LoadInvariant == Spec => [](TypeOK /\ FlowInv /\ BlobInv /\ RowsInv)
<1>1. Init => TypeOK /\ FlowInv /\ BlobInv /\ RowsInv
  BY TypeInit, FlowInit, BlobInit, RowsInit
<1>2. TypeOK /\ FlowInv /\ BlobInv /\ RowsInv /\ [Next]_vars
        => (TypeOK /\ FlowInv /\ BlobInv /\ RowsInv)'
  BY TypeNext, FlowNext, BlobNext, RowsNext
<1> QED
  BY <1>1, <1>2, PTL DEF Spec

\* "Ingestion completed successfully." (executor.go) followed by an orderly
\* Close leaves every accepted row of both files on disk with its entries,
\* whatever the batch sizes, the cut lines, and the runs that failed before.
THEOREM SuccessAlwaysStoresAll == Spec => []SuccessStoresAll
<1>1. TypeOK /\ RowsInv => SuccessStoresAll
  BY HoldsFiles DEF RowsInv, SuccessStoresAll
<1> QED
  BY <1>1, LoadInvariant, PTL

\* SaveMetadata runs after both loops and their final flushes (ingestor.go):
\* no step completes metadata.json before all the data is in the store.
THEOREM MetadataAlwaysAfterData == Spec => MetadataAfterData
<1> DEFINE Ordered == metaFile'.state = "complete" /\ metaFile' # metaFile =>
                        /\ HoldsRows(View) /\ HoldsEntries(View)
                        /\ batch = Nothing /\ pending = NoPending
<1>1. TypeOK /\ FlowInv /\ RowsInv /\ [Next]_vars => [Ordered]_vars
  <2> SUFFICES ASSUME TypeOK, FlowInv, RowsInv, Next,
                      metaFile'.state = "complete", metaFile' # metaFile
               PROVE  /\ HoldsRows(View) /\ HoldsEntries(View)
                      /\ batch = Nothing /\ pending = NoPending
    OBVIOUS
  <2>1. CASE SaveWrite
    <3>1. pc = "writing"
      BY <2>1 DEF SaveWrite
    <3> QED
      BY <3>1, HoldsFiles DEF RowsInv, FlowInv, Saving
  <2>2. CASE SaveTruncate
    <3>1. metaFile'.state = "torn"
      BY <2>2 DEF SaveTruncate, Torn
    <3> QED
      BY <3>1
  <2>3. ASSUME ~SaveWrite, ~SaveTruncate PROVE metaFile' = metaFile
    BY <2>3 DEF Next, Process, RejectIngest, OpenFails, BeginIngest, ReadHeader, SkipLine,
       PutNode, PutEdge, FinishNodes, FinishEdges, SaveFails, CloseStore, CloseUnflushed,
       Crash, Leave, BackgroundFlush, metaVars
  <2> QED
    BY <2>1, <2>2, <2>3
<1> QED
  BY <1>1, LoadInvariant, PTL DEF Spec, MetadataAfterData


-----------------------------------------------------------------------------
(* Records, and what puts do to them.                                      *)

\* Layers of bundles are layers of their records.
LEMMA RecordsOfLayer ==
  ASSUME NEW new, NEW old
  PROVE  Records(Layer(new, old)) = G!Over(Records(new), Records(old))
BY DEF Records, Layer, Overlay, G!Over, G!Kinds, Families

\* No puts, no records.
LEMMA RecordsOfNothing == Records(Nothing) = G!NoRecords
BY DEF Records, Nothing, G!NoRecords, G!Kinds, Families, EmptyMap

-----------------------------------------------------------------------------
(* The lines left.                                                         *)

AnyLine == [kind : {"nodes", "edges"}, file : File, at : Nat]

\* The head of a sequence and its tail.
LEMMA HeadAndTail ==
  ASSUME NEW S, NEW s \in Seq(S), s # <<>>
  PROVE  /\ Head(s) = s[1] /\ Tail(s) \in Seq(S) /\ Len(Tail(s)) = Len(s) - 1
         /\ \A k \in 1..Len(s) - 1 : Tail(s)[k] = s[k + 1]
OBVIOUS

\* Sequences with the same elements.
LEMMA SameSequence ==
  ASSUME NEW S, NEW s \in Seq(S), NEW t \in Seq(S), Len(s) = Len(t),
         \A k \in 1..Len(s) : s[k] = t[k]
  PROVE  s = t
OBVIOUS

\* The lines from one on: the line at hand and the lines after it.
LEMMA LinesFrom ==
  ASSUME NEW kind \in {"nodes", "edges"}, NEW file \in File, NEW p \in 1..Len(file) + 1
  PROVE  /\ Lines(kind, file, p) \in Seq(AnyLine)
         /\ p = Len(file) + 1 => Lines(kind, file, p) = <<>>
         /\ p # Len(file) + 1 =>
              /\ Lines(kind, file, p) # <<>>
              /\ Head(Lines(kind, file, p)) = [kind |-> kind, file |-> file, at |-> p]
              /\ Tail(Lines(kind, file, p)) = Lines(kind, file, p + 1)
<1> DEFINE n == Len(file)
           At(k) == [kind |-> kind, file |-> file, at |-> k]
           s == [k \in 1..(n + 1 - p) |-> At(p + k - 1)]
           t == [k \in 1..(n + 1 - (p + 1)) |-> At(p + 1 + k - 1)]
<1>1. n \in Nat /\ p \in 1..n + 1
  BY DEF File
<1>2. s = Lines(kind, file, p) /\ t = Lines(kind, file, p + 1)
  BY DEF Lines
<1>3. \A k \in Nat : At(k) \in AnyLine
  BY DEF AnyLine
<1> HIDE DEF n, At
<1>4. s \in [1..(n + 1 - p) -> AnyLine] /\ n + 1 - p \in Nat
  BY <1>1, <1>3
<1>5. s \in Seq(AnyLine) /\ Len(s) = n + 1 - p
  BY <1>4
<1>6. p = n + 1 => s = <<>>
  BY <1>1, <1>5
<1>7. ASSUME p # n + 1
      PROVE  s # <<>> /\ Head(s) = At(p) /\ Tail(s) = t
  <2> DEFINE m == n - p
  <2>1. m \in Nat /\ n + 1 - p = m + 1 /\ n + 1 - (p + 1) = m /\ p \in Nat
    BY <1>1, <1>7
  <2> HIDE DEF m
  <2>2. /\ s \in Seq(AnyLine) /\ Len(s) = m + 1
        /\ \A k \in 1..m + 1 : s[k] = At(p + k - 1)
    BY <1>5, <2>1
  <2>3. /\ t \in Seq(AnyLine) /\ Len(t) = m
        /\ \A k \in 1..m : t[k] = At(p + 1 + k - 1)
    BY <1>3, <2>1
  <2> HIDE DEF s, t
  <2>4. s # <<>> /\ s[1] = At(p)
    BY <2>1, <2>2
  <2>5. /\ Head(s) = s[1] /\ Tail(s) \in Seq(AnyLine) /\ Len(Tail(s)) = Len(s) - 1
        /\ \A k \in 1..Len(s) - 1 : Tail(s)[k] = s[k + 1]
    BY <2>2, <2>4, HeadAndTail
  <2>6. Len(Tail(s)) = m /\ \A k \in 1..m : Tail(s)[k] = s[k + 1]
    BY <2>1, <2>2, <2>5
  <2>7. ASSUME NEW k \in 1..m PROVE Tail(s)[k] = t[k]
    <3>1. k + 1 \in 1..m + 1 /\ p + (k + 1) - 1 = p + 1 + k - 1
      BY <2>1
    <3>2. s[k + 1] = At(p + (k + 1) - 1)
      BY <2>2, <3>1
    <3> QED
      BY <2>3, <2>6, <3>1, <3>2
  <2>8. Tail(s) = t
    BY <2>3, <2>5, <2>6, <2>7, SameSequence
  <2> QED
    BY <2>4, <2>5, <2>8
<1> QED
  BY <1>2, <1>5, <1>6, <1>7 DEF n, At

\* The line at hand of two files is that of the first, until it is read.
LEMMA LinesOfBoth ==
  ASSUME NEW s \in Seq(AnyLine), NEW t \in Seq(AnyLine)
  PROVE  /\ s = <<>> => s \o t = t
         /\ s # <<>> => /\ s \o t # <<>>
                        /\ Head(s \o t) = Head(s)
                        /\ Tail(s \o t) = Tail(s) \o t
<1>1. s = <<>> => s \o t = t
  OBVIOUS
<1>2. ASSUME s # <<>>
      PROVE  /\ s \o t # <<>> /\ Head(s \o t) = Head(s)
             /\ Tail(s \o t) = Tail(s) \o t
  <2> DEFINE m == Len(s)
             n == Len(t)
             u == s \o t
  <2>1. m \in Nat /\ n \in Nat /\ m >= 1
    BY <1>2
  <2>2. u \in Seq(AnyLine) /\ Len(u) = m + n
    OBVIOUS
  <2>3. \A k \in 1..m + n : u[k] = IF k <= m THEN s[k] ELSE t[k - m]
    OBVIOUS
  <2>4. u # <<>>
    BY <2>1, <2>2
  <2>5. /\ Head(s) = s[1] /\ Tail(s) \in Seq(AnyLine) /\ Len(Tail(s)) = m - 1
        /\ \A k \in 1..m - 1 : Tail(s)[k] = s[k + 1]
    BY <1>2, HeadAndTail
  <2>6. /\ Head(u) = u[1] /\ Tail(u) \in Seq(AnyLine) /\ Len(Tail(u)) = Len(u) - 1
        /\ \A k \in 1..Len(u) - 1 : Tail(u)[k] = u[k + 1]
    BY <2>2, <2>4, HeadAndTail
  <2> DEFINE v == Tail(s) \o t
  <2>7. /\ v \in Seq(AnyLine) /\ Len(v) = m - 1 + n
        /\ \A k \in 1..m - 1 + n : v[k] = IF k <= m - 1 THEN Tail(s)[k] ELSE t[k - (m - 1)]
    BY <2>5
  <2> HIDE DEF m, n, u, v
  <2>8. Head(u) = Head(s)
    BY <2>1, <2>3, <2>5, <2>6
  <2>9. m + n - 1 = m - 1 + n /\ Len(Tail(u)) = m - 1 + n
    BY <2>1, <2>2, <2>6
  <2>10. ASSUME NEW k \in 1..m - 1 + n PROVE Tail(u)[k] = v[k]
    <3> DEFINE j == k + 1
    <3>1. /\ k \in Nat /\ j \in 1..m + n /\ j - m = k - (m - 1)
          /\ (j <= m <=> k <= m - 1) /\ (k <= m - 1 => k \in 1..m - 1)
      BY <2>1
    <3>2. Tail(u)[k] = u[j]
      <4>1. 1..Len(u) - 1 = 1..m - 1 + n
        BY <2>1, <2>2
      <4>2. k \in 1..Len(u) - 1
        BY <4>1
      <4> QED
        BY <2>6, <4>2
    <3>3. k <= m - 1 => Tail(s)[k] = s[j]
      BY <2>5, <3>1
    <3> HIDE DEF j
    <3>4. u[j] = IF j <= m THEN s[j] ELSE t[j - m]
      BY <2>3, <3>1
    <3>5. v[k] = IF k <= m - 1 THEN Tail(s)[k] ELSE t[k - (m - 1)]
      BY <2>7
    <3>6. CASE k <= m - 1
      <4>1. u[j] = s[j] /\ v[k] = Tail(s)[k]
        BY <3>1, <3>4, <3>5, <3>6
      <4> QED
        BY <3>2, <3>3, <3>6, <4>1
    <3>7. CASE ~(k <= m - 1)
      <4>1. ~(j <= m)
        BY <3>1, <3>7
      <4>2. u[j] = t[j - m]
        BY <3>4, <4>1
      <4>3. v[k] = t[k - (m - 1)]
        BY <3>5, <3>7
      <4>4. t[j - m] = t[k - (m - 1)]
        BY <3>1
      <4> QED
        BY <3>2, <4>2, <4>3, <4>4
    <3> QED
      BY <3>6, <3>7
  <2>11. Tail(u) = v
    BY <2>6, <2>7, <2>9, <2>10, SameSequence
  <2> QED
    BY <2>4, <2>8, <2>11 DEF u, v
<1> QED
  BY <1>1, <1>2

-----------------------------------------------------------------------------
(* The steps of GraphLoad, in the terms of Ingest.                         *)

Todo == CASE pc = "nodes" -> NodeLines(nodesFile, pos) \o EdgeLines(edgesFile, 1)
          [] pc = "edges" -> EdgeLines(edgesFile, pos)
          [] OTHER        -> <<>>

Held == Records(batch)
Visible == Records(View)
Safe == Records(sst)

\* A row is read into the batch, or through it into the store.
LEMMA ReadStep ==
  ASSUME pc # "idle", pc' # "idle", outcome' = outcome, Safe' = Safe,
         Todo # <<>>, Todo' = Tail(Todo), NEW row \in RowIn(Head(Todo)),
         \/ Held' = G!With(row, Held) /\ Visible' = Visible
         \/ Visible' = G!Over(G!With(row, Held), Visible) /\ Held' = G!NoRecords
  PROVE  G!Next
<1>1. G!Read
  BY DEF G!Read, Todo, Held, Visible, Safe
<1> QED
  BY <1>1 DEF G!Next

\* A line without a row is passed over.
LEMMA PassStep ==
  ASSUME pc # "idle", pc' # "idle", outcome' = outcome, Safe' = Safe,
         Todo # <<>>, Todo' = Tail(Todo), RowIn(Head(Todo)) = {},
         Held' = Held, Visible' = Visible
  PROVE  G!Next
<1>1. G!Pass
  BY DEF G!Pass, Todo, Held, Visible, Safe
<1> QED
  BY <1>1 DEF G!Next

\* What is held is shown.
LEMMA ShowStep ==
  ASSUME pc # "idle", pc' # "idle", outcome' = outcome, Safe' = Safe, Todo' = Todo,
         Visible' = G!Over(Held, Visible), Held' = G!NoRecords
  PROVE  G!Next
<1>1. G!Show
  BY DEF G!Show, Todo, Held, Visible, Safe
<1> QED
  BY <1>1 DEF G!Next

\* An error ends the reading.
LEMMA StopStep ==
  ASSUME pc # "idle", pc' = "closing", outcome = "none", outcome' = "error", Safe' = Safe,
         Visible' \in {Visible, G!Over(Held, Visible)}, Held' = G!NoRecords
  PROVE  G!Next
<1>1. Todo' = <<>>
  BY DEF Todo
<1>2. G!Stop
  BY <1>1 DEF G!Stop, Todo, Held, Visible, Safe
<1> QED
  BY <1>2 DEF G!Next

\* What is safe of a family follows what is visible of it.
LEMMA SettleStep ==
  ASSUME pc # "idle", pc' # "idle", outcome' = outcome, Todo' = Todo, Held' = Held,
         Visible' = Visible, NEW kind \in {"nodes", "edges"},
         Safe' = [Safe EXCEPT ![kind] = Visible[kind]]
  PROVE  G!Next
<1>1. G!Settle(kind)
  BY DEF G!Settle, Todo, Held, Visible, Safe
<1> QED
  BY <1>1 DEF G!Next, G!Kinds

\* The end keeps what was visible of some kinds, what was safe of the others.
LEMMA EndStep ==
  ASSUME pc # "idle", pc' = "idle", outcome' = outcome, Held' = G!NoRecords,
         NEW kept, kept \subseteq {"nodes", "edges"}, outcome = "none" => kept = {},
         Visible' = [kind \in {"nodes", "edges"} |->
                       IF kind \in kept THEN Visible[kind] ELSE Safe[kind]],
         Safe' = Visible'
  PROVE  G!Next
<1>1. Todo' = <<>>
  BY DEF Todo
<1>2. kept \in IF outcome = "none" THEN {{}} ELSE SUBSET {"nodes", "edges"}
  OBVIOUS
<1>3. G!End
  BY <1>1, <1>2 DEF G!End, G!Kinds, Todo, Held, Visible, Safe
<1> QED
  BY <1>3 DEF G!Next

-----------------------------------------------------------------------------
(* The steps of Ingest.                                                    *)

\* The line at hand comes first of the lines left.
LEMMA LinesLeft ==
  ASSUME TypeOK, pc \in {"nodes", "edges"}, pos <= Len(Scanned)
  PROVE  /\ Todo # <<>> /\ Head(Todo) = [kind |-> pc, file |-> Scanned, at |-> pos]
         /\ pc' = pc /\ pos' = pos + 1 /\ UNCHANGED <<nodesFile, edgesFile>>
              => Todo' = Tail(Todo)
<1>1. /\ nodesFile \in File /\ edgesFile \in File /\ Scanned \in File
      /\ Len(Scanned) \in Nat /\ 1 \in 1..Len(edgesFile) + 1
  BY FileTypes DEF Scanned
<1>2. pos \in 1..Len(Scanned) + 1 /\ pos # Len(Scanned) + 1
  BY <1>1 DEF TypeOK
<1>3. EdgeLines(edgesFile, 1) \in Seq(AnyLine)
  BY <1>1, LinesFrom DEF EdgeLines
<1>4. /\ Lines(pc, Scanned, pos) \in Seq(AnyLine)
      /\ Lines(pc, Scanned, pos) # <<>>
      /\ Head(Lines(pc, Scanned, pos)) = [kind |-> pc, file |-> Scanned, at |-> pos]
      /\ Tail(Lines(pc, Scanned, pos)) = Lines(pc, Scanned, pos + 1)
  BY <1>1, <1>2, LinesFrom
<1>5. CASE pc = "nodes"
  <2>1. Todo = Lines(pc, Scanned, pos) \o EdgeLines(edgesFile, 1)
    BY <1>5 DEF Todo, Scanned, NodeLines
  <2>2. pc' = pc /\ pos' = pos + 1 /\ UNCHANGED <<nodesFile, edgesFile>>
          => Todo' = Lines(pc, Scanned, pos + 1) \o EdgeLines(edgesFile, 1)
    BY <1>5 DEF Todo, Scanned, NodeLines
  <2> QED
    BY <1>3, <1>4, <2>1, <2>2, LinesOfBoth
<1>6. CASE pc = "edges"
  <2>1. Todo = Lines(pc, Scanned, pos)
    BY <1>6 DEF Todo, Scanned, EdgeLines
  <2>2. pc' = pc /\ pos' = pos + 1 /\ UNCHANGED <<nodesFile, edgesFile>>
          => Todo' = Lines(pc, Scanned, pos + 1)
    BY <1>6 DEF Todo, Scanned, EdgeLines
  <2> QED
    BY <1>4, <2>1, <2>2
<1> QED
  BY <1>5, <1>6

\* What one record puts is one row.
OneRow(puts, row) ==
  Records(puts) = [G!NoRecords EXCEPT ![row.kind] = [id \in {row.id} |-> row.value]]

\* A committed record is a row read; a failing write stops the load.
LEMMA CommitStep ==
  ASSUME TypeOK, FlowInv, pc \in {"nodes", "edges"}, pos <= Len(Scanned),
         NEW puts, NEW size, Commit(puts, size), UNCHANGED <<nodesFile, edgesFile>>,
         NEW row \in RowIn([kind |-> pc, file |-> Scanned, at |-> pos]), OneRow(puts, row)
  PROVE  G!Next
<1>1. outcome = "none"
  BY DEF FlowInv
<1>2. \A b : Records(Layer(puts, b)) = G!With(row, Records(b))
  BY RecordsOfLayer DEF OneRow, G!With
<1>3. /\ Todo # <<>> /\ Head(Todo) = [kind |-> pc, file |-> Scanned, at |-> pos]
      /\ pc' = pc /\ pos' = pos + 1 => Todo' = Tail(Todo)
  BY LinesLeft
<1>4. CASE /\ batch' = Layer(puts, batch) /\ pos' = pos + 1
           /\ UNCHANGED <<pc, outcome, storeVars>>
  <2>1. Held' = G!With(row, Held) /\ Visible' = Visible /\ Safe' = Safe
    BY <1>2, <1>4 DEF Held, Visible, Safe, View, storeVars
  <2> QED
    BY <1>3, <1>4, <2>1, ReadStep
<1>5. CASE WriteOut(Layer(puts, batch)) /\ pos' = pos + 1 /\ UNCHANGED <<pc, outcome>>
  <2>1. View' = Layer(Layer(puts, batch), View) /\ batch' = Nothing /\ sst' = sst
    BY <1>5, WriteView DEF WriteOut, Write
  <2>2. Visible' = G!Over(G!With(row, Held), Visible)
    BY <1>2, <2>1, RecordsOfLayer DEF Held, Visible
  <2>3. Held' = G!NoRecords /\ Safe' = Safe
    BY <2>1, RecordsOfNothing DEF Held, Safe
  <2> QED
    BY <1>3, <1>5, <2>2, <2>3, ReadStep
<1>6. CASE Fail /\ UNCHANGED storeVars
  <2>1. Visible' = Visible /\ Safe' = Safe /\ Held' = G!NoRecords
    BY <1>6, RecordsOfNothing DEF Fail, Held, Visible, Safe, View, storeVars
  <2> QED
    BY <1>1, <1>6, <2>1, StopStep DEF Fail
<1> QED
  BY <1>4, <1>5, <1>6 DEF Commit

\* The record of an accepted row.
LEMMA RowsHaveRecords ==
  ASSUME NEW file, NEW p
  PROVE  /\ p \in NodeRows(file) =>
              RowIn([kind |-> "nodes", file |-> file, at |-> p]) =
                {[kind |-> "nodes", id |-> RecordAt(file, p).id, value |-> NodeValue(RecordAt(file, p))]}
         /\ p \in EdgeRows(file) =>
              RowIn([kind |-> "edges", file |-> file, at |-> p]) =
                {[kind |-> "edges", id |-> EdgeId(RecordAt(file, p)), value |-> EdgeValue(RecordAt(file, p))]}
         /\ p \notin NodeRows(file) => RowIn([kind |-> "nodes", file |-> file, at |-> p]) = {}
         /\ p \notin EdgeRows(file) => RowIn([kind |-> "edges", file |-> file, at |-> p]) = {}
BY DEF RowIn

\* A record of the nodes file is one row.
LEMMA NodeIsOneRow ==
  ASSUME NEW rec
  PROVE  OneRow(NodePuts(rec), [kind |-> "nodes", id |-> rec.id, value |-> NodeValue(rec)])
<1>1. /\ NodePuts(rec)["nodes"] = [id \in {rec.id} |-> NodeValue(rec)]
      /\ NodePuts(rec)["edges"] = EmptyMap
  BY NodePutsParts
<1>2. Records(NodePuts(rec)) = [kind \in {"nodes", "edges"} |->
        IF kind = "nodes" THEN [id \in {rec.id} |-> NodeValue(rec)] ELSE EmptyMap]
  BY <1>1 DEF Records
<1>3. EmptyMap = <<>>
  BY DEF EmptyMap
<1> QED
  BY <1>2, <1>3 DEF OneRow, G!NoRecords, G!Kinds

\* So is one of the edges file, with a fat batch or without.
LEMMA EdgeIsOneRow ==
  ASSUME NEW rec, NEW puts, EdgeRowPuts(puts, rec)
  PROVE  OneRow(puts, [kind |-> "edges", id |-> EdgeId(rec), value |-> EdgeValue(rec)])
<1>1. Records(puts) = [kind \in {"nodes", "edges"} |->
        IF kind = "edges" THEN [id \in {EdgeId(rec)} |-> EdgeValue(rec)] ELSE EmptyMap]
  BY DEF Records, EdgeRowPuts
<1>2. EmptyMap = <<>>
  BY DEF EmptyMap
<1> QED
  BY <1>1, <1>2 DEF OneRow, G!NoRecords, G!Kinds

\* The nodes loop reads a record.
LEMMA PutNodeRefines ==
  ASSUME TypeOK, FlowInv, RowsInv, PutNode, ~readErr'
  PROVE  G!Next
<1>1. PICK line \in Texts, size \in RecordBytes :
        /\ IsNodeRow(line) /\ readErr' = (line # Scanned[pos])
        /\ Commit(NodePuts(ParseLine(header, line)), size)
  BY DEF PutNode
<1>2. /\ pc = "nodes" /\ AtLine /\ ~readErr /\ UNCHANGED <<nodesFile, edgesFile>>
      /\ Scanned = nodesFile /\ line = nodesFile[pos] /\ pos <= Len(Scanned)
  BY <1>1 DEF PutNode, argVars, AtLine, Scanned
<1>3. header = IngestHeader(nodesFile, pos)
  BY <1>2 DEF RowsInv
<1>4. pos \in NodeRows(nodesFile) /\ ParseLine(header, line) = RecordAt(nodesFile, pos)
  BY <1>1, <1>2, <1>3, LineAt
<1> DEFINE rec == RecordAt(nodesFile, pos)
           row == [kind |-> "nodes", id |-> rec.id, value |-> NodeValue(rec)]
<1>5. row \in RowIn([kind |-> pc, file |-> Scanned, at |-> pos])
  <2>1. RowIn([kind |-> "nodes", file |-> nodesFile, at |-> pos]) = {row}
    BY <1>4, RowsHaveRecords
  <2> QED
    BY <1>2, <2>1
<1>6. OneRow(NodePuts(rec), row) /\ Commit(NodePuts(rec), size)
  BY <1>1, <1>4, NodeIsOneRow
<1> HIDE DEF rec, row
<1> QED
  BY <1>2, <1>5, <1>6, CommitStep

\* The edges loop reads a record.
LEMMA PutEdgeRefines ==
  ASSUME TypeOK, FlowInv, RowsInv, PutEdge, ~readErr'
  PROVE  G!Next
<1>1. PICK line \in Texts, size \in RecordBytes, blobSize \in BlobBytes :
        /\ IsEdgeRow(line) /\ readErr' = (line # Scanned[pos])
        /\ AddBlob(ParseLine(header, line), size, blobSize)
  BY DEF PutEdge
<1>2. /\ pc = "edges" /\ AtLine /\ ~readErr /\ UNCHANGED <<nodesFile, edgesFile>>
      /\ Scanned = edgesFile /\ line = edgesFile[pos] /\ pos <= Len(Scanned)
  BY <1>1 DEF PutEdge, argVars, AtLine, Scanned
<1>3. header = IngestHeader(edgesFile, pos)
  BY <1>2 DEF RowsInv
<1>4. pos \in EdgeRows(edgesFile) /\ ParseLine(header, line) = RecordAt(edgesFile, pos)
  BY <1>1, <1>2, <1>3, LineAt
<1> DEFINE rec == RecordAt(edgesFile, pos)
           row == [kind |-> "edges", id |-> EdgeId(rec), value |-> EdgeValue(rec)]
<1>5. row \in RowIn([kind |-> pc, file |-> Scanned, at |-> pos])
  <2>1. RowIn([kind |-> "edges", file |-> edgesFile, at |-> pos]) = {row}
    BY <1>4, RowsHaveRecords
  <2> QED
    BY <1>2, <2>1
<1>6. PICK puts : Commit(puts, size) /\ EdgeRowPuts(puts, ParseLine(header, line))
  BY <1>1, EdgeRowPutsHold DEF AddBlob
<1>7. OneRow(puts, row)
  BY <1>4, <1>6, EdgeIsOneRow
<1> HIDE DEF rec, row
<1> QED
  BY <1>2, <1>5, <1>6, <1>7, CommitStep

\* Headers and lines that are no row hold no record.
LEMMA PassRefines ==
  ASSUME TypeOK, FlowInv, RowsInv, ReadHeader \/ SkipLine
  PROVE  G!Next
<1>1. /\ pc \in {"nodes", "edges"} /\ AtLine /\ ~readErr /\ pos <= Len(Scanned)
      /\ pos' = pos + 1 /\ UNCHANGED <<nodesFile, edgesFile, pc, outcome, batch, mem, sst>>
  BY DEF ReadHeader, SkipLine, HasLine, AtLine, argVars, batchVars, storeVars
<1>2. header = IngestHeader(Scanned, pos)
  BY <1>1 DEF Scanned, RowsInv
<1>3. pos \in 1..Len(Scanned)
  BY <1>1, <1>2, LineAt
<1>4. IF pc = "nodes" THEN pos \notin NodeRows(Scanned) ELSE pos \notin EdgeRows(Scanned)
  <2>1. \/ IsIngestHeader(Scanned[pos])
        \/ IF pc = "nodes" THEN ~IsNodeRow(Scanned[pos]) ELSE ~IsEdgeRow(Scanned[pos])
    BY DEF ReadHeader, SkipLine
  <2> QED
    BY <1>1, <1>2, <1>3, <2>1, LineAt, HeaderNoRow
<1>5. RowIn([kind |-> pc, file |-> Scanned, at |-> pos]) = {}
  BY <1>1, <1>4, RowsHaveRecords
<1>6. /\ Todo # <<>> /\ Head(Todo) = [kind |-> pc, file |-> Scanned, at |-> pos]
      /\ Todo' = Tail(Todo)
  BY <1>1, LinesLeft
<1>7. Held' = Held /\ Visible' = Visible /\ Safe' = Safe
  BY <1>1 DEF Held, Visible, Safe, View
<1> QED
  BY <1>1, <1>5, <1>6, <1>7, PassStep

\* Beyond the last line nothing is left.
LEMMA NothingLeft ==
  ASSUME NEW kind, NEW file \in File, NEW p \in Nat, p > Len(file)
  PROVE  Lines(kind, file, p) = <<>>
<1> DEFINE n == Len(file)
           m == n + 1 - p
<1>1. n \in Nat
  BY DEF File
<1> HIDE DEF n
<1>2. 1..m = {}
  BY <1>1 DEF n
<1> QED
  BY <1>2 DEF Lines, n

\* The final flush of a loop shows what is held, or stops the load.
LEMMA FinalFlushStep ==
  ASSUME TypeOK, FlowInv, pc \in {"nodes", "edges"},
         NEW rest, NEW failed \in BOOLEAN, NEW next, FinalFlush(rest, failed, next),
         Records(rest) = Held, next # "idle",
         ~failed /\ pc' = next /\ pos' = 1 => Todo' = Todo
  PROVE  G!Next
<1>1. outcome = "none"
  BY DEF FlowInv
<1>2. Held' = G!NoRecords
  BY FinalFlushFlow, RecordsOfNothing DEF Held
<1>3. CASE IF rest = Nothing THEN UNCHANGED storeVars ELSE Write(rest)
  <2>1. View' = Layer(rest, View) /\ sst' = sst
    <3>1. CASE rest = Nothing /\ UNCHANGED storeVars
      BY <3>1, LayerNothing, ViewIsBundle DEF View, storeVars
    <3>2. CASE Write(rest)
      BY <3>2, WriteView DEF Write
    <3> QED
      BY <1>3, <3>1, <3>2
  <2>2. Visible' = G!Over(Held, Visible) /\ Safe' = Safe
    BY <2>1, RecordsOfLayer DEF Visible, Safe
  <2>3. \/ pc' = "closing" /\ outcome' = "error"
        \/ ~failed /\ pc' = next /\ outcome' = outcome /\ pos' = 1
    BY DEF FinalFlush, Fail
  <2> QED
    BY <1>1, <1>2, <2>2, <2>3, ShowStep, StopStep
<1>4. CASE Fail /\ UNCHANGED storeVars
  <2>1. Visible' = Visible /\ Safe' = Safe
    BY <1>4 DEF Visible, Safe, View, storeVars
  <2> QED
    BY <1>1, <1>2, <1>4, <2>1, StopStep DEF Fail
<1> QED
  BY <1>3, <1>4 DEF FinalFlush

\* The nodes loop ends.
LEMMA FinishNodesRefines ==
  ASSUME TypeOK, FlowInv, FinishNodes
  PROVE  G!Next
<1>1. PICK failed \in BOOLEAN : ScanEnds(failed) /\ FinalFlush(batch, failed, "edges")
  BY DEF FinishNodes
<1>2. pc = "nodes" /\ UNCHANGED <<nodesFile, edgesFile>>
  BY DEF FinishNodes, argVars
<1>3. ASSUME ~failed, pc' = "edges", pos' = 1 PROVE Todo' = Todo
  <2>1. pos \in Nat /\ pos > Len(nodesFile) /\ nodesFile \in File /\ edgesFile \in File
    BY <1>1, <1>2, <1>3, FileTypes DEF ScanEnds, Scanned, TypeOK
  <2>2. NodeLines(nodesFile, pos) = <<>>
    BY <2>1, NothingLeft DEF NodeLines
  <2>3. 1 \in 1..Len(edgesFile) + 1
    BY <2>1 DEF File
  <2>4. EdgeLines(edgesFile, 1) \in Seq(AnyLine)
    BY <2>1, <2>3, LinesFrom DEF EdgeLines
  <2>5. Todo = EdgeLines(edgesFile, 1)
    <3>1. Todo = NodeLines(nodesFile, pos) \o EdgeLines(edgesFile, 1)
      BY <1>2 DEF Todo
    <3> QED
      BY <2>2, <2>4, <3>1
  <2>6. Todo' = EdgeLines(edgesFile, 1)
    BY <1>2, <1>3 DEF Todo
  <2> QED
    BY <2>5, <2>6
<1> QED
  BY <1>1, <1>2, <1>3, FinalFlushStep DEF Held

\* The edges loop ends: fat batches are no records.
LEMMA FinishEdgesRefines ==
  ASSUME TypeOK, FlowInv, FinishEdges
  PROVE  G!Next
<1> DEFINE fat == FatPuts(Unwritten)
<1>1. PICK failed \in BOOLEAN : ScanEnds(failed) /\ FinalFlush(Layer(fat, batch), failed, "save")
  BY DEF FinishEdges
<1>2. pc = "edges" /\ UNCHANGED <<nodesFile, edgesFile>>
  BY DEF FinishEdges, argVars
<1>3. fat["nodes"] = EmptyMap /\ fat["edges"] = EmptyMap
  BY DEF FatPuts, Nothing, Families
<1> HIDE DEF fat
<1>4. Records(Layer(fat, batch)) = Held
  <2>1. Layer(fat, batch)["nodes"] = batch["nodes"] /\ Layer(fat, batch)["edges"] = batch["edges"]
    BY <1>3, UntouchedFamily DEF TypeOK, Families
  <2> QED
    BY <2>1 DEF Records, Held
<1>5. ASSUME ~failed, pc' = "save" PROVE Todo' = Todo
  <2>1. pos \in Nat /\ pos > Len(edgesFile) /\ edgesFile \in File
    BY <1>1, <1>2, <1>5, FileTypes DEF ScanEnds, Scanned, TypeOK
  <2>2. EdgeLines(edgesFile, pos) = <<>>
    BY <2>1, NothingLeft DEF EdgeLines
  <2> QED
    BY <1>2, <1>5, <2>2 DEF Todo
<1> QED
  BY <1>1, <1>2, <1>4, <1>5, FinalFlushStep

\* After the loops nothing is held.
LEMMA SavingRefines ==
  ASSUME FlowInv, SaveTruncate \/ SaveWrite \/ SaveFails
  PROVE  G!Next \/ UNCHANGED G!vars
<1>1. pc \in {"save", "writing"} /\ outcome = "none" /\ batch = Nothing
      /\ UNCHANGED <<batch, mem, sst>>
  BY DEF FlowInv, SaveTruncate, SaveWrite, SaveFails, batchVars, storeVars
<1>2. Held = G!NoRecords /\ Held' = Held /\ Visible' = Visible /\ Safe' = Safe
  BY <1>1, RecordsOfNothing DEF Held, Visible, Safe, View
<1>3. Todo = <<>>
  BY <1>1 DEF Todo
<1>4. CASE SaveTruncate
  <2>1. pc' = "writing" /\ outcome' = outcome /\ Todo' = <<>>
    BY <1>4 DEF SaveTruncate, Todo
  <2> QED
    BY <1>1, <1>2, <1>3, <2>1 DEF G!vars, Todo, Held, Visible, Safe
<1>5. CASE SaveWrite
  <2>1. pc' = "closing" /\ outcome' = "success" /\ Todo' = <<>>
    BY <1>5 DEF SaveWrite, Todo
  <2>2. G!Succeed
    BY <1>1, <1>2, <1>3, <2>1 DEF G!Succeed, Todo, Held, Visible, Safe
  <2> QED
    BY <2>2 DEF G!Next
<1>6. CASE SaveFails
  BY <1>1, <1>2, <1>6, StopStep DEF SaveFails
<1> QED
  BY <1>4, <1>5, <1>6

\* A background flush makes a kind of records safe, or does not concern them.
LEMMA FlushRefines ==
  ASSUME TypeOK, BackgroundFlush
  PROVE  G!Next \/ UNCHANGED G!vars
<1>1. /\ pc # "idle" /\ UNCHANGED <<nodesFile, edgesFile, pc, pos, batch, outcome>>
  BY DEF BackgroundFlush, argVars, loopVars, batchVars
<1>2. PICK cf \in Families : FlushFamily(cf)
  BY DEF BackgroundFlush
<1>3. View' = View
  BY <1>2, FlushView DEF TypeOK
<1>4. Todo' = Todo /\ Held' = Held /\ Visible' = Visible
  BY <1>1, <1>3 DEF Todo, Held, Visible
<1>5. sst' = [c \in Families |-> IF c = cf THEN View[cf] ELSE sst[c]]
  BY <1>2 DEF FlushFamily, TypeOK, StoreTypeOK, IsBundle, View, Layer
<1>6. CASE cf \in {"nodes", "edges"}
  <2>1. Safe' = [Safe EXCEPT ![cf] = Visible[cf]]
    BY <1>5, <1>6 DEF Safe, Visible, Records, Families
  <2> QED
    BY <1>1, <1>4, <1>6, <2>1, SettleStep
<1>7. CASE cf \notin {"nodes", "edges"}
  <2>1. Safe' = Safe
    BY <1>5, <1>7 DEF Safe, Records, Families
  <2> QED
    BY <1>1, <1>4, <2>1 DEF G!vars, Todo, Held, Visible, Safe
<1> QED
  BY <1>6, <1>7

\* However the store is left, its end is one of GraphLoad's.
LEMMA LeaveRefines ==
  ASSUME TypeOK, FlowInv, CloseStore \/ CloseUnflushed \/ Crash
  PROVE  G!Next
<1>1. PICK kept, how : /\ Leave(kept, how) /\ pc # "idle"
                       /\ outcome = "none" => kept = {}
  BY DEF CloseStore, CloseUnflushed, Crash, FlowInv
<1>2. pc' = "idle" /\ outcome' = outcome /\ batch' = Nothing /\ Vanish(kept)
  BY <1>1 DEF Leave
<1>3. View' = sst'
  <2>1. IsBundle(sst') /\ mem' = Nothing
    BY <1>2, VanishView DEF TypeOK, StoreTypeOK, Vanish
  <2> QED
    BY <2>1, LayerNothing DEF View
<1>4. sst' = [cf \in Families |-> IF cf \in kept THEN View[cf] ELSE sst[cf]]
  BY <1>2 DEF Vanish
<1> DEFINE both == kept \cap {"nodes", "edges"}
<1>5. Held' = G!NoRecords /\ Visible' = Safe'
  BY <1>2, <1>3, RecordsOfNothing DEF Held, Visible, Safe
<1>6. Safe' = [kind \in {"nodes", "edges"} |->
                 IF kind \in both THEN Visible[kind] ELSE Safe[kind]]
  BY <1>4 DEF Safe, Visible, Records, Families
<1>7. both \subseteq {"nodes", "edges"} /\ (outcome = "none" => both = {})
  BY <1>1
<1> HIDE DEF both
<1> QED
  BY <1>1, <1>2, <1>5, <1>6, <1>7, EndStep

\* A load is refused, or starts with the lines of both files.
LEMMA StartRefines ==
  ASSUME TypeOK, RowsInv, RejectIngest \/ OpenFails \/ BeginIngest
  PROVE  G!Next
<1>1. pc = "idle" /\ UNCHANGED <<batch, mem, sst>>
  BY DEF RejectIngest, OpenFails, BeginIngest, Invoke, MayStart, batchVars, storeVars
<1>2. Held' = Held /\ Visible' = Visible /\ Safe' = Safe /\ Todo = <<>>
  BY <1>1 DEF Held, Visible, Safe, View, Todo
<1>3. CASE RejectIngest \/ OpenFails
  <2>1. pc' = "idle" /\ outcome' \in {"rejected", "error"}
    <3>1. CASE RejectIngest
      BY <1>1, <3>1 DEF RejectIngest
    <3>2. CASE OpenFails
      BY <1>1, <3>2 DEF OpenFails
    <3> QED
      BY <1>3, <3>1, <3>2
  <2>2. Todo' = <<>>
    BY <2>1 DEF Todo
  <2>3. G!Refuse
    BY <1>1, <1>2, <2>1, <2>2 DEF G!Refuse, Todo, Held, Visible, Safe
  <2> QED
    BY <2>3 DEF G!Next
<1>4. CASE BeginIngest
  <2>1. PICK n \in NodeFiles, e \in EdgeFiles : nodesFile' = n /\ edgesFile' = e
    BY <1>4 DEF BeginIngest, Invoke
  <2>2. pc' = "nodes" /\ outcome' = "none" /\ pos' = 1
    BY <1>1, <1>4 DEF BeginIngest, RowsInv
  <2>3. Todo' = NodeLines(n, 1) \o EdgeLines(e, 1)
    BY <2>1, <2>2 DEF Todo
  <2>4. Todo' \in {NodeLines(a, 1) \o EdgeLines(b, 1) : a \in NodeFiles, b \in EdgeFiles}
    BY <2>3
  <2>5. G!Start
    BY <1>1, <1>2, <2>2, <2>4 DEF G!Start, Todo, Held, Visible, Safe
  <2> QED
    BY <2>5 DEF G!Next
<1> QED
  BY <1>3, <1>4

-----------------------------------------------------------------------------
(* The refinement.                                                         *)

\* A new database is one of GraphLoad's.
LEMMA InitRefines == Init => G!Init
<1> SUFFICES ASSUME Init PROVE G!Init
  OBVIOUS
<1>1. sst = Nothing /\ batch = Nothing /\ View = Nothing
  <2>1. mem = Nothing /\ sst = Nothing /\ batch = Nothing
    BY DEF Init, StoreInit
  <2> QED
    BY <2>1, NothingIsBundle, LayerNothing DEF View
<1> QED
  BY <1>1, RecordsOfNothing DEF Init, G!Init

\* Every step is one of GraphLoad's, or shows nothing, unless it reads a line
\* that is cut short.
LEMMA NextRefines ==
  TypeOK /\ FlowInv /\ RowsInv /\ ~readErr' /\ [Next]_vars => [G!Next]_(G!vars)
<1> SUFFICES ASSUME TypeOK, FlowInv, RowsInv, ~readErr', [Next]_vars
             PROVE  G!Next \/ UNCHANGED G!vars
  OBVIOUS
<1>1. CASE UNCHANGED vars
  BY <1>1 DEF vars, argVars, loopVars, batchVars, storeVars, G!vars, View
<1>2. CASE RejectIngest \/ OpenFails \/ BeginIngest
  BY <1>2, StartRefines
<1>3. CASE ReadHeader \/ SkipLine
  BY <1>3, PassRefines
<1>4. CASE PutNode
  BY <1>4, PutNodeRefines
<1>5. CASE PutEdge
  BY <1>5, PutEdgeRefines
<1>6. CASE FinishNodes
  BY <1>6, FinishNodesRefines
<1>7. CASE FinishEdges
  BY <1>7, FinishEdgesRefines
<1>8. CASE SaveTruncate \/ SaveWrite \/ SaveFails
  BY <1>8, SavingRefines
<1>9. CASE BackgroundFlush
  BY <1>9, FlushRefines
<1>10. CASE CloseStore \/ CloseUnflushed \/ Crash
  BY <1>10, LeaveRefines
<1> QED
  BY <1>1, <1>2, <1>3, <1>4, <1>5, <1>6, <1>7, <1>8, <1>9, <1>10 DEF Next, Process

\* \i (executor.go, ingestor.go) implements GraphLoad in every behaviour in
\* which no read fails in the middle of a line, whatever the files, thresholds,
\* sizes, failures and crashes: its users see rows appear in file order and in
\* whole groups, and success only when all are there.
THEOREM IngestImplementsGraphLoad == Spec /\ []~readErr => LoadSpec
<1>1. TypeOK /\ FlowInv /\ RowsInv /\ (~readErr)' /\ [Next]_vars => [G!Next]_(G!vars)
  BY NextRefines
<1> QED
  BY <1>1, InitRefines, LoadInvariant, PTL DEF Spec, LoadSpec, G!Spec

\* Without failing reads no line is cut.
LEMMA WholeLines ==
  ASSUME "read" \notin Faults
  PROVE  Spec => []~readErr
<1>1. Init => ~readErr
  BY DEF Init
<1>2. ~readErr /\ [Next]_vars => (~readErr)'
  <2> SUFFICES ASSUME ~readErr, [Next]_vars PROVE ~readErr'
    OBVIOUS
  <2>1. ASSUME PutNode \/ PutEdge PROVE ~readErr'
    <3>1. Texts \subseteq {Scanned[pos]}
      BY DEF Texts
    <3> QED
      BY <2>1, <3>1 DEF PutNode, PutEdge
  <2>2. ASSUME ~PutNode, ~PutEdge PROVE readErr' \in {readErr, FALSE}
    BY <2>2 DEF Next, Process, RejectIngest, OpenFails, BeginIngest, ReadHeader, SkipLine,
       FinishNodes, FinishEdges, FinalFlush, SaveTruncate, SaveWrite, SaveFails, CloseStore,
       CloseUnflushed, Crash, Leave, BackgroundFlush, loopVars, vars
  <2> QED
    BY <2>1, <2>2
<1> QED
  BY <1>1, <1>2, PTL DEF Spec

\* In particular \i implements GraphLoad wherever reads do not fail, as in the
\* run that checks it.
THEOREM WithoutReadFaults ==
  ASSUME "read" \notin Faults
  PROVE  Spec => LoadSpec
BY WholeLines, IngestImplementsGraphLoad, PTL
=============================================================================
