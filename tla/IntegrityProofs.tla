--------------------------- MODULE IntegrityProofs ---------------------------
(***************************************************************************)
(* What validation is worth to the ingestion that follows it, and what the *)
(* metadata says of the data: no edge of a first ingestion dangles, and    *)
(* metadata.json counts exactly the accepted rows, for any files.          *)
(***************************************************************************)
EXTENDS IngestProofs

-----------------------------------------------------------------------------
(* Validated files, read by the ingestor.                                  *)

\* A header in force is one of the header lines, or there is none.
LEMMA HeaderIsHead ==
  ASSUME NEW file \in File, NEW i \in 1..Len(file)
  PROVE  \/ ValHeader(file, i) = NoHeader
         \/ \E h \in ValHeads(file) : ValHeader(file, i) = file[h]
<1> DEFINE earlier == {h \in ValHeads(file) : h < i}
<1>1. CASE earlier = {}
  BY <1>1 DEF ValHeader, HeaderBefore
<1>2. CASE earlier # {}
  <2>1. earlier \subseteq 1..Len(file) /\ Len(file) \in Nat
    BY DEF ValHeads, Positions, File
  <2>2. Max(earlier) \in earlier
    BY <1>2, <2>1, ExtremeColumns
  <2> QED
    BY <1>2, <2>2 DEF ValHeader, HeaderBefore
<1> QED
  BY <1>1, <1>2

\* When the two readers see the same headers, they see the same header in
\* force and the same lines that are none.
LEMMA AlikeRows ==
  ASSUME NEW file \in File, ReadAlike(file)
  PROVE  /\ \A i : ValHeader(file, i) = IngestHeader(file, i)
         /\ \A i \in 1..Len(file) : i \in ValRows(file) <=>
              ~IsBlank(file[i]) /\ ~IsIngestHeader(file[i])
<1>1. \A i \in 1..Len(file) : IsHeader(file[i]) <=> IsIngestHeader(file[i])
  BY DEF ReadAlike, ValHeads, IngestHeads, Positions
<1> QED
  BY <1>1 DEF ReadAlike, ValHeader, IngestHeader, ValRows, Positions

\* A line is a sequence of tokens.
LEMMA LineTokens ==
  ASSUME NEW file \in File, NEW i \in 1..Len(file)
  PROVE  file[i] \in Seq(Tokens)
<1>1. file[i] \in Line
  BY DEF File
<1> QED
  BY <1>1 DEF Line

\* A node row of a valid file that has a label is one the ingestor accepts,
\* under the id the validator has collected.
LEMMA ValidNodeIsAccepted ==
  ASSUME NEW file \in File, ReadAlike(file), ValidNodes(file),
         NEW i \in ValRows(file), RecordAt(file, i).label # ""
  PROVE  i \in NodeRows(file) /\ RecordAt(file, i).id = NodeIdAt(file, i)
<1>1. i \in 1..Len(file)
  BY DEF ValRows, Positions
<1>2. ValHeader(file, i) # NoHeader /\ NodeIdAt(file, i) # ""
  BY <1>1 DEF ValidNodes, ValidNodeLine, WellShaped, Positions
<1>3. PICK h \in ValHeads(file) : ValHeader(file, i) = file[h]
  BY <1>1, <1>2, HeaderIsHead
<1>4. file[h] \in Seq(Tokens) /\ Cardinality(Columns(file[h], "@id")) <= 1
  <2>1. h \in 1..Len(file) /\ "@id" \in Keywords
    BY DEF ValHeads, Positions, Keywords
  <2> QED
    BY <2>1, LineTokens DEF ReadAlike
<1>5. NodeIdAt(file, i) = Field(IngestHeader(file, i), file[i], "@id")
  BY <1>1, <1>3, <1>4, SingleColumn, AlikeRows DEF NodeIdAt
<1>6. RecordAt(file, i).id = NodeIdAt(file, i)
  BY <1>5 DEF RecordAt, ParseLine
<1> QED
  BY <1>1, <1>2, <1>6, AlikeRows
  DEF NodeRows, IngestRows, IsIngestRow, AcceptsNode, Positions

\* Conversely, an accepted node row of a valid file is one the validator has
\* seen, under that id.
LEMMA AcceptedNodeIsValid ==
  ASSUME NEW file \in File, ReadAlike(file), ValidNodes(file), NEW i \in NodeRows(file)
  PROVE  i \in ValRows(file) /\ RecordAt(file, i).id = NodeIdAt(file, i)
<1>1. /\ i \in 1..Len(file) /\ ~IsBlank(file[i]) /\ ~IsIngestHeader(file[i])
      /\ RecordAt(file, i).label # ""
  BY DEF NodeRows, IngestRows, IsIngestRow, AcceptsNode, Positions
<1>2. i \in ValRows(file)
  BY <1>1, AlikeRows
<1> QED
  BY <1>1, <1>2, ValidNodeIsAccepted

\* An accepted edge row of a valid file has the id and the endpoints the
\* validator has checked.
LEMMA AcceptedEdgeIsValid ==
  ASSUME NEW file \in File, ReadAlike(file), NEW nodeIDs, ValidEdges(file, nodeIDs),
         NEW i \in EdgeRows(file)
  PROVE  /\ i \in ValRows(file)
         /\ {RecordAt(file, i).src, RecordAt(file, i).dst} \subseteq nodeIDs
         /\ RecordAt(file, i).id = EdgeFieldAt(file, i, "@id") /\ RecordAt(file, i).id # ""
<1>1. /\ i \in 1..Len(file) /\ ~IsBlank(file[i]) /\ ~IsIngestHeader(file[i])
  BY DEF EdgeRows, IngestRows, IsIngestRow, Positions
<1>2. i \in ValRows(file)
  BY <1>1, AlikeRows
<1>3. /\ {EdgeFieldAt(file, i, "@out"), EdgeFieldAt(file, i, "@in")} \subseteq nodeIDs
      /\ EdgeFieldAt(file, i, "@id") # ""
  BY <1>1, <1>2 DEF ValidEdges, ValidEdgeLine, Positions
<1>4. /\ RecordAt(file, i).src = EdgeFieldAt(file, i, "@out")
      /\ RecordAt(file, i).dst = EdgeFieldAt(file, i, "@in")
      /\ RecordAt(file, i).id = EdgeFieldAt(file, i, "@id")
  BY AlikeRows DEF RecordAt, ParseLine, EdgeFieldAt
<1> QED
  BY <1>2, <1>3, <1>4

-----------------------------------------------------------------------------
(* No edge dangles.                                                        *)

NoDangling(b) ==
  \A id \in DOMAIN b["edges"] :
    {b["edges"][id].src, b["edges"][id].dst} \subseteq DOMAIN b["nodes"]

Trusted == ~lossy /\ ingests <= 1 /\ ~yolo /\ ~readErr /\ Alike /\ AllLabelled

\* The files of a validated ingestion are valid; a first ingestion has stored
\* no edge before its nodes are stored, and none that dangles later on.
RefInv ==
  /\ pc # "idle" /\ ~yolo => ValidFiles(nodesFile, edgesFile)
  /\ pc = "nodes" /\ ingests <= 1 => DOMAIN View["edges"] = {}
  /\ Trusted => NoDangling(View)
  /\ pc = "edges" /\ Trusted => NoDangling(Written)

\* Edges whose endpoints are there may join.
LEMMA NoDanglingMore ==
  ASSUME NEW b, NoDangling(b), NEW puts,
         \A id \in DOMAIN puts["edges"] :
           {puts["edges"][id].src, puts["edges"][id].dst} \subseteq DOMAIN b["nodes"]
  PROVE  NoDangling(Layer(puts, b))
<1> DEFINE c == Layer(puts, b)
<1>1. /\ DOMAIN b["nodes"] \subseteq DOMAIN c["nodes"]
      /\ DOMAIN c["edges"] = DOMAIN puts["edges"] \cup DOMAIN b["edges"]
      /\ \A id \in DOMAIN puts["edges"] : c["edges"][id] = puts["edges"][id]
      /\ \A id \in DOMAIN b["edges"] \ DOMAIN puts["edges"] : c["edges"][id] = b["edges"][id]
  BY LayerKeeps DEF Families
<1> HIDE DEF c
<1>2. NoDangling(c)
  BY <1>1 DEF NoDangling
<1> QED
  BY <1>2 DEF c

\* What readers see after a record is committed.
LEMMA CommitView ==
  ASSUME StoreTypeOK, NEW puts, NEW size, Commit(puts, size)
  PROVE  View' \in {View, Layer(puts, Written)}
<1>1. CASE WriteOut(Layer(puts, batch))
  BY <1>1, WriteView, LayerAssoc DEF WriteOut, Written
<1>2. CASE UNCHANGED storeVars
  BY <1>2 DEF View, storeVars
<1> QED
  BY <1>1, <1>2 DEF Commit

\* Neither readers nor the batch have an edge, so nothing written is one.
LEMMA NoEdgeWritten ==
  ASSUME batch["edges"] = EmptyMap, DOMAIN View["edges"] = {}
  PROVE  DOMAIN Written["edges"] = {}
BY LayerKeeps DEF Written, EmptyMap, Families

\* The endpoints of an accepted edge row of valid files are written nodes.
LEMMA EndpointsWritten ==
  ASSUME TypeOK, ValidFiles(nodesFile, edgesFile), Alike, AllLabelled,
         HoldsNodes(nodesFile, Written), NEW i \in EdgeRows(edgesFile)
  PROVE  {EdgeAt(i).src, EdgeAt(i).dst} \subseteq DOMAIN Written["nodes"]
<1>1. /\ nodesFile \in File /\ edgesFile \in File
      /\ ReadAlike(nodesFile) /\ ReadAlike(edgesFile)
      /\ ValidNodes(nodesFile) /\ ValidEdges(edgesFile, NodeIds(nodesFile))
  BY FileTypes DEF Alike, ValidFiles
<1>2. {EdgeAt(i).src, EdgeAt(i).dst} \subseteq NodeIds(nodesFile)
  BY <1>1, AcceptedEdgeIsValid DEF EdgeAt
<1>3. ASSUME NEW j \in ValRows(nodesFile)
      PROVE  NodeIdAt(nodesFile, j) \in DOMAIN Written["nodes"]
  <2>1. j \in NodeRows(nodesFile) /\ RecordAt(nodesFile, j).id = NodeIdAt(nodesFile, j)
    BY <1>1, ValidNodeIsAccepted DEF AllLabelled, NodeAt
  <2>2. Len(nodesFile) \in Nat /\ j \in 1..Len(nodesFile)
    BY <2>1, FileTypes, RowPositions
  <2>3. DOMAIN NodePuts(RecordAt(nodesFile, j))["nodes"] \subseteq DOMAIN Written["nodes"]
    BY <2>1, <2>2 DEF HoldsNodes, HoldsNodesTo, Families
  <2>4. DOMAIN NodePuts(RecordAt(nodesFile, j))["nodes"] = {NodeIdAt(nodesFile, j)}
    BY <2>1, NodePutsParts
  <2> QED
    BY <2>3, <2>4
<1> QED
  BY <1>2, <1>3 DEF NodeIds

\* A new database has no edge.
LEMMA RefInit == Init => RefInv
<1> SUFFICES ASSUME Init PROVE RefInv
  OBVIOUS
<1>1. View = Nothing /\ DOMAIN Nothing["edges"] = {}
  BY DEF Init, StoreInit, View, Layer, Overlay, Nothing, EmptyMap, Families
<1> QED
  BY <1>1 DEF Init, RefInv, NoDangling

\* Starting an ingestion a first time finds the store empty.
LEMMA InvokeKeepsRef ==
  ASSUME TypeOK, FlowInv, RejectIngest \/ OpenFails \/ BeginIngest
  PROVE  RefInv'
<1>1. ingests' = ingests + 1 /\ View' = View /\ pc' \in {"idle", "nodes"}
  BY DEF RejectIngest, OpenFails, BeginIngest, Invoke, MayStart, storeVars, View
<1>2. pc' # "idle" /\ ~yolo' => ValidFiles(nodesFile', edgesFile')
  BY DEF RejectIngest, OpenFails, BeginIngest, Invoke, MayStart
<1>3. ingests' <= 1 => DOMAIN View'["edges"] = {}
  <2>1. ingests' <= 1 => ingests = 0
    BY <1>1 DEF TypeOK
  <2>2. DOMAIN Nothing["edges"] = {}
    BY DEF Nothing, EmptyMap, Families
  <2> QED
    BY <1>1, <2>1, <2>2 DEF FlowInv
<1> QED
  BY <1>1, <1>2, <1>3 DEF RefInv, Trusted, NoDangling

\* An edge is stored with its endpoints: they passed the validator, and the
\* nodes loop has written every node that did.
LEMMA PutEdgeKeepsRef ==
  ASSUME TypeOK, RowsInv, RefInv, PutEdge
  PROVE  RefInv'
<1>1. PICK line \in Texts, size \in RecordBytes, blobSize \in BlobBytes :
        /\ IsEdgeRow(line) /\ readErr' = (line # Scanned[pos])
        /\ AddBlob(ParseLine(header, line), size, blobSize)
  BY DEF PutEdge
<1>2. /\ pc = "edges" /\ AtLine /\ ~readErr /\ Scanned = edgesFile
      /\ UNCHANGED <<nodesFile, edgesFile, yolo, lossy, ingests>>
  BY DEF PutEdge, argVars, ghostVars, AtLine, Scanned
<1>3. PICK puts : Commit(puts, size) /\ EdgeRowPuts(puts, ParseLine(header, line))
  BY <1>1, EdgeRowPutsHold DEF AddBlob
<1>4. View' \in {View, Layer(puts, Written)} /\ (pc' = "edges" => Written' = Layer(puts, Written))
  BY <1>3, CommitView, CommitWrites DEF TypeOK
<1>5. pc' \in {"edges", "closing"}
  BY <1>2, <1>3, CommitFlow
<1>6. ASSUME Trusted'
      PROVE  NoDangling(View) /\ NoDangling(Layer(puts, Written))
  <2>1. Trusted /\ line = edgesFile[pos]
    BY <1>1, <1>2, <1>6 DEF Trusted, Alike, AllLabelled, NodeAt
  <2>2. pos \in EdgeRows(edgesFile) /\ ParseLine(header, line) = EdgeAt(pos)
    BY <1>1, <1>2, <2>1, LineAt DEF RowsInv, EdgeAt
  <2>3. ValidFiles(nodesFile, edgesFile) /\ HoldsNodes(nodesFile, Written)
    BY <1>2, <2>1 DEF RefInv, RowsInv, Trusted
  <2>4. {EdgeAt(pos).src, EdgeAt(pos).dst} \subseteq DOMAIN Written["nodes"]
    BY <2>1, <2>2, <2>3, EndpointsWritten DEF Trusted
  <2>5. \A id \in DOMAIN puts["edges"] :
          {puts["edges"][id].src, puts["edges"][id].dst} \subseteq DOMAIN Written["nodes"]
    BY <1>3, <2>2, <2>4 DEF EdgeRowPuts, EdgeValue
  <2> QED
    BY <1>2, <2>1, <2>5, NoDanglingMore DEF RefInv
<1> QED
  BY <1>2, <1>4, <1>5, <1>6 DEF RefInv

\* Every step keeps the files valid and the edges attached.
LEMMA RefNext ==
  TypeOK /\ FlowInv /\ RowsInv /\ RefInv /\ [Next]_vars => RefInv'
<1> SUFFICES ASSUME TypeOK, FlowInv, RowsInv, RefInv, [Next]_vars PROVE RefInv'
  OBVIOUS
<1> USE DEF argVars, loopVars, batchVars, ghostVars
<1>1. ASSUME UNCHANGED <<nodesFile, edgesFile, yolo, ingests>>, ~lossy' => ~lossy,
             ~readErr' => ~readErr
      PROVE  /\ Trusted' => Trusted
             /\ pc # "idle" /\ pc' # "idle" /\ ~yolo' => ValidFiles(nodesFile', edgesFile')
  <2>1. Trusted' => Trusted
    BY <1>1 DEF Trusted, Alike, AllLabelled, NodeAt
  <2> QED
    BY <1>1, <2>1 DEF RefInv
<1>2. UNCHANGED <<batch, storeVars>> => Written' = Written /\ View' = View
  BY DEF Written, View, storeVars
<1>3. CASE RejectIngest \/ OpenFails \/ BeginIngest
  BY <1>3, InvokeKeepsRef
<1>4. CASE ReadHeader \/ SkipLine
  <2>1. /\ UNCHANGED <<argVars, pc, readErr, batch, ghostVars, storeVars>> /\ pc # "idle"
    BY <1>4 DEF ReadHeader, SkipLine, HasLine, AtLine
  <2> QED
    BY <1>1, <1>2, <2>1 DEF RefInv
<1>5. CASE PutNode
  <2>1. PICK rec, size : Commit(NodePuts(rec), size)
    BY <1>5 DEF PutNode
  <2>2. /\ pc = "nodes" /\ UNCHANGED <<argVars, ghostVars>> /\ ~readErr
        /\ pc' \in {"nodes", "closing"} /\ readErr' \in BOOLEAN
    BY <1>5, <2>1, CommitFlow DEF PutNode, AtLine
  <2>3. ingests <= 1 => DOMAIN View'["edges"] = {}
    <3>1. ASSUME ingests <= 1
          PROVE  DOMAIN View["edges"] = {} /\ DOMAIN Written["edges"] = {}
      BY <2>2, <3>1, NoEdgeWritten DEF RefInv, FlowInv
    <3>2. DOMAIN NodePuts(rec)["edges"] = {} /\ "edges" \in Families
      BY NodePutsParts DEF EmptyMap, Families
    <3> QED
      BY <2>1, <3>1, <3>2, CommitView, LayerKeeps DEF TypeOK
  <2>4. Trusted' => NoDangling(View')
    BY <2>2, <2>3 DEF Trusted, NoDangling
  <2> QED
    BY <1>1, <2>2, <2>3, <2>4 DEF RefInv
<1>6. CASE PutEdge
  BY <1>6, PutEdgeKeepsRef
<1>7. CASE FinishNodes
  <2>1. PICK failed \in BOOLEAN : FinalFlush(batch, failed, "edges")
    BY <1>7 DEF FinishNodes
  <2>2. /\ pc = "nodes" /\ UNCHANGED <<argVars, ghostVars, readErr>>
        /\ pc' \in {"edges", "closing"}
    BY <1>7, <2>1, FinalFlushFlow DEF FinishNodes
  <2>3. View' \in {Written, View} /\ Written' = View'
    BY <2>1, FinalFlushView DEF TypeOK, Written
  <2>4. ingests <= 1 => DOMAIN View'["edges"] = {}
    BY <2>2, <2>3, NoEdgeWritten DEF RefInv, FlowInv
  <2>5. Trusted' => NoDangling(View')
    BY <2>2, <2>4 DEF Trusted, NoDangling
  <2> QED
    BY <1>1, <2>2, <2>3, <2>5 DEF RefInv
<1>8. CASE FinishEdges
  <2> DEFINE fat == FatPuts(Unwritten)
  <2>1. PICK failed \in BOOLEAN : FinalFlush(Layer(fat, batch), failed, "save")
    BY <1>8 DEF FinishEdges
  <2>2. DOMAIN fat["edges"] = {}
    BY DEF FatPuts, Nothing, EmptyMap, Families
  <2>3. /\ pc = "edges" /\ UNCHANGED <<argVars, ghostVars, readErr>>
        /\ pc' \in {"save", "closing"}
    BY <1>8, <2>1, FinalFlushFlow DEF FinishEdges
  <2>4. View' \in {Layer(fat, Written), View}
    BY <2>1, FinalFlushView, LayerAssoc DEF TypeOK, Written
  <2> HIDE DEF fat
  <2>5. Trusted' => NoDangling(View')
    BY <1>1, <2>2, <2>3, <2>4, NoDanglingMore DEF RefInv
  <2> QED
    BY <1>1, <2>3, <2>5 DEF RefInv
<1>9. CASE SaveTruncate \/ SaveWrite \/ SaveFails
  <2>1. /\ UNCHANGED <<argVars, ghostVars, readErr, batch, storeVars>>
        /\ pc \in {"save", "writing"} /\ pc' \in {"writing", "closing"}
    BY <1>9 DEF SaveTruncate, SaveWrite, SaveFails
  <2> QED
    BY <1>1, <1>2, <2>1 DEF RefInv
<1>10. CASE CloseStore \/ CloseUnflushed \/ Crash
  <2>1. PICK kept, how : Leave(kept, how)
    BY <1>10 DEF CloseStore, CloseUnflushed, Crash
  <2>2. /\ pc' = "idle" /\ UNCHANGED <<argVars, readErr, ingests>> /\ Vanish(kept)
        /\ ~lossy' => ~lossy /\ \A cf \in Families \ kept : mem[cf] = EmptyMap
        /\ lossy' \in BOOLEAN /\ lossy \in BOOLEAN
    BY <2>1 DEF Leave, TypeOK
  <2>3. Trusted' => Trusted /\ View' = View
    BY <1>1, <2>2, VanishView DEF Trusted, TypeOK
  <2> QED
    BY <2>2, <2>3 DEF RefInv
<1>11. CASE BackgroundFlush
  <2>1. View' = View
    BY <1>11, FlushView DEF BackgroundFlush, TypeOK
  <2>2. pc # "idle" /\ UNCHANGED <<argVars, pc, readErr, batch, ghostVars>>
    BY <1>11 DEF BackgroundFlush
  <2>3. Written' = Written
    BY <2>1, <2>2 DEF Written
  <2> QED
    BY <1>1, <2>1, <2>2, <2>3 DEF RefInv
<1>12. CASE UNCHANGED vars
  <2>1. UNCHANGED <<argVars, pc, readErr, batch, ghostVars, storeVars>>
    BY <1>12 DEF vars
  <2> QED
    BY <1>1, <1>2, <2>1 DEF RefInv
<1> QED
  BY <1>3, <1>4, <1>5, <1>6, <1>7, <1>8, <1>9, <1>10, <1>11, <1>12 DEF Next, Process

\* The validator accepts an edge whose endpoints are ids it has read
\* (validator.go, nodeIDs), and the ingestor stores the nodes first: for files
\* both read alike, no edge of a first ingestion is ever seen without its
\* endpoints, whatever is flushed and whichever writes fail.
THEOREM EdgesAlwaysAttached == Spec => []ReferentialIntegrity
<1>1. RefInv => ReferentialIntegrity
  BY DEF RefInv, Trusted, NoDangling, ReferentialIntegrity
<1>2. Spec => [](TypeOK /\ FlowInv /\ RowsInv /\ RefInv)
  <2>1. Init => TypeOK /\ FlowInv /\ RowsInv /\ RefInv
    BY TypeInit, FlowInit, RowsInit, RefInit
  <2>2. TypeOK /\ FlowInv /\ RowsInv /\ RefInv /\ [Next]_vars
          => (TypeOK /\ FlowInv /\ RowsInv /\ RefInv)'
    BY TypeNext, FlowNext, RowsNext, RefNext
  <2> QED
    BY <2>1, <2>2, PTL DEF Spec
<1> QED
  BY <1>1, <1>2, PTL

-----------------------------------------------------------------------------
(* The metadata counts the accepted rows.                                  *)

LabelsOf(file, R) == {RecordAt(file, i).label : i \in R}
RowsOf(file, R, l) == {i \in R : RecordAt(file, i).label = l}
CountBy(file, R) == [l \in LabelsOf(file, R) |-> Cardinality(RowsOf(file, R, l))]
SchemaOf(file, R) ==
  UNION {{RecordAt(file, i).label} \X DOMAIN RecordAt(file, i).props : i \in R}

\* The rows R of a file, as m counts them.
NodesCounted(m, file, R) ==
  /\ m.nodeCount = Cardinality(R)
  /\ m.nodeCountByLabel = CountBy(file, R)
  /\ m.nodeSchema = SchemaOf(file, R)

EdgesCounted(m, file, R) ==
  /\ m.edgeCount = Cardinality(R)
  /\ m.edgeCountByLabel = CountBy(file, R)
  /\ m.edgeSchema = SchemaOf(file, R)

Exact(m) ==
  /\ NodesCounted(m, nodesFile, NodeRows(nodesFile))
  /\ EdgesCounted(m, edgesFile, EdgeRows(edgesFile))

Upto(R, p) == {i \in R : i < p}

\* The metadata counts what the scanner has passed, and the file on disk is
\* the one of the latest success until another ingestion starts.
MetaInv ==
  /\ pc = "nodes" /\ ~readErr =>
       /\ NodesCounted(meta, nodesFile, Upto(NodeRows(nodesFile), pos))
       /\ EdgesCounted(meta, edgesFile, {})
  /\ pc = "edges" /\ ~readErr =>
       /\ NodesCounted(meta, nodesFile, NodeRows(nodesFile))
       /\ EdgesCounted(meta, edgesFile, Upto(EdgeRows(edgesFile), pos))
  /\ pc \in {"save", "writing"} => Exact(meta)
  /\ outcome = "success" => Loadable /\ Exact(metaFile.data)

\* The rows of a file are finitely many.
LEMMA RowsFinite ==
  ASSUME NEW file \in File, NEW R, R \subseteq NodeRows(file) \cup EdgeRows(file)
  PROVE  IsFiniteSet(R)
<1>1. Len(file) \in Int /\ R \in SUBSET (1..Len(file))
  BY RowPositions DEF File
<1>2. IsFiniteSet(1..Len(file))
  BY <1>1, FS_Interval
<1> QED
  BY <1>1, <1>2, FS_Subset

\* One more line: its row, if it is one, joins those before it.
LEMMA UptoGrows ==
  ASSUME NEW R, R \subseteq Nat \ {0}, NEW p \in Nat
  PROVE  /\ Upto(R, 1) = {}
         /\ p \notin R => Upto(R, p + 1) = Upto(R, p)
         /\ p \in R => Upto(R, p + 1) = Upto(R, p) \cup {p}
         /\ p \notin Upto(R, p)
<1>1. \A i \in R : i \in Nat /\ (i < p + 1 <=> i < p \/ i = p) /\ ~(i < 1)
  OBVIOUS
<1>2. p < p + 1 /\ ~(p < p)
  OBVIOUS
<1>3. Upto(R, 1) = {}
  BY <1>1 DEF Upto
<1>4. p \notin R => Upto(R, p + 1) = Upto(R, p)
  BY <1>1 DEF Upto
<1>5. p \in R => Upto(R, p + 1) = Upto(R, p) \cup {p}
  BY <1>1, <1>2 DEF Upto
<1> QED
  BY <1>2, <1>3, <1>4, <1>5 DEF Upto

\* After the last line they are all.
LEMMA UptoAll ==
  ASSUME NEW file \in File, NEW p \in Nat, p > Len(file)
  PROVE  /\ Upto(NodeRows(file), p) = NodeRows(file)
         /\ Upto(EdgeRows(file), p) = EdgeRows(file)
<1>1. Len(file) \in Nat
  BY DEF File
<1>2. \A i \in NodeRows(file) \cup EdgeRows(file) : i < p
  BY <1>1, RowPositions
<1> QED
  BY <1>2 DEF Upto

\* Rows are positive numbers.
LEMMA RowNumbers ==
  ASSUME NEW file
  PROVE  NodeRows(file) \subseteq Nat \ {0} /\ EdgeRows(file) \subseteq Nat \ {0}
BY RowPositions

\* Counting one more row adds one copy of its label.
LEMMA CountGrows ==
  ASSUME NEW file, NEW R, IsFiniteSet(R), NEW p, p \notin R
  PROVE  /\ Cardinality(R \cup {p}) = Cardinality(R) + 1
         /\ CountBy(file, R \cup {p}) = BagAdd(CountBy(file, R), RecordAt(file, p).label)
         /\ SchemaOf(file, R \cup {p}) =
              SchemaOf(file, R)
                \cup Pairs(RecordAt(file, p).label, DOMAIN RecordAt(file, p).props)
<1> DEFINE S == R \cup {p}
           here == RecordAt(file, p).label
           old == CountBy(file, R)
<1>1. Cardinality(S) = Cardinality(R) + 1
  BY FS_AddElement
<1>2. SchemaOf(file, S) =
        SchemaOf(file, R) \cup Pairs(here, DOMAIN RecordAt(file, p).props)
  BY DEF SchemaOf, Pairs
<1>3. LabelsOf(file, S) = LabelsOf(file, R) \cup {here}
  BY DEF LabelsOf
<1>4. ASSUME NEW l, l # here
      PROVE  RowsOf(file, S, l) = RowsOf(file, R, l)
  BY <1>4 DEF RowsOf
<1>5. Cardinality(RowsOf(file, S, here)) = Cardinality(RowsOf(file, R, here)) + 1
  <2>1. RowsOf(file, S, here) = RowsOf(file, R, here) \cup {p} /\ p \notin RowsOf(file, R, here)
    BY DEF RowsOf
  <2>2. IsFiniteSet(RowsOf(file, R, here))
    BY FS_Subset DEF RowsOf
  <2> QED
    BY <2>1, <2>2, FS_AddElement
<1>6. DOMAIN old = LabelsOf(file, R) /\
      \A l \in LabelsOf(file, R) : old[l] = Cardinality(RowsOf(file, R, l))
  BY DEF CountBy
<1>7. here \notin LabelsOf(file, R) => Cardinality(RowsOf(file, R, here)) = 0
  <2>1. here \notin LabelsOf(file, R) => RowsOf(file, R, here) = {}
    BY DEF LabelsOf, RowsOf
  <2> QED
    BY <2>1, FS_EmptySet
<1> HIDE DEF S, here, old
<1>8. CountBy(file, S) = BagAdd(old, here)
  <2>1. CASE here \in LabelsOf(file, R)
    <3>1. LabelsOf(file, S) = LabelsOf(file, R)
      BY <1>3, <2>1
    <3>2. BagAdd(old, here) =
            [l \in LabelsOf(file, R) |-> IF l = here THEN old[l] + 1 ELSE old[l]]
      BY <1>6, <2>1 DEF BagAdd
    <3>3. \A l \in LabelsOf(file, R) : Cardinality(RowsOf(file, S, l)) =
            IF l = here THEN old[l] + 1 ELSE old[l]
      BY <1>4, <1>5, <1>6
    <3> QED
      BY <3>1, <3>2, <3>3 DEF CountBy
  <2>2. CASE here \notin LabelsOf(file, R)
    <3>1. BagAdd(old, here) =
            [l \in LabelsOf(file, S) |-> IF l = here THEN 1 ELSE old[l]]
      BY <1>3, <1>6, <2>2 DEF BagAdd
    <3>2. \A l \in LabelsOf(file, S) : Cardinality(RowsOf(file, S, l)) =
            IF l = here THEN 1 ELSE old[l]
      BY <1>3, <1>4, <1>5, <1>6, <1>7, <2>2
    <3> QED
      BY <3>1, <3>2 DEF CountBy
  <2> QED
    BY <2>1, <2>2
<1> QED
  BY <1>1, <1>2, <1>8 DEF S, here, old

\* The store of metadata starts with the counts of no rows.
LEMMA NewCountsNothing ==
  ASSUME NEW file
  PROVE  NodesCounted(NewMetaStore, file, {}) /\ EdgesCounted(NewMetaStore, file, {})
<1>1. LabelsOf(file, {}) = {} /\ SchemaOf(file, {}) = {}
  BY DEF LabelsOf, SchemaOf
<1>2. CountBy(file, {}) = NoCopies
  BY <1>1 DEF CountBy, NoCopies
<1> QED
  BY <1>1, <1>2, FS_EmptySet DEF NodesCounted, EdgesCounted, NewMetaStore

\* What IncNode counts, and what it leaves.
LEMMA IncNodeCounts ==
  ASSUME MetaTypeOK, NEW label, NEW props, IncNode(label, props)
  PROVE  /\ meta'.nodeCount = meta.nodeCount + 1
         /\ meta'.nodeCountByLabel = BagAdd(meta.nodeCountByLabel, label)
         /\ meta'.nodeSchema = meta.nodeSchema \cup Pairs(label, props)
         /\ \A file, R : EdgesCounted(meta, file, R) => EdgesCounted(meta', file, R)
<1>1. /\ meta'.edgeCount = meta.edgeCount
      /\ meta'.edgeCountByLabel = meta.edgeCountByLabel
      /\ meta'.edgeSchema = meta.edgeSchema
  BY DEF MetaTypeOK, NewMetaStore, IncNode
<1>2. \A file, R : EdgesCounted(meta, file, R) => EdgesCounted(meta', file, R)
  BY <1>1 DEF EdgesCounted
<1> QED
  BY <1>2 DEF MetaTypeOK, NewMetaStore, IncNode

\* What IncEdge counts, and what it leaves.
LEMMA IncEdgeCounts ==
  ASSUME MetaTypeOK, NEW label, NEW s, NEW d, NEW props, IncEdge(label, s, d, props)
  PROVE  /\ meta'.edgeCount = meta.edgeCount + 1
         /\ meta'.edgeCountByLabel = BagAdd(meta.edgeCountByLabel, label)
         /\ meta'.edgeSchema = meta.edgeSchema \cup Pairs(label, props)
         /\ \A file, R : NodesCounted(meta, file, R) => NodesCounted(meta', file, R)
<1>1. /\ meta'.nodeCount = meta.nodeCount
      /\ meta'.nodeCountByLabel = meta.nodeCountByLabel
      /\ meta'.nodeSchema = meta.nodeSchema
  BY DEF MetaTypeOK, NewMetaStore, IncEdge
<1>2. \A file, R : NodesCounted(meta, file, R) => NodesCounted(meta', file, R)
  BY <1>1 DEF NodesCounted
<1> QED
  BY <1>2 DEF MetaTypeOK, NewMetaStore, IncEdge

\* A record counted is a row counted.
LEMMA NodeCounted ==
  ASSUME MetaTypeOK, NEW file \in File, NEW p \in NodeRows(file),
         NodesCounted(meta, file, Upto(NodeRows(file), p)),
         IncNode(RecordAt(file, p).label, DOMAIN RecordAt(file, p).props)
  PROVE  NodesCounted(meta', file, Upto(NodeRows(file), p + 1))
<1> DEFINE R == Upto(NodeRows(file), p)
<1>1. IsFiniteSet(R) /\ p \notin R /\ Upto(NodeRows(file), p + 1) = R \cup {p}
  <2>1. NodeRows(file) \subseteq Nat \ {0} /\ p \in Nat
    BY RowNumbers
  <2>2. R \subseteq NodeRows(file) \cup EdgeRows(file)
    BY DEF Upto
  <2>3. p \notin R /\ Upto(NodeRows(file), p + 1) = R \cup {p}
    BY <2>1, UptoGrows
  <2> HIDE DEF R
  <2>4. IsFiniteSet(R)
    BY <2>2, RowsFinite
  <2> QED
    BY <2>3, <2>4
<1>2. NodesCounted(meta, file, R)
  OBVIOUS
<1> HIDE DEF R
<1>3. /\ Cardinality(R \cup {p}) = Cardinality(R) + 1
      /\ CountBy(file, R \cup {p}) = BagAdd(CountBy(file, R), RecordAt(file, p).label)
      /\ SchemaOf(file, R \cup {p}) =
           SchemaOf(file, R)
             \cup Pairs(RecordAt(file, p).label, DOMAIN RecordAt(file, p).props)
  BY <1>1, CountGrows
<1>4. NodesCounted(meta', file, R \cup {p})
  BY <1>2, <1>3, IncNodeCounts DEF NodesCounted
<1> QED
  BY <1>1, <1>4

\* Likewise for an edge.
LEMMA EdgeCounted ==
  ASSUME MetaTypeOK, NEW file \in File, NEW p \in EdgeRows(file),
         EdgesCounted(meta, file, Upto(EdgeRows(file), p)), NEW s, NEW d,
         IncEdge(RecordAt(file, p).label, s, d, DOMAIN RecordAt(file, p).props)
  PROVE  EdgesCounted(meta', file, Upto(EdgeRows(file), p + 1))
<1> DEFINE R == Upto(EdgeRows(file), p)
<1>1. IsFiniteSet(R) /\ p \notin R /\ Upto(EdgeRows(file), p + 1) = R \cup {p}
  <2>1. EdgeRows(file) \subseteq Nat \ {0} /\ p \in Nat
    BY RowNumbers
  <2>2. R \subseteq NodeRows(file) \cup EdgeRows(file)
    BY DEF Upto
  <2>3. p \notin R /\ Upto(EdgeRows(file), p + 1) = R \cup {p}
    BY <2>1, UptoGrows
  <2> HIDE DEF R
  <2>4. IsFiniteSet(R)
    BY <2>2, RowsFinite
  <2> QED
    BY <2>3, <2>4
<1>2. EdgesCounted(meta, file, R)
  OBVIOUS
<1> HIDE DEF R
<1>3. /\ Cardinality(R \cup {p}) = Cardinality(R) + 1
      /\ CountBy(file, R \cup {p}) = BagAdd(CountBy(file, R), RecordAt(file, p).label)
      /\ SchemaOf(file, R \cup {p}) =
           SchemaOf(file, R)
             \cup Pairs(RecordAt(file, p).label, DOMAIN RecordAt(file, p).props)
  BY <1>1, CountGrows
<1>4. /\ meta'.edgeCount = meta.edgeCount + 1
      /\ meta'.edgeCountByLabel = BagAdd(meta.edgeCountByLabel, RecordAt(file, p).label)
      /\ meta'.edgeSchema = meta.edgeSchema
           \cup Pairs(RecordAt(file, p).label, DOMAIN RecordAt(file, p).props)
  BY IncEdgeCounts
<1>5. EdgesCounted(meta', file, R \cup {p})
  BY <1>2, <1>3, <1>4 DEF EdgesCounted
<1> QED
  BY <1>1, <1>5

\* A new database has no success to account for.
LEMMA CountInit == Init => MetaInv
BY DEF Init, MetaInv

\* The scanning loops count the rows they take and no other line.
LEMMA ScanKeepsCounts ==
  ASSUME TypeOK, FlowInv, RowsInv, MetaInv, ReadHeader \/ SkipLine \/ PutNode \/ PutEdge
  PROVE  MetaInv'
<1> DEFINE nodes == NodeRows(nodesFile)
           edges == EdgeRows(edgesFile)
<1>1. /\ AtLine /\ ~readErr /\ pc \in {"nodes", "edges"} /\ pos \in Nat /\ outcome = "none"
      /\ nodesFile \in File /\ edgesFile \in File /\ MetaTypeOK
      /\ nodes \subseteq Nat \ {0} /\ edges \subseteq Nat \ {0}
      /\ UNCHANGED <<nodesFile, edgesFile, metaFile>>
  BY FileTypes, RowNumbers
  DEF ReadHeader, SkipLine, PutNode, PutEdge, HasLine, AtLine, TypeOK, FlowInv, argVars, metaVars
<1>2. ASSUME outcome' = "error", pc' = "closing"
      PROVE  MetaInv'
  BY <1>2 DEF MetaInv
<1>3. CASE ReadHeader \/ SkipLine
  <2>1. UNCHANGED <<pc, outcome, meta, readErr>> /\ pos' = pos + 1
    BY <1>3 DEF ReadHeader, SkipLine, metaVars
  <2>2. ASSUME pc = "nodes"
        PROVE  pos \notin nodes
    <3>1. Scanned = nodesFile /\ header = IngestHeader(Scanned, pos)
      BY <1>1, <2>2 DEF Scanned, RowsInv
    <3>2. IsIngestHeader(Scanned[pos]) \/ ~IsNodeRow(Scanned[pos])
      BY <1>3, <2>2 DEF ReadHeader, SkipLine
    <3> QED
      BY <1>1, <3>1, <3>2, LineAt, HeaderNoRow
  <2>3. ASSUME pc = "edges"
        PROVE  pos \notin edges
    <3>1. Scanned = edgesFile /\ header = IngestHeader(Scanned, pos)
      BY <1>1, <2>3 DEF Scanned, RowsInv
    <3>2. IsIngestHeader(Scanned[pos]) \/ ~IsEdgeRow(Scanned[pos])
      BY <1>3, <2>3 DEF ReadHeader, SkipLine
    <3> QED
      BY <1>1, <3>1, <3>2, LineAt, HeaderNoRow
  <2>4. /\ pc = "nodes" => Upto(nodes, pos + 1) = Upto(nodes, pos)
        /\ pc = "edges" => Upto(edges, pos + 1) = Upto(edges, pos)
    <3>1. pos \notin nodes => Upto(nodes, pos + 1) = Upto(nodes, pos)
      BY <1>1, UptoGrows
    <3>2. pos \notin edges => Upto(edges, pos + 1) = Upto(edges, pos)
      BY <1>1, UptoGrows
    <3> QED
      BY <2>2, <2>3, <3>1, <3>2
  <2> QED
    BY <1>1, <2>1, <2>4 DEF MetaInv
<1>4. CASE PutNode
  <2>1. PICK line \in Texts, size \in RecordBytes :
          /\ IsNodeRow(line) /\ readErr' = (line # Scanned[pos])
          /\ IncNode(ParseLine(header, line).label, DOMAIN ParseLine(header, line).props)
          /\ Commit(NodePuts(ParseLine(header, line)), size)
    BY <1>4 DEF PutNode
  <2>2. pc = "nodes" /\ Scanned = nodesFile
    BY <1>4 DEF PutNode, Scanned
  <2>3. CASE outcome' = outcome /\ pc' = pc /\ pos' = pos + 1
    <3>1. ASSUME ~readErr'
          PROVE  /\ NodesCounted(meta', nodesFile, Upto(nodes, pos + 1))
                 /\ EdgesCounted(meta', edgesFile, {})
      <4>1. line = nodesFile[pos] /\ header = IngestHeader(nodesFile, pos)
        BY <1>1, <2>1, <2>2, <3>1 DEF RowsInv
      <4>2. pos \in nodes /\ ParseLine(header, line) = RecordAt(nodesFile, pos)
        BY <1>1, <2>1, <2>2, <4>1, LineAt
      <4>3. /\ NodesCounted(meta, nodesFile, Upto(nodes, pos))
            /\ EdgesCounted(meta, edgesFile, {})
        BY <1>1, <2>2 DEF MetaInv
      <4> QED
        BY <1>1, <2>1, <4>2, <4>3, NodeCounted, IncNodeCounts
    <3> QED
      BY <1>1, <2>2, <2>3, <3>1 DEF MetaInv
  <2> QED
    BY <1>2, <2>1, <2>3, CommitFlow
<1>5. CASE PutEdge
  <2>1. PICK line \in Texts, size \in RecordBytes, blobSize \in BlobBytes :
          /\ IsEdgeRow(line) /\ readErr' = (line # Scanned[pos])
          /\ IncEdge(ParseLine(header, line).label, "", "", DOMAIN ParseLine(header, line).props)
          /\ AddBlob(ParseLine(header, line), size, blobSize)
    BY <1>5 DEF PutEdge
  <2>2. pc = "edges" /\ Scanned = edgesFile
    BY <1>5 DEF PutEdge, Scanned
  <2>3. PICK puts : Commit(puts, size)
    BY <2>1 DEF AddBlob
  <2>4. CASE outcome' = outcome /\ pc' = pc /\ pos' = pos + 1
    <3>1. ASSUME ~readErr'
          PROVE  /\ NodesCounted(meta', nodesFile, nodes)
                 /\ EdgesCounted(meta', edgesFile, Upto(edges, pos + 1))
      <4>1. line = edgesFile[pos] /\ header = IngestHeader(edgesFile, pos)
        BY <1>1, <2>1, <2>2, <3>1 DEF RowsInv
      <4>2. pos \in edges /\ ParseLine(header, line) = RecordAt(edgesFile, pos)
        BY <1>1, <2>1, <2>2, <4>1, LineAt
      <4>3. /\ NodesCounted(meta, nodesFile, nodes)
            /\ EdgesCounted(meta, edgesFile, Upto(edges, pos))
        BY <1>1, <2>2 DEF MetaInv
      <4> QED
        BY <1>1, <2>1, <4>2, <4>3, EdgeCounted, IncEdgeCounts
    <3> QED
      BY <1>1, <2>2, <2>4, <3>1 DEF MetaInv
  <2> QED
    BY <1>2, <2>3, <2>4, CommitFlow
<1> QED
  BY <1>3, <1>4, <1>5

\* Every step keeps the counts.
LEMMA CountNext ==
  TypeOK /\ FlowInv /\ RowsInv /\ MetaInv /\ [Next]_vars => MetaInv'
<1> SUFFICES ASSUME TypeOK, FlowInv, RowsInv, MetaInv, [Next]_vars PROVE MetaInv'
  OBVIOUS
<1> USE DEF argVars, loopVars, metaVars
<1>1. CASE RejectIngest \/ OpenFails
  <2>1. pc' = "idle" /\ outcome' \in {"rejected", "error"}
    BY <1>1 DEF RejectIngest, OpenFails, Invoke, MayStart
  <2> QED
    BY <2>1 DEF MetaInv
<1>2. CASE BeginIngest
  <2>1. /\ pc = "idle" /\ pc' = "nodes" /\ outcome' = "none" /\ meta' = NewMetaStore
        /\ nodesFile' \in NodeFiles /\ pos' = pos
    BY <1>2 DEF BeginIngest, Invoke, MayStart
  <2>2. pos' = 1 /\ nodesFile' \in File
    BY <2>1, IngestAssumption DEF RowsInv
  <2>3. Upto(NodeRows(nodesFile'), 1) = {}
    BY UptoGrows, RowNumbers
  <2> QED
    BY <2>1, <2>2, <2>3, NewCountsNothing DEF MetaInv
<1>3. CASE ReadHeader \/ SkipLine \/ PutNode \/ PutEdge
  BY <1>3, ScanKeepsCounts
<1>4. CASE FinishNodes
  <2>1. PICK failed \in BOOLEAN : ScanEnds(failed) /\ FinalFlush(batch, failed, "edges")
    BY <1>4 DEF FinishNodes
  <2>2. pc = "nodes" /\ outcome = "none" /\ UNCHANGED <<nodesFile, edgesFile, meta>>
    BY <1>4 DEF FinishNodes, FlowInv
  <2>3. CASE pc' = "closing" /\ outcome' = "error"
    BY <2>3 DEF MetaInv
  <2>4. CASE ~failed /\ pc' = "edges" /\ outcome' = outcome
    <3>1. /\ pos > Len(nodesFile) /\ ~readErr /\ pos \in Nat /\ pos' = 1
          /\ nodesFile \in File /\ edgesFile \in File
      BY <2>1, <2>2, <2>4, FileTypes DEF ScanEnds, Scanned, TypeOK, FinalFlush, Fail
    <3>2. /\ Upto(NodeRows(nodesFile), pos) = NodeRows(nodesFile)
          /\ Upto(EdgeRows(edgesFile), 1) = {}
      BY <3>1, UptoAll, UptoGrows, RowNumbers
    <3> QED
      BY <2>2, <2>4, <3>1, <3>2 DEF MetaInv
  <2> QED
    BY <2>1, <2>3, <2>4, FinalFlushFlow
<1>5. CASE FinishEdges
  <2>1. PICK failed \in BOOLEAN :
          ScanEnds(failed) /\ FinalFlush(Layer(FatPuts(Unwritten), batch), failed, "save")
    BY <1>5 DEF FinishEdges
  <2>2. pc = "edges" /\ outcome = "none" /\ UNCHANGED <<nodesFile, edgesFile, meta>>
    BY <1>5 DEF FinishEdges, FlowInv
  <2>3. CASE pc' = "closing" /\ outcome' = "error"
    BY <2>3 DEF MetaInv
  <2>4. CASE ~failed /\ pc' = "save" /\ outcome' = outcome
    <3>1. pos > Len(edgesFile) /\ ~readErr /\ pos \in Nat /\ edgesFile \in File
      BY <2>1, <2>2, <2>4, FileTypes DEF ScanEnds, Scanned, TypeOK
    <3>2. Upto(EdgeRows(edgesFile), pos) = EdgeRows(edgesFile)
      BY <3>1, UptoAll
    <3> QED
      BY <2>2, <2>4, <3>1, <3>2 DEF MetaInv, Exact
  <2> QED
    BY <2>1, <2>3, <2>4, FinalFlushFlow
<1>6. CASE SaveTruncate
  <2>1. pc = "save" /\ pc' = "writing" /\ UNCHANGED <<nodesFile, edgesFile, meta, outcome>>
    BY <1>6 DEF SaveTruncate
  <2> QED
    BY <2>1 DEF MetaInv, FlowInv, Exact
<1>7. CASE SaveWrite
  <2>1. /\ pc = "writing" /\ pc' = "closing" /\ UNCHANGED <<nodesFile, edgesFile, meta>>
        /\ metaFile' = Complete(meta)
    BY <1>7 DEF SaveWrite
  <2>2. Exact(meta) /\ metaFile'.state = "complete" /\ metaFile'.data = meta
    BY <2>1 DEF MetaInv, Complete
  <2> QED
    BY <2>1, <2>2 DEF MetaInv, Exact, Loadable
<1>8. CASE SaveFails
  BY <1>8 DEF SaveFails, MetaInv
<1>9. CASE CloseStore \/ CloseUnflushed \/ Crash
  <2>1. pc' = "idle" /\ UNCHANGED <<nodesFile, edgesFile, outcome, metaFile>>
    BY <1>9 DEF CloseStore, CloseUnflushed, Crash, Leave
  <2> QED
    BY <2>1 DEF MetaInv, Exact, Loadable
<1>10. CASE BackgroundFlush \/ UNCHANGED vars
  <2>1. UNCHANGED <<nodesFile, edgesFile, pc, pos, readErr, outcome, meta, metaFile>>
    BY <1>10 DEF BackgroundFlush, vars
  <2> QED
    BY <2>1 DEF MetaInv, Exact, Loadable
<1> QED
  BY <1>1, <1>2, <1>3, <1>4, <1>5, <1>6, <1>7, <1>8, <1>9, <1>10 DEF Next, Process

\* Every record the loops accept is counted once (metadata.go, IncNode and
\* IncEdge), under its label and with its property names, however the scans
\* and batches were cut: metadata.json after a success is exact.
THEOREM MetadataAlwaysExact == Spec => []MetadataExact
<1>1. MetaInv => MetadataExact
  BY DEF MetaInv, MetadataExact, Succeeded, Exact, NodesCounted, EdgesCounted, CountBy,
     SchemaOf, LabelsOf, RowsOf, NodeAt, EdgeAt
<1>2. Spec => [](TypeOK /\ FlowInv /\ RowsInv /\ MetaInv)
  <2>1. Init => TypeOK /\ FlowInv /\ RowsInv /\ MetaInv
    BY TypeInit, FlowInit, RowsInit, CountInit
  <2>2. TypeOK /\ FlowInv /\ RowsInv /\ MetaInv /\ [Next]_vars
          => (TypeOK /\ FlowInv /\ RowsInv /\ MetaInv)'
    BY TypeNext, FlowNext, RowsNext, CountNext
  <2> QED
    BY <2>1, <2>2, PTL DEF Spec
<1> QED
  BY <1>1, <1>2, PTL

-----------------------------------------------------------------------------
(* The counts are the numbers of records.                                  *)

NodeIdsOf(file) == {RecordAt(file, i).id : i \in NodeRows(file)}
EdgeIdsOf(file) == {EdgeId(RecordAt(file, i)) : i \in EdgeRows(file)}

\* b has no record but those of the files.
OnlyRows(nodes, edges, b) ==
  /\ DOMAIN b["nodes"] \subseteq NodeIdsOf(nodes)
  /\ DOMAIN b["edges"] \subseteq EdgeIdsOf(edges)

\* A first ingestion writes nothing but the rows of its files, unless it was
\* handed half a line; one that was validated and succeeded had valid files.
StoredInv ==
  /\ outcome = "success" /\ ~yolo => ValidFiles(nodesFile, edgesFile)
  /\ ingests <= 1 /\ ~readErr => OnlyRows(nodesFile, edgesFile, Written)

\* Fewer records, or those of a row, keep a bundle within the files.
LEMMA OnlyRowsStay ==
  ASSUME NEW nodes, NEW edges, NEW b, OnlyRows(nodes, edges, b), NEW puts, NEW c,
         \/ \A cf \in Families : DOMAIN c[cf] \subseteq DOMAIN b[cf]
         \/ /\ c = Layer(puts, b)
            /\ DOMAIN puts["nodes"] \subseteq NodeIdsOf(nodes)
            /\ DOMAIN puts["edges"] \subseteq EdgeIdsOf(edges)
  PROVE  OnlyRows(nodes, edges, c)
<1>1. \A cf \in Families : DOMAIN Layer(puts, b)[cf] = DOMAIN puts[cf] \cup DOMAIN b[cf]
  BY LayerKeeps
<1> QED
  BY <1>1 DEF OnlyRows, Families

\* When the batch is destroyed the store is all that is written.
LEMMA WrittenWithoutBatch ==
  ASSUME batch' = Nothing, UNCHANGED storeVars
  PROVE  \A cf \in Families : DOMAIN Written'[cf] \subseteq DOMAIN Written[cf]
<1>1. Written' = View
  BY ViewIsBundle, LayerNothing DEF Written, View, storeVars
<1> QED
  BY <1>1, ViewInWritten

\* A new database has no record.
LEMMA StoredInit == Init => StoredInv
<1> SUFFICES ASSUME Init PROVE StoredInv
  OBVIOUS
<1>1. Written = Nothing
  BY DEF Init, StoreInit, Written, View, Layer, Overlay, Nothing, EmptyMap
<1>2. DOMAIN Written["nodes"] = {} /\ DOMAIN Written["edges"] = {}
  BY <1>1 DEF Nothing, EmptyMap, Families
<1> QED
  BY <1>2 DEF Init, StoredInv, OnlyRows

\* The scanning loops add the records of rows.
LEMMA ScanKeepsStored ==
  ASSUME TypeOK, FlowInv, RowsInv, StoredInv, PutNode \/ PutEdge
  PROVE  StoredInv'
<1>1. /\ UNCHANGED <<nodesFile, edgesFile, yolo, ingests>> /\ ~readErr /\ outcome = "none"
      /\ StoreTypeOK
  BY DEF PutNode, PutEdge, AtLine, argVars, ghostVars, FlowInv, TypeOK
<1>2. PICK puts, size :
        /\ Commit(puts, size)
        /\ ~readErr' => /\ DOMAIN puts["nodes"] \subseteq NodeIdsOf(nodesFile)
                        /\ DOMAIN puts["edges"] \subseteq EdgeIdsOf(edgesFile)
  <2>1. CASE PutNode
    <3>1. PICK line \in Texts, size \in RecordBytes :
            /\ IsNodeRow(line) /\ readErr' = (line # Scanned[pos])
            /\ Commit(NodePuts(ParseLine(header, line)), size)
      BY <2>1 DEF PutNode
    <3>2. pc = "nodes" /\ AtLine /\ Scanned = nodesFile
      BY <2>1 DEF PutNode, Scanned
    <3>3. ASSUME ~readErr'
          PROVE  pos \in NodeRows(nodesFile) /\ ParseLine(header, line) = RecordAt(nodesFile, pos)
      <4>1. line = nodesFile[pos] /\ header = IngestHeader(nodesFile, pos)
        BY <1>1, <3>1, <3>2, <3>3 DEF RowsInv
      <4> QED
        BY <3>1, <3>2, <4>1, LineAt
    <3> DEFINE puts == NodePuts(ParseLine(header, line))
    <3>4. DOMAIN puts["nodes"] = {ParseLine(header, line).id} /\ DOMAIN puts["edges"] = {}
      BY NodePutsParts DEF EmptyMap
    <3> QED
      BY <3>1, <3>3, <3>4 DEF NodeIdsOf
  <2>2. CASE PutEdge
    <3>1. PICK line \in Texts, size \in RecordBytes, blobSize \in BlobBytes :
            /\ IsEdgeRow(line) /\ readErr' = (line # Scanned[pos])
            /\ AddBlob(ParseLine(header, line), size, blobSize)
      BY <2>2 DEF PutEdge
    <3>2. pc = "edges" /\ AtLine /\ Scanned = edgesFile
      BY <2>2 DEF PutEdge, Scanned
    <3>3. PICK puts : Commit(puts, size) /\ EdgeRowPuts(puts, ParseLine(header, line))
      BY <3>1, EdgeRowPutsHold DEF AddBlob
    <3>4. ASSUME ~readErr'
          PROVE  pos \in EdgeRows(edgesFile) /\ ParseLine(header, line) = RecordAt(edgesFile, pos)
      <4>1. line = edgesFile[pos] /\ header = IngestHeader(edgesFile, pos)
        BY <1>1, <3>1, <3>2, <3>4 DEF RowsInv
      <4> QED
        BY <3>1, <3>2, <4>1, LineAt
    <3>5. DOMAIN puts["edges"] = {EdgeId(ParseLine(header, line))} /\ DOMAIN puts["nodes"] = {}
      BY <3>3 DEF EdgeRowPuts, EmptyMap
    <3> QED
      BY <3>3, <3>4, <3>5 DEF EdgeIdsOf
  <2> QED
    BY <2>1, <2>2
<1>3. pc \in {"nodes", "edges"}
  BY DEF PutNode, PutEdge
<1>4. CASE pc' = "closing" /\ outcome' = "error" /\ batch' = Nothing /\ UNCHANGED storeVars
  BY <1>1, <1>4, WrittenWithoutBatch, OnlyRowsStay DEF StoredInv
<1>5. CASE pc' = pc /\ outcome' = outcome
  <2>1. Written' = Layer(puts, Written)
    BY <1>1, <1>2, <1>3, <1>5, CommitWrites
  <2> QED
    BY <1>1, <1>2, <1>5, <2>1, OnlyRowsStay DEF StoredInv
<1> QED
  BY <1>2, <1>4, <1>5, CommitFlow

\* Every step keeps the store within the files.
LEMMA StoredNext ==
  TypeOK /\ FlowInv /\ RowsInv /\ RefInv /\ StoredInv /\ [Next]_vars => StoredInv'
<1> SUFFICES ASSUME TypeOK, FlowInv, RowsInv, RefInv, StoredInv, [Next]_vars
             PROVE  StoredInv'
  OBVIOUS
<1> USE DEF argVars, loopVars, batchVars, ghostVars
<1>1. UNCHANGED <<batch, storeVars>> => Written' = Written
  BY DEF Written, View, storeVars
<1>2. CASE RejectIngest \/ OpenFails \/ BeginIngest
  <2>1. /\ ingests' = ingests + 1 /\ outcome' # "success" /\ pc = "idle"
        /\ UNCHANGED <<batch, storeVars>>
    BY <1>2 DEF RejectIngest, OpenFails, BeginIngest, Invoke, MayStart
  <2>2. ASSUME ingests' <= 1
        PROVE  DOMAIN Written'["nodes"] = {} /\ DOMAIN Written'["edges"] = {}
    <3>1. ingests = 0
      BY <2>1, <2>2 DEF TypeOK
    <3>2. View = Nothing /\ batch = Nothing
      BY <2>1, <3>1 DEF FlowInv
    <3>3. Written' = Nothing
      BY <1>1, <2>1, <3>2, LayerNothing, NothingIsBundle DEF Written
    <3> QED
      BY <3>3 DEF Nothing, EmptyMap, Families
  <2> QED
    BY <2>1, <2>2 DEF StoredInv, OnlyRows
<1>3. CASE ReadHeader \/ SkipLine
  BY <1>1, <1>3 DEF ReadHeader, SkipLine, StoredInv
<1>4. CASE PutNode \/ PutEdge
  BY <1>4, ScanKeepsStored
<1>5. CASE FinishNodes
  <2>1. PICK failed \in BOOLEAN : FinalFlush(batch, failed, "edges")
    BY <1>5 DEF FinishNodes
  <2>2. UNCHANGED <<argVars, ghostVars, readErr>> /\ outcome = "none" /\ outcome' # "success"
    BY <1>5, <2>1, FinalFlushFlow DEF FinishNodes, FlowInv
  <2>3. Written' \in {Written, View}
    BY <2>1, FinalFlushView DEF TypeOK, Written
  <2>4. \A cf \in Families : DOMAIN Written'[cf] \subseteq DOMAIN Written[cf]
    BY <2>3, ViewInWritten
  <2> QED
    BY <2>2, <2>4, OnlyRowsStay DEF StoredInv
<1>6. CASE FinishEdges
  <2> DEFINE fat == FatPuts(Unwritten)
  <2>1. PICK failed \in BOOLEAN : FinalFlush(Layer(fat, batch), failed, "save")
    BY <1>6 DEF FinishEdges
  <2>2. UNCHANGED <<argVars, ghostVars, readErr>> /\ outcome = "none" /\ outcome' # "success"
    BY <1>6, <2>1, FinalFlushFlow DEF FinishEdges, FlowInv
  <2>3. Written' \in {Layer(fat, Written), View}
    BY <2>1, FinalFlushView, LayerAssoc DEF TypeOK, Written
  <2>4. DOMAIN fat["nodes"] = {} /\ DOMAIN fat["edges"] = {}
    BY DEF FatPuts, Nothing, EmptyMap, Families
  <2> HIDE DEF fat
  <2>5. \/ Written' = Layer(fat, Written)
        \/ \A cf \in Families : DOMAIN Written'[cf] \subseteq DOMAIN Written[cf]
    BY <2>3, ViewInWritten
  <2> QED
    BY <2>2, <2>4, <2>5, OnlyRowsStay DEF StoredInv
<1>7. CASE SaveTruncate \/ SaveWrite \/ SaveFails
  <2>1. /\ UNCHANGED <<argVars, ghostVars, readErr, batch, storeVars>> /\ pc # "idle"
    BY <1>7 DEF SaveTruncate, SaveWrite, SaveFails
  <2> QED
    BY <1>1, <2>1 DEF StoredInv, RefInv
<1>8. CASE CloseStore \/ CloseUnflushed \/ Crash
  <2>1. PICK kept, how : Leave(kept, how)
    BY <1>8 DEF CloseStore, CloseUnflushed, Crash
  <2>2. /\ UNCHANGED <<argVars, readErr, ingests, outcome>> /\ Vanish(kept) /\ batch' = Nothing
    BY <2>1 DEF Leave
  <2>3. \A cf \in Families : DOMAIN Written'[cf] \subseteq DOMAIN Written[cf]
    <3>1. Written' = View'
      BY <2>2, ViewIsBundle, LayerIsBundle, LayerNothing DEF Written, View
    <3>2. \A cf \in Families : DOMAIN View'[cf] \subseteq DOMAIN View[cf]
      BY <2>2 DEF Vanish, View, Layer, Overlay, Nothing, EmptyMap
    <3> QED
      BY <3>1, <3>2, ViewInWritten
  <2> QED
    BY <2>2, <2>3, OnlyRowsStay DEF StoredInv
<1>9. CASE BackgroundFlush
  <2>1. View' = View
    BY <1>9, FlushView DEF BackgroundFlush, TypeOK
  <2>2. UNCHANGED <<argVars, readErr, ghostVars, outcome, batch>>
    BY <1>9 DEF BackgroundFlush
  <2> QED
    BY <2>1, <2>2 DEF StoredInv, Written
<1>10. CASE UNCHANGED vars
  <2>1. UNCHANGED <<argVars, readErr, ghostVars, outcome, batch, storeVars>>
    BY <1>10 DEF vars
  <2> QED
    BY <1>1, <2>1 DEF StoredInv
<1> QED
  BY <1>2, <1>3, <1>4, <1>5, <1>6, <1>7, <1>8, <1>9, <1>10 DEF Next, Process

\* A function that tells its arguments apart has as many values as arguments.
LEMMA CountDistinct ==
  ASSUME NEW R, IsFiniteSet(R), NEW g, DOMAIN g = R, IsMap(g),
         \A i, j \in R : g[i] = g[j] => i = j,
         NEW T, \A t : t \in T <=> \E i \in R : t = g[i]
  PROVE  IsFiniteSet(T) /\ Cardinality(T) = Cardinality(R)
<1>1. g \in [R -> T]
  BY DEF IsMap
<1>2. \A t \in T : \E i \in R : g[i] = t
  OBVIOUS
<1>3. g \in Bijection(R, T)
  BY <1>1, <1>2 DEF Bijection, Injection, Surjection, IsInjective
<1>4. ExistsBijection(R, T)
  BY <1>3 DEF ExistsBijection
<1> QED
  BY <1>4, FS_Bijection

\* No two accepted rows of valid files that both readers read alike have the
\* same id.
LEMMA DistinctIds ==
  ASSUME NEW nodes \in File, NEW edges \in File, ReadAlike(nodes), ReadAlike(edges),
         ValidFiles(nodes, edges)
  PROVE  /\ \A i, j \in NodeRows(nodes) : RecordAt(nodes, i).id = RecordAt(nodes, j).id => i = j
         /\ \A i, j \in EdgeRows(edges) :
              EdgeId(RecordAt(edges, i)) = EdgeId(RecordAt(edges, j)) => i = j
<1>1. ValidNodes(nodes) /\ ValidEdges(edges, NodeIds(nodes))
  BY DEF ValidFiles
<1>2. ASSUME NEW i \in NodeRows(nodes), NEW j \in NodeRows(nodes),
             RecordAt(nodes, i).id = RecordAt(nodes, j).id
      PROVE  i = j
  <2>1. /\ i \in ValRows(nodes) /\ j \in ValRows(nodes)
        /\ NodeIdAt(nodes, i) = NodeIdAt(nodes, j)
    BY <1>1, <1>2, AcceptedNodeIsValid
  <2>2. ~(j < i) /\ ~(i < j)
    BY <1>1, <2>1 DEF ValidNodes, ValidNodeLine, ValRows
  <2>3. i \in Nat /\ j \in Nat
    BY RowNumbers
  <2> QED
    BY <2>2, <2>3
<1>3. ASSUME NEW i \in EdgeRows(edges), NEW j \in EdgeRows(edges),
             EdgeId(RecordAt(edges, i)) = EdgeId(RecordAt(edges, j))
      PROVE  i = j
  <2>1. /\ i \in ValRows(edges) /\ j \in ValRows(edges)
        /\ RecordAt(edges, i).id = EdgeFieldAt(edges, i, "@id") /\ RecordAt(edges, i).id # ""
        /\ RecordAt(edges, j).id = EdgeFieldAt(edges, j, "@id") /\ RecordAt(edges, j).id # ""
    BY <1>1, AcceptedEdgeIsValid
  <2>2. EdgeFieldAt(edges, i, "@id") = EdgeFieldAt(edges, j, "@id")
    BY <1>3, <2>1 DEF EdgeId
  <2>3. ~(j < i) /\ ~(i < j)
    BY <1>1, <2>1, <2>2 DEF ValidEdges, ValidEdgeLine, ValRows
  <2>4. i \in Nat /\ j \in Nat
    BY RowNumbers
  <2> QED
    BY <2>3, <2>4
<1> QED
  BY <1>2, <1>3

\* What a first success leaves on disk are the records of the rows, no more.
LEMMA StoredIds ==
  ASSUME TypeOK, FlowInv, RowsInv, StoredInv, Succeeded, ingests <= 1
  PROVE  /\ DOMAIN sst["nodes"] = NodeIdsOf(nodesFile)
         /\ DOMAIN sst["edges"] = EdgeIdsOf(edgesFile)
<1>1. ~readErr
  BY DEF FlowInv, Succeeded
<1>2. \A cf \in Families : DOMAIN sst[cf] \subseteq DOMAIN Written[cf]
  <2>1. \A cf \in Families : DOMAIN sst[cf] \subseteq DOMAIN View[cf]
    BY LayerKeeps DEF View
  <2> QED
    BY <2>1, ViewInWritten
<1>3. OnlyRows(nodesFile, edgesFile, Written)
  BY <1>1 DEF StoredInv
<1>4. HoldsEntries(sst)
  BY HoldsFiles DEF RowsInv
<1>5. ASSUME NEW i \in NodeRows(nodesFile)
      PROVE  RecordAt(nodesFile, i).id \in DOMAIN sst["nodes"]
  <2>1. DOMAIN NodePuts(NodeAt(i))["nodes"] = {NodeAt(i).id} /\ "nodes" \in Families
    BY NodePutsParts DEF Families
  <2> QED
    BY <1>4, <2>1 DEF HoldsEntries, NodeAt
<1>6. ASSUME NEW i \in EdgeRows(edgesFile)
      PROVE  EdgeId(RecordAt(edgesFile, i)) \in DOMAIN sst["edges"]
  <2>1. DOMAIN EdgePuts(EdgeAt(i))["edges"] = {EdgeId(EdgeAt(i))} /\ "edges" \in Families
    BY EdgePutsParts DEF Families
  <2> QED
    BY <1>4, <2>1 DEF HoldsEntries, EdgeAt
<1>7. "nodes" \in Families /\ "edges" \in Families
  BY DEF Families
<1> QED
  BY <1>2, <1>3, <1>5, <1>6, <1>7 DEF OnlyRows, NodeIdsOf, EdgeIdsOf

\* The validator rejects a second row with an id (validator.go), so for files
\* both readers read alike the counts in metadata.json, which count rows, are
\* the numbers of records, which are keyed by id.
THEOREM CountsAlwaysMatch == Spec => []CountsMatchStore
<1> DEFINE Inv == TypeOK /\ FlowInv /\ RowsInv /\ RefInv /\ MetaInv /\ StoredInv
<1>1. Inv => CountsMatchStore
  <2> SUFFICES ASSUME Inv, Succeeded, ingests = 1, ~yolo, Alike
               PROVE  /\ metaFile.data.nodeCount = Cardinality(DOMAIN sst["nodes"])
                      /\ metaFile.data.edgeCount = Cardinality(DOMAIN sst["edges"])
    BY DEF CountsMatchStore
  <2>1. /\ nodesFile \in File /\ edgesFile \in File
        /\ ReadAlike(nodesFile) /\ ReadAlike(edgesFile)
        /\ ValidFiles(nodesFile, edgesFile)
    BY FileTypes DEF Alike, StoredInv, Succeeded
  <2>2. /\ metaFile.data.nodeCount = Cardinality(NodeRows(nodesFile))
        /\ metaFile.data.edgeCount = Cardinality(EdgeRows(edgesFile))
    BY DEF MetaInv, Succeeded, Exact, NodesCounted, EdgesCounted
  <2>3. IsFiniteSet(NodeRows(nodesFile)) /\ IsFiniteSet(EdgeRows(edgesFile))
    BY <2>1, RowsFinite
  <2>4. Cardinality(NodeIdsOf(nodesFile)) = Cardinality(NodeRows(nodesFile))
    <3> DEFINE g == [i \in NodeRows(nodesFile) |-> RecordAt(nodesFile, i).id]
    <3>1. \A i, j \in NodeRows(nodesFile) : g[i] = g[j] => i = j
      BY <2>1, DistinctIds
    <3>2. IsMap(g) /\ DOMAIN g = NodeRows(nodesFile)
      BY DEF IsMap
    <3>3. \A t : t \in NodeIdsOf(nodesFile) <=> \E i \in NodeRows(nodesFile) : t = g[i]
      BY DEF NodeIdsOf
    <3> HIDE DEF g
    <3> QED
      BY <2>3, <3>1, <3>2, <3>3, CountDistinct
  <2>5. Cardinality(EdgeIdsOf(edgesFile)) = Cardinality(EdgeRows(edgesFile))
    <3> DEFINE g == [i \in EdgeRows(edgesFile) |-> EdgeId(RecordAt(edgesFile, i))]
    <3>1. \A i, j \in EdgeRows(edgesFile) : g[i] = g[j] => i = j
      BY <2>1, DistinctIds
    <3>2. IsMap(g) /\ DOMAIN g = EdgeRows(edgesFile)
      BY DEF IsMap
    <3>3. \A t : t \in EdgeIdsOf(edgesFile) <=> \E i \in EdgeRows(edgesFile) : t = g[i]
      BY DEF EdgeIdsOf
    <3> HIDE DEF g
    <3> QED
      BY <2>3, <3>1, <3>2, <3>3, CountDistinct
  <2>6. /\ DOMAIN sst["nodes"] = NodeIdsOf(nodesFile)
        /\ DOMAIN sst["edges"] = EdgeIdsOf(edgesFile)
    BY StoredIds
  <2> QED
    BY <2>2, <2>4, <2>5, <2>6
<1>2. Spec => []Inv
  <2>1. Init => Inv
    BY TypeInit, FlowInit, RowsInit, RefInit, CountInit, StoredInit
  <2>2. Inv /\ [Next]_vars => Inv'
    BY TypeNext, FlowNext, RowsNext, RefNext, CountNext, StoredNext
  <2> QED
    BY <2>1, <2>2, PTL DEF Spec
<1> QED
  BY <1>1, <1>2, PTL

-----------------------------------------------------------------------------
(* The endpoints in the blobs.                                             *)

LastRows(file) ==
  {i \in NodeRows(file) : \A j \in NodeRows(file) :
     j > i => RecordAt(file, j).id # RecordAt(file, i).id}
EndpointIn(file, id) ==
  {NodeValue(RecordAt(file, i)) : i \in {j \in LastRows(file) : RecordAt(file, j).id = id}}
CopyOf(nodes, edges, i) ==
  [edge |-> EdgeValue(RecordAt(edges, i)),
   src |-> EndpointIn(nodes, RecordAt(edges, i).src),
   dst |-> EndpointIn(nodes, RecordAt(edges, i).dst)]

\* A cache of the rows R of a file, the later over the earlier.
CachedRows(file, c, R) ==
  /\ DOMAIN c = {RecordAt(file, i).id : i \in R}
  /\ \A i \in R :
       (\A j \in R : i < j => RecordAt(file, j).id # RecordAt(file, i).id)
         => c[RecordAt(file, i).id] = NodeValue(RecordAt(file, i))

\* The nodes loop caches the rows it has passed, and only those; the edges
\* loop finds them all.
CachedInv ==
  /\ pc = "nodes" /\ ~readErr =>
       CachedRows(nodesFile, cache, Upto(NodeRows(nodesFile), pos))
  /\ pc = "edges" => CachedRows(nodesFile, cache, NodeRows(nodesFile))

\* One more row.
LEMMA CacheGrows ==
  ASSUME NEW file, NEW c, NEW d, NEW p \in NodeRows(file), NEW R, R \subseteq NodeRows(file),
         \A i \in R : i < p,
         CachedRows(file, c, R),
         d = [k \in DOMAIN c \cup {RecordAt(file, p).id} |->
                IF k = RecordAt(file, p).id THEN NodeValue(RecordAt(file, p)) ELSE c[k]]
  PROVE  CachedRows(file, d, R \cup {p})
<1> DEFINE S == R \cup {p}
           id(i) == RecordAt(file, i).id
<1>1. DOMAIN d = {id(i) : i \in S}
  BY DEF CachedRows
<1>2. ASSUME NEW i \in S, \A j \in S : i < j => id(j) # id(i)
      PROVE  d[id(i)] = NodeValue(RecordAt(file, i))
  <2>1. CASE i = p
    BY <2>1
  <2>2. CASE i # p
    <3>1. i \in R /\ id(p) # id(i)
      BY <1>2, <2>2
    <3>2. \A j \in R : i < j => id(j) # id(i)
      BY <1>2
    <3>3. c[id(i)] = NodeValue(RecordAt(file, i)) /\ id(i) \in DOMAIN c
      BY <3>1, <3>2 DEF CachedRows
    <3> QED
      BY <3>1, <3>3
  <2> QED
    BY <2>1, <2>2
<1> QED
  BY <1>1, <1>2 DEF CachedRows

\* What the cache answers about an id is the last row of the file with it, and
\* nothing where there is none.
LEMMA CacheAnswers ==
  ASSUME NEW id, nodesFile \in File, CachedRows(nodesFile, cache, NodeRows(nodesFile))
  PROVE  Get(id) = EndpointIn(nodesFile, id)
<1> DEFINE same == {i \in NodeRows(nodesFile) : RecordAt(nodesFile, i).id = id}
<1>1. NodeRows(nodesFile) \subseteq 1..Len(nodesFile) /\ Len(nodesFile) \in Nat
  BY RowPositions DEF File
<1>2. ASSUME NEW i \in LastRows(nodesFile), RecordAt(nodesFile, i).id = id
      PROVE  id \in DOMAIN cache /\ cache[id] = NodeValue(RecordAt(nodesFile, i))
  <2>1. i \in NodeRows(nodesFile) /\ \A j \in NodeRows(nodesFile) :
          i < j => RecordAt(nodesFile, j).id # RecordAt(nodesFile, i).id
    BY <1>1 DEF LastRows
  <2> QED
    BY <1>2, <2>1 DEF CachedRows
<1>3. CASE id \in DOMAIN cache
  <2>1. same # {} /\ same \subseteq 1..Len(nodesFile)
    BY <1>1, <1>3 DEF CachedRows
  <2>2. Max(same) \in same /\ \A j \in same : j <= Max(same)
    BY <1>1, <2>1, ExtremeColumns
  <2>3. Max(same) \in LastRows(nodesFile) /\ RecordAt(nodesFile, Max(same)).id = id
    <3>1. ASSUME NEW j \in NodeRows(nodesFile), j > Max(same) PROVE j \notin same
      <4>1. j \in Nat /\ Max(same) \in Nat
        BY <1>1, <2>1, <2>2
      <4> QED
        BY <2>2, <3>1, <4>1
    <3>2. Max(same) \in NodeRows(nodesFile) /\ RecordAt(nodesFile, Max(same)).id = id
      BY <2>2
    <3> QED
      BY <3>1, <3>2 DEF LastRows
  <2> HIDE DEF same
  <2>4. EndpointIn(nodesFile, id) = {cache[id]}
    BY <1>2, <2>3 DEF EndpointIn
  <2> QED
    BY <1>3, <2>4 DEF Get
<1>4. CASE id \notin DOMAIN cache
  <2>1. EndpointIn(nodesFile, id) = {}
    BY <1>2, <1>4 DEF EndpointIn
  <2> QED
    BY <1>4, <2>1 DEF Get
<1> QED
  BY <1>3, <1>4

\* Nothing is cached in a new database.
LEMMA CachedInit == Init => CachedInv
BY DEF Init, CachedInv

\* Every step keeps the cache that of the rows passed.
LEMMA CachedNext == TypeOK /\ RowsInv /\ CachedInv /\ [Next]_vars => CachedInv'
<1> SUFFICES ASSUME TypeOK, RowsInv, CachedInv, [Next]_vars PROVE CachedInv'
  OBVIOUS
<1> USE DEF argVars, loopVars
<1> DEFINE nodes == NodeRows(nodesFile)
<1>1. CASE pc' \notin {"nodes", "edges"}
  BY <1>1 DEF CachedInv
<1>2. CASE UNCHANGED <<nodesFile, pc, pos, readErr, cache>>
  BY <1>2 DEF CachedInv
<1>3. CASE RejectIngest \/ OpenFails
  <2>1. pc' = "idle"
    BY <1>3 DEF RejectIngest, OpenFails, Invoke, MayStart
  <2> QED
    BY <1>1, <2>1
<1>4. CASE BeginIngest
  <2>1. pc' = "nodes" /\ pos' = 1 /\ cache' = NewNodeCache
    BY <1>4 DEF BeginIngest, Invoke, MayStart, RowsInv
  <2>2. Upto(NodeRows(nodesFile'), 1) = {}
    BY UptoGrows, RowNumbers
  <2>3. CachedRows(nodesFile', cache', {})
    BY <2>1 DEF CachedRows, NewNodeCache
  <2> QED
    BY <2>1, <2>2, <2>3 DEF CachedInv
<1>5. CASE ReadHeader \/ SkipLine
  <2>1. AtLine /\ ~readErr /\ pos' = pos + 1 /\ UNCHANGED <<nodesFile, pc, readErr, cache>>
    BY <1>5 DEF ReadHeader, SkipLine, HasLine, AtLine
  <2>2. ASSUME pc = "nodes"
        PROVE  Upto(nodes, pos + 1) = Upto(nodes, pos)
    <3>1. Scanned = nodesFile /\ header = IngestHeader(Scanned, pos) /\ pos \in Nat
      BY <2>1, <2>2 DEF Scanned, RowsInv, TypeOK
    <3>2. IsIngestHeader(Scanned[pos]) \/ ~IsNodeRow(Scanned[pos])
      BY <1>5, <2>2 DEF ReadHeader, SkipLine
    <3>3. pos \notin nodes
      BY <2>1, <3>1, <3>2, LineAt, HeaderNoRow
    <3> QED
      BY <3>1, <3>3, UptoGrows, RowNumbers
  <2> QED
    BY <2>1, <2>2 DEF CachedInv
<1>6. CASE PutNode
  <2>1. PICK line \in Texts, size \in RecordBytes :
          /\ IsNodeRow(line) /\ readErr' = (line # Scanned[pos])
          /\ Put(ParseLine(header, line).id, NodeValue(ParseLine(header, line)))
          /\ Commit(NodePuts(ParseLine(header, line)), size)
    BY <1>6 DEF PutNode
  <2>2. pc = "nodes" /\ AtLine /\ ~readErr /\ Scanned = nodesFile /\ UNCHANGED nodesFile
    BY <1>6 DEF PutNode, AtLine, Scanned
  <2>3. CASE pc' = pc /\ pos' = pos + 1
    <3>1. ASSUME ~readErr'
          PROVE  CachedRows(nodesFile, cache', Upto(nodes, pos + 1))
      <4>1. line = nodesFile[pos] /\ header = IngestHeader(nodesFile, pos)
        BY <2>1, <2>2, <3>1 DEF RowsInv
      <4>2. pos \in nodes /\ ParseLine(header, line) = RecordAt(nodesFile, pos)
        BY <2>1, <2>2, <4>1, LineAt
      <4>3. Upto(nodes, pos + 1) = Upto(nodes, pos) \cup {pos}
        BY <4>2, UptoGrows, RowNumbers
      <4>4. Upto(nodes, pos) \subseteq nodes /\ \A i \in Upto(nodes, pos) : i < pos
        BY DEF Upto
      <4>5. CachedRows(nodesFile, cache, Upto(nodes, pos))
        BY <2>2 DEF CachedInv
      <4> HIDE DEF nodes
      <4>6. CachedRows(nodesFile, cache', Upto(nodes, pos) \cup {pos})
        BY <2>1, <4>2, <4>4, <4>5, CacheGrows DEF Put, nodes
      <4> QED
        BY <4>3, <4>6
    <3> QED
      BY <2>2, <2>3, <3>1 DEF CachedInv
  <2> QED
    BY <1>1, <2>1, <2>3, CommitFlow
<1>7. CASE PutEdge
  <2>1. PICK puts, size : Commit(puts, size)
    BY <1>7 DEF PutEdge, AddBlob
  <2>2. pc = "edges" /\ UNCHANGED <<nodesFile, cache>>
    BY <1>7 DEF PutEdge
  <2>3. pc' \in {"edges", "closing"}
    BY <2>1, <2>2, CommitFlow
  <2> QED
    BY <2>2, <2>3 DEF CachedInv
<1>8. CASE FinishNodes
  <2>1. PICK failed \in BOOLEAN : ScanEnds(failed) /\ FinalFlush(batch, failed, "edges")
    BY <1>8 DEF FinishNodes
  <2>2. pc = "nodes" /\ UNCHANGED <<nodesFile, cache>>
    BY <1>8 DEF FinishNodes
  <2>3. CASE pc' = "closing"
    BY <1>1, <2>3
  <2>4. CASE ~failed /\ pc' = "edges"
    <3>1. pos > Len(nodesFile) /\ ~readErr
      BY <2>1, <2>2, <2>4 DEF ScanEnds, Scanned
    <3>2. Upto(nodes, pos) = nodes
      BY <3>1, UptoAll, FileTypes DEF TypeOK
    <3>3. CachedRows(nodesFile, cache, nodes)
      BY <2>2, <3>1, <3>2 DEF CachedInv
    <3>4. CachedRows(nodesFile', cache', NodeRows(nodesFile'))
      BY <2>2, <3>3
    <3> QED
      BY <2>4, <3>4 DEF CachedInv
  <2> QED
    BY <2>1, <2>3, <2>4, FinalFlushFlow
<1>9. CASE FinishEdges
  <2>1. PICK failed \in BOOLEAN : FinalFlush(Layer(FatPuts(Unwritten), batch), failed, "save")
    BY <1>9 DEF FinishEdges
  <2> QED
    BY <1>1, <2>1, FinalFlushFlow
<1>10. CASE SaveTruncate \/ SaveWrite \/ SaveFails
  BY <1>1, <1>10 DEF SaveTruncate, SaveWrite, SaveFails
<1>11. CASE CloseStore \/ CloseUnflushed \/ Crash
  BY <1>1, <1>11 DEF CloseStore, CloseUnflushed, Crash, Leave
<1>12. CASE BackgroundFlush \/ UNCHANGED vars
  BY <1>2, <1>12 DEF BackgroundFlush, vars
<1> QED
  BY <1>3, <1>4, <1>5, <1>6, <1>7, <1>8, <1>9, <1>10, <1>11, <1>12 DEF Next, Process

-----------------------------------------------------------------------------
(* The label index.                                                        *)

\* A fat batch of the label, a pending list of it, holds the copy.
Placed(fat, label, copy) ==
  \E k \in DOMAIN fat : k[1] = label /\ \E j \in 1..Len(fat[k]) : fat[k][j] = copy
Listed(lists, label, copy) ==
  label \in Tokens /\ \E j \in 1..Len(lists[label]) : lists[label][j] = copy

Denormalized(nodes, edges, fat, lists, R) ==
  \A i \in R : \/ Placed(fat, RecordAt(edges, i).label, CopyOf(nodes, edges, i))
               \/ Listed(lists, RecordAt(edges, i).label, CopyOf(nodes, edges, i))

\* One blob, written or pending, for each row.
Tally(fat, lists, R) ==
  /\ IsFiniteSet(BlobSlots(fat)) /\ IsFiniteSet(BlobSlots(lists))
  /\ Cardinality(BlobSlots(fat)) + Cardinality(BlobSlots(lists)) = Cardinality(R)

LabelIndex(nodes, edges, runs, fat, lists, R) ==
  /\ Denormalized(nodes, edges, fat, lists, R)
  /\ runs <= 1 => Tally(fat, lists, R)

\* Each edge row that was passed has its blob in the index or pending, and in a
\* first ingestion there are no others; at the end none is pending.
LabelInv ==
  /\ pc = "nodes" /\ ingests <= 1 => Written["label"] = EmptyMap
  /\ pc = "edges" /\ ~readErr =>
       LabelIndex(nodesFile, edgesFile, ingests, Written["label"], pending,
                  Upto(EdgeRows(edgesFile), pos))
  /\ Saving =>
       LabelIndex(nodesFile, edgesFile, ingests, View["label"], NoPending, EdgeRows(edgesFile))
  /\ Succeeded =>
       LabelIndex(nodesFile, edgesFile, ingests, sst["label"], NoPending, EdgeRows(edgesFile))

\* The slots of one list.
LEMMA SlotsOfOne ==
  ASSUME NEW key, NEW s, Len(s) \in Nat
  PROVE  /\ IsFiniteSet({key} \X (1..Len(s)))
         /\ Cardinality({key} \X (1..Len(s))) = Len(s)
<1> DEFINE f == [j \in 1..Len(s) |-> <<key, j>>]
<1>1. IsFiniteSet(1..Len(s)) /\ Cardinality(1..Len(s)) = Len(s)
  <2> DEFINE n == Len(s)
  <2>1. n \in Nat
    OBVIOUS
  <2> HIDE DEF n
  <2>2. IsFiniteSet(1..n) /\ Cardinality(1..n) = IF 1 > n THEN 0 ELSE n - 1 + 1
    BY <2>1, FS_Interval
  <2> QED
    BY <2>1, <2>2 DEF n
<1>2. IsMap(f) /\ DOMAIN f = 1..Len(s) /\ \A i, j \in 1..Len(s) : f[i] = f[j] => i = j
  BY DEF IsMap
<1>3. \A t : t \in {key} \X (1..Len(s)) <=> \E j \in 1..Len(s) : t = f[j]
  OBVIOUS
<1> DEFINE T == {key} \X (1..Len(s))
           J == 1..Len(s)
<1> HIDE DEF f, T, J
<1>4. IsFiniteSet(T) /\ Cardinality(T) = Cardinality(J)
  BY <1>1, <1>2, <1>3, CountDistinct DEF T, J
<1> QED
  BY <1>1, <1>4 DEF T, J

\* Slots of disjoint sets of keys add up.
LEMMA SlotsAdd ==
  ASSUME NEW new, NEW fat, \A k \in DOMAIN new : k \notin DOMAIN fat,
         IsFiniteSet(BlobSlots(new)), IsFiniteSet(BlobSlots(fat))
  PROVE  /\ IsFiniteSet(BlobSlots(Overlay(new, fat)))
         /\ Cardinality(BlobSlots(Overlay(new, fat)))
              = Cardinality(BlobSlots(new)) + Cardinality(BlobSlots(fat))
<1> DEFINE all == Overlay(new, fat)
<1>1. /\ DOMAIN all = DOMAIN new \cup DOMAIN fat
      /\ \A k \in DOMAIN new : all[k] = new[k]
      /\ \A k \in DOMAIN fat : all[k] = fat[k]
  BY DEF Overlay
<1> HIDE DEF all
<1>2. BlobSlots(all) = BlobSlots(new) \cup BlobSlots(fat)
  BY <1>1 DEF BlobSlots
<1>3. BlobSlots(new) \cap BlobSlots(fat) = {}
  BY DEF BlobSlots
<1> HIDE DEF BlobSlots
<1>4. Cardinality(BlobSlots(new) \cup BlobSlots(fat))
        = Cardinality(BlobSlots(new)) + Cardinality(BlobSlots(fat)) - Cardinality({})
  BY <1>3, FS_Union
<1>5. IsFiniteSet(BlobSlots(new) \cup BlobSlots(fat))
  BY FS_Union
<1>6. Cardinality(BlobSlots(new)) \in Nat /\ Cardinality(BlobSlots(fat)) \in Nat
  BY FS_CardinalityType
<1> QED
  BY <1>2, <1>4, <1>5, <1>6, FS_EmptySet DEF all

OtherSlots(lists, l) == {x \in BlobSlots(lists) : x[1] # l}

\* The slots of lists, when that of l is s: those of the others, and its own.
LEMMA SlotsOfLists ==
  ASSUME NEW lists, lists = [k \in Tokens |-> lists[k]], NEW l \in Tokens, NEW s, Len(s) \in Nat,
         IsFiniteSet(OtherSlots(lists, l))
  PROVE  /\ IsFiniteSet(BlobSlots([lists EXCEPT ![l] = s]))
         /\ Cardinality(BlobSlots([lists EXCEPT ![l] = s]))
              = Cardinality(OtherSlots(lists, l)) + Len(s)
<1> DEFINE others == OtherSlots(lists, l)
           own == {l} \X (1..Len(s))
           new == [lists EXCEPT ![l] = s]
<1>1. /\ DOMAIN lists = Tokens /\ DOMAIN new = Tokens /\ new[l] = s
      /\ \A k \in Tokens : k # l => new[k] = lists[k]
  OBVIOUS
<1> HIDE DEF new
<1>2. BlobSlots(new) = others \cup own
  <2>1. ASSUME NEW x \in BlobSlots(new) PROVE x \in others \cup own
    BY <1>1, <2>1 DEF BlobSlots, OtherSlots
  <2>2. ASSUME NEW x \in others \cup own PROVE x \in BlobSlots(new)
    BY <1>1, <2>2 DEF BlobSlots, OtherSlots
  <2> QED
    BY <2>1, <2>2
<1>3. others \cap own = {}
  BY DEF OtherSlots
<1>4. /\ IsFiniteSet(others \cup own)
      /\ Cardinality(others \cup own) = Cardinality(others) + Len(s)
  <2>1. IsFiniteSet(own) /\ Cardinality(own) = Len(s)
    BY SlotsOfOne
  <2> HIDE DEF others, own
  <2>2. IsFiniteSet(others \cup own) /\ Cardinality(others \cup own)
          = Cardinality(others) + Cardinality(own) - Cardinality({})
    BY <1>3, <2>1, FS_Union DEF others
  <2>3. Cardinality(others) \in Nat
    BY FS_CardinalityType DEF others
  <2> QED
    BY <2>1, <2>2, <2>3, FS_EmptySet
<1> QED
  BY <1>2, <1>4 DEF new

\* Empty lists have no slot.
LEMMA NoSlots ==
  /\ BlobSlots(NoPending) = {}
  /\ BlobSlots(EmptyMap) = {}
<1>1. \A l \in Tokens : NoPending[l] = <<>> /\ 1..Len(NoPending[l]) = {}
  BY DEF NoPending
<1>2. DOMAIN NoPending = Tokens
  BY DEF NoPending
<1>3. BlobSlots(NoPending) = {}
  BY <1>1, <1>2 DEF BlobSlots
<1>4. DOMAIN EmptyMap = {}
  BY DEF EmptyMap
<1> QED
  BY <1>3, <1>4 DEF BlobSlots

\* One more row: its copy joins the list of its label, or is written with it.
LEMMA OneMoreListed ==
  ASSUME NEW nodes, NEW edges, NEW runs, NEW fat, NEW lists, NEW R, NEW p, p \notin R,
         IsFiniteSet(R), lists = [k \in Tokens |-> lists[k]],
         NEW l \in Tokens, l = RecordAt(edges, p).label, IsList(lists[l]),
         LabelIndex(nodes, edges, runs, fat, lists, R),
         NEW blobs, blobs = Append(lists[l], CopyOf(nodes, edges, p))
  PROVE  LabelIndex(nodes, edges, runs, fat, [lists EXCEPT ![l] = blobs], R \cup {p})
<1> DEFINE new == [lists EXCEPT ![l] = blobs]
           n == Len(lists[l])
           label(i) == RecordAt(edges, i).label
           copy(i) == CopyOf(nodes, edges, i)
<1>1. /\ new[l] = blobs /\ \A k \in Tokens : k # l => new[k] = lists[k]
      /\ n \in Nat /\ Len(blobs) = n + 1 /\ blobs[n + 1] = copy(p)
      /\ \A j \in 1..n : blobs[j] = lists[l][j]
  BY AppendMembers DEF IsList
<1>2. Denormalized(nodes, edges, fat, new, R \cup {p})
  <2>1. Listed(new, label(p), copy(p))
    BY <1>1 DEF Listed
  <2>2. ASSUME NEW i \in R, Listed(lists, label(i), copy(i))
        PROVE  Listed(new, label(i), copy(i))
    BY <1>1, <2>2 DEF Listed
  <2> HIDE DEF new, copy, label
  <2> QED
    BY <2>1, <2>2 DEF LabelIndex, Denormalized, copy, label
<1>3. ASSUME runs <= 1 PROVE Tally(fat, new, R \cup {p})
  <2> DEFINE others == OtherSlots(lists, l)
  <2>1. Tally(fat, lists, R)
    BY <1>3 DEF LabelIndex
  <2>2. IsFiniteSet(others)
    BY <2>1, FS_Subset DEF Tally, OtherSlots
  <2>3. [lists EXCEPT ![l] = lists[l]] = lists
    OBVIOUS
  <2>4. Cardinality(BlobSlots(lists)) = Cardinality(others) + n
    BY <1>1, <2>2, <2>3, SlotsOfLists
  <2>5. /\ IsFiniteSet(BlobSlots(new))
        /\ Cardinality(BlobSlots(new)) = Cardinality(others) + (n + 1)
    <3>1. Len(blobs) \in Nat
      BY <1>1
    <3> QED
      BY <1>1, <2>2, <3>1, SlotsOfLists
  <2>6. Cardinality(R \cup {p}) = Cardinality(R) + 1
    BY FS_AddElement
  <2> HIDE DEF others, new
  <2>7. /\ Cardinality(others) \in Nat /\ Cardinality(BlobSlots(fat)) \in Nat
        /\ Cardinality(R) \in Nat
    BY <2>1, <2>2, FS_CardinalityType DEF Tally
  <2> QED
    BY <1>1, <2>1, <2>4, <2>5, <2>6, <2>7 DEF Tally
<1> QED
  BY <1>2, <1>3 DEF LabelIndex

\* The list of a label becomes a fat batch, under a new key.
LEMMA ListWritten ==
  ASSUME NEW nodes, NEW edges, NEW runs, NEW fat, NEW lists, NEW R,
         lists = [k \in Tokens |-> lists[k]], NEW l \in Tokens, Len(lists[l]) \in Nat,
         LabelIndex(nodes, edges, runs, fat, lists, R),
         NEW u, <<l, u>> \notin DOMAIN fat
  PROVE  LabelIndex(nodes, edges, runs, Overlay([k \in {<<l, u>>} |-> lists[l]], fat),
                    [lists EXCEPT ![l] = <<>>], R)
<1> DEFINE key == <<l, u>>
           one == [k \in {key} |-> lists[l]]
           all == Overlay(one, fat)
           new == [lists EXCEPT ![l] = <<>>]
           n == Len(lists[l])
           label(i) == RecordAt(edges, i).label
           copy(i) == CopyOf(nodes, edges, i)
<1>1. /\ \A k \in Tokens : k # l => new[k] = lists[k]
      /\ key \in DOMAIN all /\ key[1] = l /\ all[key] = lists[l]
      /\ \A k \in DOMAIN fat : k \in DOMAIN all /\ all[k] = fat[k]
  BY DEF Overlay
<1>2. Denormalized(nodes, edges, all, new, R)
  <2>1. ASSUME NEW i \in R, Placed(fat, label(i), copy(i))
        PROVE  Placed(all, label(i), copy(i))
    BY <1>1, <2>1 DEF Placed
  <2>2. ASSUME NEW i \in R, Listed(lists, label(i), copy(i))
        PROVE  Placed(all, label(i), copy(i)) \/ Listed(new, label(i), copy(i))
    <3>1. CASE label(i) = l
      BY <1>1, <2>2, <3>1 DEF Placed, Listed
    <3>2. CASE label(i) # l
      BY <1>1, <2>2, <3>2 DEF Listed
    <3> QED
      BY <3>1, <3>2
  <2> HIDE DEF all, new, copy, label
  <2> QED
    BY <2>1, <2>2 DEF LabelIndex, Denormalized, copy, label
<1>3. ASSUME runs <= 1 PROVE Tally(all, new, R)
  <2> DEFINE others == OtherSlots(lists, l)
  <2>1. Tally(fat, lists, R)
    BY <1>3 DEF LabelIndex
  <2>2. IsFiniteSet(others)
    BY <2>1, FS_Subset DEF Tally, OtherSlots
  <2>3. [lists EXCEPT ![l] = lists[l]] = lists
    OBVIOUS
  <2>4. Cardinality(BlobSlots(lists)) = Cardinality(others) + n
    BY <2>2, <2>3, SlotsOfLists
  <2>5. /\ IsFiniteSet(BlobSlots(new))
        /\ Cardinality(BlobSlots(new)) = Cardinality(others) + 0
    <3> DEFINE s == <<>>
    <3>1. Len(s) = 0 /\ Len(s) \in Nat
      OBVIOUS
    <3> HIDE DEF s
    <3>2. /\ IsFiniteSet(BlobSlots([lists EXCEPT ![l] = s]))
          /\ Cardinality(BlobSlots([lists EXCEPT ![l] = s])) = Cardinality(others) + Len(s)
      BY <2>2, <3>1, SlotsOfLists
    <3> QED
      BY <3>1, <3>2 DEF s
  <2>6. /\ IsFiniteSet(BlobSlots(one))
        /\ Cardinality(BlobSlots(one)) = n
    <3>1. BlobSlots(one) = {key} \X (1..Len(lists[l]))
      BY DEF BlobSlots
    <3>2. /\ IsFiniteSet({key} \X (1..n))
          /\ Cardinality({key} \X (1..n)) = n
      BY SlotsOfOne
    <3> QED
      BY <3>1, <3>2
  <2>7. /\ IsFiniteSet(BlobSlots(all))
        /\ Cardinality(BlobSlots(all)) = n + Cardinality(BlobSlots(fat))
    <3>1. \A k \in DOMAIN one : k \notin DOMAIN fat
      OBVIOUS
    <3> HIDE DEF one
    <3> QED
      BY <2>1, <2>6, <3>1, SlotsAdd DEF Tally
  <2> HIDE DEF others, new, all, one, n
  <2>8. /\ Cardinality(others) \in Nat /\ Cardinality(BlobSlots(fat)) \in Nat
        /\ n \in Nat
    BY <2>1, <2>2, FS_CardinalityType DEF Tally, n
  <2> QED
    BY <2>1, <2>4, <2>5, <2>7, <2>8 DEF Tally
<1> QED
  BY <1>2, <1>3 DEF LabelIndex

\* All the lists become fat batches, under new keys.
LEMMA ListsWritten ==
  ASSUME NEW nodes, NEW edges, NEW runs, NEW fat, NEW lists, NEW R,
         lists = [k \in Tokens |-> lists[k]],
         LabelIndex(nodes, edges, runs, fat, lists, R),
         NEW u, NEW new,
         new = [k \in {l \in Tokens : lists[l] # <<>>} \X {u} |-> lists[k[1]]],
         \A k \in DOMAIN new : k \notin DOMAIN fat
  PROVE  LabelIndex(nodes, edges, runs, Overlay(new, fat), NoPending, R)
<1> DEFINE all == Overlay(new, fat)
           label(i) == RecordAt(edges, i).label
           copy(i) == CopyOf(nodes, edges, i)
<1>1. /\ \A k \in DOMAIN new : k \in DOMAIN all /\ all[k] = new[k]
      /\ \A k \in DOMAIN fat : k \in DOMAIN all /\ all[k] = fat[k]
  BY DEF Overlay
<1> HIDE DEF all
<1>2. \A l \in Tokens : lists[l] # <<>> =>
        <<l, u>> \in DOMAIN new /\ new[<<l, u>>] = lists[l] /\ <<l, u>>[1] = l
  OBVIOUS
<1>3. Denormalized(nodes, edges, all, NoPending, R)
  <2>1. ASSUME NEW i \in R, Placed(fat, label(i), copy(i))
        PROVE  Placed(all, label(i), copy(i))
    BY <1>1, <2>1 DEF Placed
  <2>2. ASSUME NEW i \in R, Listed(lists, label(i), copy(i))
        PROVE  Placed(all, label(i), copy(i))
    <3>1. label(i) \in Tokens /\ \E j \in 1..Len(lists[label(i)]) : lists[label(i)][j] = copy(i)
      BY <2>2 DEF Listed
    <3>2. lists[label(i)] # <<>>
      BY <3>1
    <3> DEFINE k == <<label(i), u>>
    <3>3. k \in DOMAIN all /\ k[1] = label(i) /\ all[k] = lists[label(i)]
      BY <1>1, <1>2, <3>1, <3>2
    <3> HIDE DEF k
    <3> QED
      BY <3>1, <3>3 DEF Placed
  <2> HIDE DEF copy, label
  <2> QED
    BY <2>1, <2>2 DEF LabelIndex, Denormalized, copy, label
<1>4. ASSUME runs <= 1 PROVE Tally(all, NoPending, R)
  <2> DEFINE slots == BlobSlots(lists)
             f == [x \in slots |-> <<<<x[1], u>>, x[2]>>]
  <2>1. Tally(fat, lists, R)
    BY <1>4 DEF LabelIndex
  <2>2. IsFiniteSet(slots)
    BY <2>1 DEF Tally
  <2>3. \A x \in slots : /\ x = <<x[1], x[2]>> /\ x[1] \in Tokens
                         /\ x[2] \in 1..Len(lists[x[1]]) /\ lists[x[1]] # <<>>
    BY DEF BlobSlots
  <2>4. \A y : y \in BlobSlots(new) <=> \E x \in slots : y = f[x]
    <3>1. ASSUME NEW y \in BlobSlots(new) PROVE \E x \in slots : y = f[x]
      <4>1. PICK k \in DOMAIN new : y \in {k} \X (1..Len(new[k]))
        BY <3>1 DEF BlobSlots
      <4>2. PICK l \in Tokens : k = <<l, u>> /\ new[k] = lists[l]
        BY <4>1
      <4>3. PICK j \in 1..Len(lists[l]) : y = <<<<l, u>>, j>>
        BY <4>1, <4>2
      <4>4. <<l, j>> \in slots
        BY <4>3 DEF BlobSlots
      <4> QED
        BY <4>3, <4>4
    <3>2. ASSUME NEW x \in slots PROVE f[x] \in BlobSlots(new)
      <4>1. /\ <<x[1], u>> \in DOMAIN new /\ new[<<x[1], u>>] = lists[x[1]]
            /\ x[2] \in 1..Len(lists[x[1]])
        BY <1>2, <2>3
      <4> QED
        BY <4>1 DEF BlobSlots
    <3> HIDE DEF slots, f
    <3> QED
      BY <3>1, <3>2
  <2>5. IsMap(f) /\ DOMAIN f = slots /\ \A x, y \in slots : f[x] = f[y] => x = y
    <3>1. \A x, y \in slots : f[x] = f[y] => x[1] = y[1] /\ x[2] = y[2]
      OBVIOUS
    <3> QED
      BY <2>3, <3>1 DEF IsMap
  <2> HIDE DEF f, slots
  <2>6. Cardinality(BlobSlots(new)) = Cardinality(slots)
    BY <2>2, <2>4, <2>5, CountDistinct
  <2>7. IsFiniteSet(BlobSlots(new))
    BY <2>2, <2>4, <2>5, CountDistinct
  <2>8. /\ IsFiniteSet(BlobSlots(all))
        /\ Cardinality(BlobSlots(all)) = Cardinality(slots) + Cardinality(BlobSlots(fat))
    <3>1. IsFiniteSet(BlobSlots(fat)) /\ \A k \in DOMAIN new : k \notin DOMAIN fat
      BY <2>1 DEF Tally
    <3>2. /\ IsFiniteSet(BlobSlots(Overlay(new, fat)))
          /\ Cardinality(BlobSlots(Overlay(new, fat)))
               = Cardinality(BlobSlots(new)) + Cardinality(BlobSlots(fat))
      BY <2>7, <3>1, SlotsAdd
    <3> QED
      BY <2>6, <3>2 DEF all
  <2>9. /\ Cardinality(slots) \in Nat /\ Cardinality(BlobSlots(fat)) \in Nat
    BY <2>1, <2>2, FS_CardinalityType DEF Tally
  <2>10. IsFiniteSet(BlobSlots(NoPending)) /\ Cardinality(BlobSlots(NoPending)) = 0
    BY NoSlots, FS_EmptySet
  <2> QED
    BY <2>1, <2>8, <2>9, <2>10 DEF Tally, slots
<1> QED
  BY <1>3, <1>4 DEF LabelIndex, all

-----------------------------------------------------------------------------
(* The steps of the ingestion on the label index.                          *)

\* What an edge record does to the label index and to the pending lists.
LEMMA PutEdgeParts ==
  ASSUME TypeOK, BlobInv, RowsInv, CachedInv, PutEdge, ~readErr', pc' # "closing"
  PROVE  LET l == RecordAt(edgesFile, pos).label
             blobs == Append(pending[l], CopyOf(nodesFile, edgesFile, pos))
         IN  /\ pos \in EdgeRows(edgesFile) /\ l \in Tokens
             /\ pc' = "edges" /\ pos' = pos + 1
             /\ \/ /\ Written'["label"] = Written["label"]
                   /\ pending' = [pending EXCEPT ![l] = blobs]
                \/ /\ Written'["label"] = Overlay([k \in {<<l, uuids>>} |-> blobs], Written["label"])
                   /\ <<l, uuids>> \notin DOMAIN Written["label"]
                   /\ pending' = [pending EXCEPT ![l] = <<>>]
<1>1. PICK line \in Texts, size \in RecordBytes, blobSize \in BlobBytes :
        /\ IsEdgeRow(line) /\ readErr' = (line # Scanned[pos])
        /\ AddBlob(ParseLine(header, line), size, blobSize)
  BY DEF PutEdge
<1>2. /\ pc = "edges" /\ AtLine /\ ~readErr /\ Scanned = edgesFile /\ StoreTypeOK
  BY DEF PutEdge, AtLine, Scanned, TypeOK
<1>3. line = edgesFile[pos] /\ header = IngestHeader(edgesFile, pos)
  BY <1>1, <1>2 DEF RowsInv
<1> DEFINE rec == RecordAt(edgesFile, pos)
           l == rec.label
           m == CopyOf(nodesFile, edgesFile, pos)
           blobs == Append(pending[l], m)
           lists == [k \in {l} |-> blobs]
           one == [k \in {<<l, uuids>>} |-> blobs]
<1>4. pos \in EdgeRows(edgesFile) /\ ParseLine(header, line) = rec
  BY <1>1, <1>2, <1>3, LineAt
<1>5. l \in Tokens
  BY <1>2, <1>4, LabelType
<1>6. MegaBlob(rec) = m
  BY <1>2, FileTypes, CacheAnswers DEF MegaBlob, CopyOf, CachedInv
<1> HIDE DEF rec, l, m, blobs
<1>7. \/ /\ pending' = [pending EXCEPT ![l] = blobs]
         /\ Commit(EdgePuts(rec), size)
      \/ /\ pending' = [pending EXCEPT ![l] = <<>>]
         /\ Commit(Layer(EdgePuts(rec), FatPuts(lists)), size)
  <2>1. AddBlob(rec, size, blobSize)
    BY <1>1, <1>4
  <2> QED
    BY <2>1, <1>6 DEF AddBlob, l, blobs
<1>8. ASSUME NEW puts, Commit(puts, size)
      PROVE  /\ pc' = "edges" /\ pos' = pos + 1
             /\ Written'["label"] = Overlay(puts["label"], Written["label"])
  BY <1>2, <1>8, CommitFlow, CommitWrites, LabelOfLayer
<1>9. CASE /\ pending' = [pending EXCEPT ![l] = blobs]
           /\ Commit(EdgePuts(rec), size)
  <2>1. Overlay(EmptyMap, Written["label"]) = Written["label"]
    BY WrittenIsBundle, OverlayEmpty DEF IsBundle, IsMap, Families
  <2>2. /\ pc' = "edges" /\ pos' = pos + 1 /\ Written'["label"] = Written["label"]
    BY <1>8, <1>9, <2>1, EdgePutsParts
  <2> QED
    BY <1>4, <1>5, <1>9, <2>2 DEF l, m, blobs, rec
<1>10. CASE /\ pending' = [pending EXCEPT ![l] = <<>>]
            /\ Commit(Layer(EdgePuts(rec), FatPuts(lists)), size)
  <2>1. FatPuts(lists)["label"] = [k \in {l} \X {uuids} |-> lists[k[1]]]
    BY DEF FatPuts, Nothing, Families
  <2>2. {l} \X {uuids} = {<<l, uuids>>} /\ lists[l] = blobs
    OBVIOUS
  <2>3. FatPuts(lists)["label"] = one
    BY <2>1, <2>2
  <2>4. <<l, uuids>> \notin DOMAIN Written["label"]
    BY DEF BlobInv, FreshKeys, TypeOK
  <2> DEFINE puts == Layer(EdgePuts(rec), FatPuts(lists))
  <2>5. puts["label"] = one
    BY <2>3, FatEdgePutsParts
  <2> HIDE DEF puts
  <2>6. /\ pc' = "edges" /\ pos' = pos + 1
        /\ Written'["label"] = Overlay(one, Written["label"])
    BY <1>8, <1>10, <2>5 DEF puts
  <2> QED
    BY <1>4, <1>5, <1>10, <2>4, <2>6 DEF l, m, blobs, rec
<1> QED
  BY <1>7, <1>9, <1>10

\* One edge record keeps the index that of the rows passed.
LEMMA PutEdgeKeepsLabels ==
  ASSUME TypeOK, BlobInv, RowsInv, CachedInv, LabelInv, PutEdge
  PROVE  LabelInv'
<1>1. pc = "edges" /\ UNCHANGED <<nodesFile, edgesFile, ingests>> /\ ~readErr
  BY DEF PutEdge, argVars, ghostVars, AtLine
<1>2. PICK puts, size : Commit(puts, size)
  BY DEF PutEdge, AddBlob
<1>3. CASE pc' = "closing" /\ outcome' = "error"
  BY <1>3 DEF LabelInv, Saving, Succeeded
<1>4. CASE pc' = "edges"
  <2> DEFINE l == RecordAt(edgesFile, pos).label
             m == CopyOf(nodesFile, edgesFile, pos)
             blobs == Append(pending[l], m)
             fat == Written["label"]
             rows == EdgeRows(edgesFile)
             R == Upto(rows, pos)
             Index(f, lists, S) == LabelIndex(nodesFile, edgesFile, ingests, f, lists, S)
  <2>1. ASSUME ~readErr'
        PROVE  Index(Written'["label"], pending', Upto(rows, pos'))
    <3>1. /\ pos \in rows /\ l \in Tokens /\ pos' = pos + 1
          /\ \/ Written'["label"] = fat /\ pending' = [pending EXCEPT ![l] = blobs]
             \/ /\ Written'["label"] = Overlay([k \in {<<l, uuids>>} |-> blobs], fat)
                /\ <<l, uuids>> \notin DOMAIN fat
                /\ pending' = [pending EXCEPT ![l] = <<>>]
      BY <1>4, <2>1, PutEdgeParts
    <3>2. Upto(rows, pos') = R \cup {pos} /\ pos \notin R
      BY <3>1, UptoGrows, RowNumbers
    <3>3. IsFiniteSet(R)
      <4>1. IsFiniteSet(rows) /\ R \subseteq rows
        BY FileTypes, RowsFinite DEF Upto
      <4> QED
        BY <4>1, FS_Subset
    <3>4. pending = [k \in Tokens |-> pending[k]] /\ IsList(pending[l])
      BY <3>1 DEF TypeOK
    <3>5. Index(fat, pending, R)
      BY <1>1 DEF LabelInv
    <3> DEFINE listed == [pending EXCEPT ![l] = blobs]
    <3> HIDE DEF R, fat, rows
    <3>6. Index(fat, listed, R \cup {pos})
      BY <3>1, <3>2, <3>3, <3>4, <3>5, OneMoreListed
    <3>7. /\ listed = [k \in Tokens |-> listed[k]] /\ listed[l] = blobs
          /\ [listed EXCEPT ![l] = <<>>] = [pending EXCEPT ![l] = <<>>]
      BY <3>1, <3>4
    <3>8. Len(blobs) \in Nat
      BY <3>4, AppendMembers DEF IsList
    <3> HIDE DEF listed, blobs, l
    <3>9. ASSUME <<l, uuids>> \notin DOMAIN fat
          PROVE  Index(Overlay([k \in {<<l, uuids>>} |-> blobs], fat),
                       [pending EXCEPT ![l] = <<>>], R \cup {pos})
      <4>1. Index(Overlay([k \in {<<l, uuids>>} |-> listed[l]], fat),
                  [listed EXCEPT ![l] = <<>>], R \cup {pos})
        BY <3>1, <3>6, <3>7, <3>8, <3>9, ListWritten
      <4> QED
        BY <4>1, <3>7
    <3> QED
      BY <3>1, <3>2, <3>6, <3>9 DEF listed
  <2> QED
    BY <1>1, <1>4, <2>1 DEF LabelInv, Saving, Succeeded
<1> QED
  BY <1>1, <1>2, <1>3, <1>4, CommitFlow

\* At the end of the edges file the pending lists are written.
LEMMA FinishEdgesKeepsLabels ==
  ASSUME TypeOK, BlobInv, LabelInv, FinishEdges
  PROVE  LabelInv'
<1> DEFINE new == FatPuts(Unwritten)["label"]
           fat == Written["label"]
           rows == EdgeRows(edgesFile)
           Index(f, lists, S) == LabelIndex(nodesFile, edgesFile, ingests, f, lists, S)
<1>1. PICK failed \in BOOLEAN :
        ScanEnds(failed) /\ FinalFlush(Layer(FatPuts(Unwritten), batch), failed, "save")
  BY DEF FinishEdges
<1>2. /\ pc = "edges" /\ UNCHANGED <<nodesFile, edgesFile, ingests>> /\ StoreTypeOK
  BY DEF FinishEdges, argVars, ghostVars, TypeOK
<1>3. CASE pc' = "closing" /\ outcome' = "error"
  BY <1>3 DEF LabelInv, Saving, Succeeded
<1>4. CASE ~failed /\ pc' = "save"
  <2>1. pos > Len(edgesFile) /\ ~readErr
    BY <1>1, <1>2, <1>4 DEF ScanEnds, Scanned
  <2>2. Upto(rows, pos) = rows
    BY <2>1, FileTypes, UptoAll DEF TypeOK
  <2>3. Index(fat, pending, rows)
    BY <1>2, <2>1, <2>2 DEF LabelInv
  <2>4. View'["label"] = Overlay(new, fat)
    <3>1. View' = Layer(FatPuts(Unwritten), Written)
      BY <1>1, <1>2, <1>4, FinalFlushView, LayerAssoc DEF Written
    <3> QED
      BY <3>1, LabelOfLayer
  <2>5. new = [k \in {l \in Tokens : pending[l] # <<>>} \X {uuids} |-> pending[k[1]]]
    <3>1. new = [k \in (DOMAIN Unwritten) \X {uuids} |-> Unwritten[k[1]]]
      BY DEF FatPuts, Nothing, Families
    <3>2. /\ DOMAIN Unwritten = {l \in Tokens : pending[l] # <<>>}
          /\ \A l \in DOMAIN Unwritten : Unwritten[l] = pending[l]
      BY DEF Unwritten
    <3> HIDE DEF new
    <3> QED
      BY <3>1, <3>2
  <2>6. \A k \in DOMAIN new : k \notin DOMAIN fat
    BY FatPutsKeys DEF BlobInv, FreshKeys, TypeOK
  <2>7. pending = [k \in Tokens |-> pending[k]]
    BY DEF TypeOK
  <2> HIDE DEF new, fat, rows
  <2>8. Index(Overlay(new, fat), NoPending, rows)
    BY <2>3, <2>5, <2>6, <2>7, ListsWritten
  <2> QED
    BY <1>2, <1>4, <2>4, <2>8 DEF LabelInv, Saving, Succeeded, rows
<1> QED
  BY <1>1, <1>3, <1>4, FinalFlushFlow

\* An empty index is that of no row.
LEMMA NoRowNoBlob ==
  ASSUME NEW nodes, NEW edges, NEW runs, NEW fat, runs <= 1 => fat = EmptyMap
  PROVE  LabelIndex(nodes, edges, runs, fat, NoPending, {})
<1>1. Denormalized(nodes, edges, fat, NoPending, {})
  BY DEF Denormalized
<1>2. ASSUME runs <= 1 PROVE Tally(fat, NoPending, {})
  BY <1>2, NoSlots, FS_EmptySet DEF Tally
<1> QED
  BY <1>1, <1>2 DEF LabelIndex

\* A new database has no index.
LEMMA LabelInit == Init => LabelInv
BY DEF Init, LabelInv, Saving, Succeeded

\* Every step keeps the index that of the rows passed.
LEMMA LabelNext ==
  TypeOK /\ FlowInv /\ BlobInv /\ RowsInv /\ CachedInv /\ LabelInv /\ [Next]_vars => LabelInv'
<1> SUFFICES ASSUME TypeOK, FlowInv, BlobInv, RowsInv, CachedInv, LabelInv, [Next]_vars
             PROVE  LabelInv'
  OBVIOUS
<1> USE DEF argVars, loopVars, batchVars, fatVars, ghostVars
<1> DEFINE Index(fat, lists, S) == LabelIndex(nodesFile, edgesFile, ingests, fat, lists, S)
<1>1. UNCHANGED <<batch, storeVars>> => Written' = Written /\ View' = View
  BY DEF Written, View, storeVars
<1>2. CASE RejectIngest \/ OpenFails
  <2>1. pc' = "idle" /\ outcome' \in {"rejected", "error"}
    BY <1>2 DEF RejectIngest, OpenFails, Invoke, MayStart
  <2> QED
    BY <2>1 DEF LabelInv, Saving, Succeeded
<1>3. CASE BeginIngest
  <2>1. /\ pc = "idle" /\ pc' = "nodes" /\ ingests' = ingests + 1
        /\ UNCHANGED <<batch, storeVars>>
    BY <1>3 DEF BeginIngest, Invoke, MayStart
  <2>2. ASSUME ingests' <= 1
        PROVE  Written'["label"] = EmptyMap
    <3>1. ingests = 0
      BY <2>1, <2>2 DEF TypeOK
    <3>2. View = Nothing /\ batch = Nothing
      BY <2>1, <3>1 DEF FlowInv
    <3>3. Written' = Nothing
      BY <1>1, <2>1, <3>2, LayerNothing, NothingIsBundle DEF Written
    <3> QED
      BY <3>3 DEF Nothing, Families
  <2> QED
    BY <2>1, <2>2 DEF LabelInv, Saving, Succeeded
<1>4. CASE ReadHeader \/ SkipLine
  <2>1. /\ AtLine /\ ~readErr /\ pos' = pos + 1 /\ pc \in {"nodes", "edges"}
        /\ UNCHANGED <<nodesFile, edgesFile, pc, readErr, batch, storeVars, pending, ingests>>
    BY <1>4 DEF ReadHeader, SkipLine, HasLine, AtLine
  <2>2. ASSUME pc = "edges"
        PROVE  Upto(EdgeRows(edgesFile), pos + 1) = Upto(EdgeRows(edgesFile), pos)
    <3>1. Scanned = edgesFile /\ header = IngestHeader(Scanned, pos) /\ pos \in Nat
      BY <2>1, <2>2 DEF Scanned, RowsInv, TypeOK
    <3>2. IsIngestHeader(Scanned[pos]) \/ ~IsEdgeRow(Scanned[pos])
      BY <1>4, <2>2 DEF ReadHeader, SkipLine
    <3>3. pos \notin EdgeRows(edgesFile)
      BY <2>1, <3>1, <3>2, LineAt, HeaderNoRow
    <3> QED
      BY <3>1, <3>3, UptoGrows, RowNumbers
  <2> QED
    BY <1>1, <2>1, <2>2 DEF LabelInv, Saving, Succeeded
<1>5. CASE PutNode
  <2>1. PICK rec, size : Commit(NodePuts(rec), size)
    BY <1>5 DEF PutNode
  <2>2. pc = "nodes" /\ UNCHANGED ingests /\ StoreTypeOK
    BY <1>5 DEF PutNode, TypeOK
  <2>3. CASE pc' = "closing" /\ outcome' = "error"
    BY <2>3 DEF LabelInv, Saving, Succeeded
  <2>4. CASE pc' = pc
    <3>1. Written' = Layer(NodePuts(rec), Written)
      BY <2>1, <2>2, <2>4, CommitWrites
    <3>2. NodePuts(rec)["label"] = EmptyMap /\ "label" \in Families
      BY NodePutsParts DEF Families
    <3>3. Layer(NodePuts(rec), Written)["label"] = Written["label"]
      BY <3>2, UntouchedFamily, WrittenIsBundle
    <3> QED
      BY <2>2, <2>4, <3>1, <3>3 DEF LabelInv, Saving, Succeeded
  <2> QED
    BY <2>1, <2>3, <2>4, CommitFlow
<1>6. CASE PutEdge
  BY <1>6, PutEdgeKeepsLabels
<1>7. CASE FinishNodes
  <2>1. PICK failed \in BOOLEAN : ScanEnds(failed) /\ FinalFlush(batch, failed, "edges")
    BY <1>7 DEF FinishNodes
  <2>2. /\ pc = "nodes" /\ UNCHANGED <<nodesFile, edgesFile, ingests, pending>>
        /\ pending = NoPending /\ StoreTypeOK
    BY <1>7 DEF FinishNodes, FlowInv, TypeOK
  <2>3. CASE pc' = "closing" /\ outcome' = "error"
    BY <2>3 DEF LabelInv, Saving, Succeeded
  <2>4. CASE pc' = "edges"
    <3>1. Written' = Written /\ pos' = 1
      BY <2>1, <2>2, <2>4, FinalFlushView DEF FinalFlush, Fail, Written
    <3>2. Upto(EdgeRows(edgesFile), 1) = {}
      BY UptoGrows, RowNumbers
    <3>3. Index(Written["label"], NoPending, {})
      BY <2>2, NoRowNoBlob DEF LabelInv
    <3> QED
      BY <2>2, <2>4, <3>1, <3>2, <3>3 DEF LabelInv, Saving, Succeeded
  <2> QED
    BY <2>1, <2>3, <2>4, FinalFlushFlow
<1>8. CASE FinishEdges
  BY <1>8, FinishEdgesKeepsLabels
<1>9. CASE SaveTruncate \/ SaveWrite \/ SaveFails
  <2>1. /\ UNCHANGED <<nodesFile, edgesFile, ingests, batch, storeVars>>
        /\ pc \in {"save", "writing"} /\ pc' \in {"writing", "closing"}
    BY <1>9 DEF SaveTruncate, SaveWrite, SaveFails
  <2> QED
    BY <1>1, <2>1 DEF LabelInv, Saving, Succeeded
<1>10. CASE CloseStore \/ CloseUnflushed \/ Crash
  <2>1. PICK kept, how : Leave(kept, how)
    BY <1>10 DEF CloseStore, CloseUnflushed, Crash
  <2>2. /\ UNCHANGED <<nodesFile, edgesFile, ingests, outcome>> /\ pc' = "idle"
    BY <2>1 DEF Leave
  <2>3. ASSUME Succeeded'
        PROVE  Index(sst'["label"], NoPending, EdgeRows(edgesFile))
    <3>1. CloseStore /\ outcome = "success"
      BY <1>10, <2>2, <2>3 DEF CloseUnflushed, Crash, Leave, Succeeded
    <3>2. Saving /\ sst'["label"] = View["label"]
      BY <3>1 DEF CloseStore, Leave, Vanish, Saving, Families
    <3> QED
      BY <3>2 DEF LabelInv
  <2> QED
    BY <2>2, <2>3 DEF LabelInv, Saving
<1>11. CASE BackgroundFlush
  <2>1. View' = View
    BY <1>11, FlushView DEF BackgroundFlush, TypeOK
  <2>2. /\ pc # "idle"
        /\ UNCHANGED <<nodesFile, edgesFile, ingests, pc, pos, readErr, outcome, batch, pending>>
    BY <1>11 DEF BackgroundFlush
  <2>3. Written' = Written
    BY <2>1, <2>2 DEF Written
  <2> QED
    BY <2>1, <2>2, <2>3 DEF LabelInv, Saving, Succeeded
<1>12. CASE UNCHANGED vars
  <2>1. UNCHANGED <<nodesFile, edgesFile, ingests, pc, pos, readErr, outcome, ending,
                    batch, storeVars, sst, pending>>
    BY <1>12 DEF vars, storeVars
  <2> QED
    BY <1>1, <2>1 DEF LabelInv, Saving, Succeeded
<1> QED
  BY <1>2, <1>3, <1>4, <1>5, <1>6, <1>7, <1>8, <1>9, <1>10, <1>11, <1>12 DEF Next, Process

\* The mega blobs of the label index (ingestor.go, IngestEdges) carry the final
\* version of both endpoints, for every accepted edge row and whatever the
\* thresholds; a first ingestion writes one for each and no other, because
\* every uuid names one fat batch.
THEOREM LabelIndexAlwaysComplete == Spec => []LabelIndexComplete
<1> DEFINE Inv == TypeOK /\ FlowInv /\ BlobInv /\ RowsInv /\ CachedInv /\ LabelInv
<1>1. Inv => LabelIndexComplete
  <2> SUFFICES ASSUME LabelInv, Succeeded PROVE LabelIndexComplete
    BY DEF LabelIndexComplete
  <2>1. LabelIndex(nodesFile, edgesFile, ingests, sst["label"], NoPending, EdgeRows(edgesFile))
    BY DEF LabelInv
  <2>2. ASSUME NEW i \in EdgeRows(edgesFile)
        PROVE  \E k \in DOMAIN sst["label"] : \E j \in 1..Len(sst["label"][k]) :
                 /\ k[1] = EdgeAt(i).label
                 /\ sst["label"][k][j] = CopyOf(nodesFile, edgesFile, i)
    <3>1. ~Listed(NoPending, EdgeAt(i).label, CopyOf(nodesFile, edgesFile, i))
      <4>1. \A l \in Tokens : NoPending[l] = <<>> /\ 1..Len(NoPending[l]) = {}
        BY DEF NoPending
      <4> QED
        BY <4>1 DEF Listed
    <3>2. Placed(sst["label"], EdgeAt(i).label, CopyOf(nodesFile, edgesFile, i))
      BY <2>1, <3>1 DEF LabelIndex, Denormalized, EdgeAt
    <3> QED
      BY <3>2 DEF Placed
  <2>3. \A id : Endpoint(id) = EndpointIn(nodesFile, id)
    BY DEF Endpoint, EndpointIn, LastNodeRows, LastRows, NodeAt
  <2>4. \A i \in EdgeRows(edgesFile) : CopyOf(nodesFile, edgesFile, i) =
          [edge |-> EdgeValue(EdgeAt(i)),
           src |-> Endpoint(EdgeAt(i).src), dst |-> Endpoint(EdgeAt(i).dst)]
    BY <2>3 DEF CopyOf, EdgeAt
  <2>5. ingests = 1 =>
          Cardinality(BlobSlots(sst["label"])) = Cardinality(EdgeRows(edgesFile))
    <3> SUFFICES ASSUME ingests = 1
                 PROVE  Cardinality(BlobSlots(sst["label"])) = Cardinality(EdgeRows(edgesFile))
      OBVIOUS
    <3>1. Tally(sst["label"], NoPending, EdgeRows(edgesFile))
      BY <2>1 DEF LabelIndex
    <3>2. Cardinality(BlobSlots(NoPending)) = 0 /\ Cardinality(BlobSlots(sst["label"])) \in Nat
      BY <3>1, NoSlots, FS_EmptySet, FS_CardinalityType DEF Tally
    <3> QED
      BY <3>1, <3>2 DEF Tally
  <2> QED
    BY <2>2, <2>4, <2>5 DEF LabelIndexComplete
<1>2. Spec => []Inv
  <2>1. Init => Inv
    BY TypeInit, FlowInit, BlobInit, RowsInit, CachedInit, LabelInit
  <2>2. Inv /\ [Next]_vars => Inv'
    BY TypeNext, FlowNext, BlobNext, RowsNext, CachedNext, LabelNext
  <2> QED
    BY <2>1, <2>2, PTL DEF Spec
<1> QED
  BY <1>1, <1>2, PTL
=============================================================================
