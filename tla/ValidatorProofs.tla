--------------------------- MODULE ValidatorProofs ---------------------------
(***************************************************************************)
(* The verdict of the validator is the declarative one, for files of any   *)
(* length over any tokens.                                                 *)
(***************************************************************************)
EXTENDS Validator, PGDFProofs

-----------------------------------------------------------------------------
(* The inductive invariant: what the two maps and the header stand for.    *)

NodesRead(n) == {i \in ValRows(nodesFile) : i < n}
EdgesRead(n) == {i \in ValRows(edgesFile) : i < n}
EdgeIdAt(i) == EdgeFieldAt(edgesFile, i, "@id")

NodesInv ==
  /\ pos <= Len(nodesFile) + 1
  /\ header = ValHeader(nodesFile, pos)
  /\ nodeIDs = {NodeIdAt(nodesFile, i) : i \in NodesRead(pos)}
  /\ edgeIDs = {}
  /\ \A i \in Positions(nodesFile) : i < pos => ValidNodeLine(nodesFile, i)

EdgesInv ==
  /\ ValidNodes(nodesFile)
  /\ nodeIDs = NodeIds(nodesFile)
  /\ pos <= Len(edgesFile) + 1
  /\ header = ValHeader(edgesFile, pos)
  /\ edgeIDs = {EdgeIdAt(i) : i \in EdgesRead(pos)}
  /\ \A i \in Positions(edgesFile) : i < pos => ValidEdgeLine(edgesFile, i, nodeIDs)

VerdictInv ==
  /\ nodesFile \in Seq(Line) /\ edgesFile \in Seq(Line)
  /\ pos \in Nat \ {0}
  /\ phase \in Scanning \cup Verdicts
  /\ phase = "nodes" => NodesInv
  /\ phase = "edges" => EdgesInv
  /\ ValidIsSound
  /\ InvalidIsJustified

\* The line at pos is one of the three kinds; the conditions of the loops on it
\* are those of the declarative rules.
LEMMA NodeLine ==
  ASSUME VerdictInv, phase = "nodes", pos <= Len(nodesFile)
  PROVE  /\ pos \in Positions(nodesFile)
         /\ pos \in ValHeads(nodesFile) <=> IsHeader(nodesFile[pos])
         /\ pos \in ValRows(nodesFile) <=> IsRow(nodesFile[pos])
         /\ RowId(nodesFile[pos]) = NodeIdAt(nodesFile, pos)
         /\ NodeRowPasses(nodesFile[pos]) <=>
              /\ WellShaped(ValHeader(nodesFile, pos), nodesFile[pos])
              /\ NodeIdAt(nodesFile, pos) # ""
              /\ \A j \in ValRows(nodesFile) :
                   j < pos => NodeIdAt(nodesFile, j) # NodeIdAt(nodesFile, pos)
<1>1. pos \in Positions(nodesFile)
  BY DEF VerdictInv, Positions
<1>2. RowId(nodesFile[pos]) = NodeIdAt(nodesFile, pos)
  BY DEF VerdictInv, NodesInv, RowId, NodeIdAt
<1>3. NodeIdAt(nodesFile, pos) \notin nodeIDs <=>
        \A j \in ValRows(nodesFile) :
          j < pos => NodeIdAt(nodesFile, j) # NodeIdAt(nodesFile, pos)
  BY DEF VerdictInv, NodesInv, NodesRead
<1>4. WellShaped(header, nodesFile[pos])
        <=> WellShaped(ValHeader(nodesFile, pos), nodesFile[pos])
  BY DEF VerdictInv, NodesInv
<1> QED
  BY <1>1, <1>2, <1>3, <1>4 DEF ValHeads, ValRows, IsRow, NodeRowPasses

\* The same of the edges file: the checks of the loop on the line at pos are
\* those of the declarative rules.
LEMMA EdgeLine ==
  ASSUME VerdictInv, phase = "edges", pos <= Len(edgesFile)
  PROVE  /\ pos \in Positions(edgesFile)
         /\ pos \in ValHeads(edgesFile) <=> IsHeader(edgesFile[pos])
         /\ pos \in ValRows(edgesFile) <=> IsRow(edgesFile[pos])
         /\ Field(header, edgesFile[pos], "@id") = EdgeIdAt(pos)
         /\ EdgeRowPasses(edgesFile[pos]) <=>
              /\ WellShaped(ValHeader(edgesFile, pos), edgesFile[pos])
              /\ EdgeFieldAt(edgesFile, pos, "@id") # ""
              /\ \A j \in ValRows(edgesFile) :
                   j < pos => EdgeFieldAt(edgesFile, j, "@id")
                                # EdgeFieldAt(edgesFile, pos, "@id")
              /\ {EdgeFieldAt(edgesFile, pos, "@out"), EdgeFieldAt(edgesFile, pos, "@in")}
                   \subseteq nodeIDs
<1>1. pos \in Positions(edgesFile)
  BY DEF VerdictInv, Positions
<1>2. header = ValHeader(edgesFile, pos)
  BY DEF VerdictInv, EdgesInv
<1>3. EdgeIdAt(pos) \notin edgeIDs <=>
        \A j \in ValRows(edgesFile) : j < pos => EdgeIdAt(j) # EdgeIdAt(pos)
  BY DEF VerdictInv, EdgesInv, EdgesRead
<1> QED
  BY <1>1, <1>2, <1>3 DEF ValHeads, ValRows, IsRow, EdgeRowPasses, EdgeIdAt, EdgeFieldAt

\* One more valid line extends the nodes part of the invariant.
LEMMA NodesAdvance ==
  ASSUME VerdictInv, phase = "nodes", pos <= Len(nodesFile),
         ValidNodeLine(nodesFile, pos), Advance, UNCHANGED edgeIDs,
         header' = IF pos \in ValHeads(nodesFile) THEN nodesFile[pos] ELSE header,
         nodeIDs' = IF pos \in ValRows(nodesFile)
                    THEN nodeIDs \cup {NodeIdAt(nodesFile, pos)} ELSE nodeIDs
  PROVE  VerdictInv'
<1> USE DEF Advance, files
<1>1. pos \in Nat \ {0} /\ pos' = pos + 1 /\ nodesFile' = nodesFile
      /\ edgesFile' = edgesFile /\ phase' = "nodes"
  BY DEF VerdictInv
<1>2. header' = ValHeader(nodesFile, pos + 1)
  BY <1>1, HeadPositions, NextHeader DEF VerdictInv, NodesInv, ValHeader
<1>3. NodesRead(pos + 1) = IF pos \in ValRows(nodesFile) THEN NodesRead(pos) \cup {pos}
                                                         ELSE NodesRead(pos)
  <2>1. \A i \in ValRows(nodesFile) : i \in Nat
    BY DEF ValRows, Positions
  <2> QED
    BY <1>1, <2>1 DEF NodesRead
<1>4. nodeIDs' = {NodeIdAt(nodesFile, i) : i \in NodesRead(pos + 1)}
  BY <1>3 DEF VerdictInv, NodesInv
<1>5. \A i \in Positions(nodesFile) : i < pos + 1 => ValidNodeLine(nodesFile, i)
  <2>1. \A i \in Positions(nodesFile) : i < pos + 1 => i < pos \/ i = pos
    BY <1>1 DEF Positions
  <2> QED
    BY <2>1 DEF VerdictInv, NodesInv
<1>6. pos + 1 <= Len(nodesFile) + 1
  BY <1>1 DEF VerdictInv
<1>7. NodesInv'
  BY <1>1, <1>2, <1>4, <1>5, <1>6 DEF NodesInv, NodesRead, VerdictInv
<1> QED
  BY <1>1, <1>7 DEF VerdictInv, ValidIsSound, InvalidIsJustified

\* One more valid line extends the edges part of the invariant.
LEMMA EdgesAdvance ==
  ASSUME VerdictInv, phase = "edges", pos <= Len(edgesFile),
         ValidEdgeLine(edgesFile, pos, nodeIDs), Advance, UNCHANGED nodeIDs,
         header' = IF pos \in ValHeads(edgesFile) THEN edgesFile[pos] ELSE header,
         edgeIDs' = IF pos \in ValRows(edgesFile)
                    THEN edgeIDs \cup {EdgeIdAt(pos)} ELSE edgeIDs
  PROVE  VerdictInv'
<1> USE DEF Advance, files
<1>1. pos \in Nat \ {0} /\ pos' = pos + 1 /\ nodesFile' = nodesFile
      /\ edgesFile' = edgesFile /\ phase' = "edges"
  BY DEF VerdictInv
<1>2. header' = ValHeader(edgesFile, pos + 1)
  BY <1>1, HeadPositions, NextHeader DEF VerdictInv, EdgesInv, ValHeader
<1>3. EdgesRead(pos + 1) = IF pos \in ValRows(edgesFile) THEN EdgesRead(pos) \cup {pos}
                                                         ELSE EdgesRead(pos)
  <2>1. \A i \in ValRows(edgesFile) : i \in Nat
    BY DEF ValRows, Positions
  <2> QED
    BY <1>1, <2>1 DEF EdgesRead
<1>4. edgeIDs' = {EdgeIdAt(i) : i \in EdgesRead(pos + 1)}
  BY <1>3 DEF VerdictInv, EdgesInv
<1>5. \A i \in Positions(edgesFile) :
        i < pos + 1 => ValidEdgeLine(edgesFile, i, nodeIDs)
  <2>1. \A i \in Positions(edgesFile) : i < pos + 1 => i < pos \/ i = pos
    BY <1>1 DEF Positions
  <2> QED
    BY <2>1 DEF VerdictInv, EdgesInv
<1>6. pos + 1 <= Len(edgesFile) + 1
  BY <1>1 DEF VerdictInv
<1>7. EdgesInv'
  BY <1>1, <1>2, <1>4, <1>5, <1>6 DEF EdgesInv, EdgesRead, EdgeIdAt, VerdictInv
<1> QED
  BY <1>1, <1>7 DEF VerdictInv, ValidIsSound, InvalidIsJustified

-----------------------------------------------------------------------------
(* The invariant holds, one lemma per kind of step.                        *)

\* Before the first line nothing has been read and nothing concluded.
LEMMA VerdictInit ==
  Init => VerdictInv
<1> SUFFICES ASSUME Init PROVE VerdictInv
  OBVIOUS
<1>1. nodesFile \in Seq(Line) /\ edgesFile \in Seq(Line)
  BY FilesAssumption DEF Init, File
<1>2. header = ValHeader(nodesFile, pos)
  BY HeadPositions, FirstHeader DEF Init, ValHeader
<1>3. \A i \in Positions(nodesFile) : ~(i < 1)
  BY DEF Positions
<1>4. NodesRead(1) = {}
  BY <1>3 DEF NodesRead, ValRows
<1>5. Len(nodesFile) \in Nat
  BY <1>1
<1>6. NodesInv
  BY <1>2, <1>3, <1>4, <1>5 DEF Init, NodesInv
<1> QED
  BY <1>1, <1>6 DEF Init, VerdictInv, ValidIsSound, InvalidIsJustified, Scanning, Verdicts

\* A blank line is valid in either file.
LEMMA SkipBlankKeeps ==
  VerdictInv /\ SkipBlank => VerdictInv'
<1> SUFFICES ASSUME VerdictInv, SkipBlank PROVE VerdictInv'
  OBVIOUS
<1>1. ~IsHeader(Scanned[pos]) /\ ~IsRow(Scanned[pos])
  BY BlankIsNoHeader DEF SkipBlank, IsRow
<1>2. CASE phase = "nodes"
  <2>1. pos \notin ValHeads(nodesFile) /\ pos \notin ValRows(nodesFile)
    BY <1>1, <1>2, NodeLine DEF SkipBlank, HasLine, Scanned
  <2> QED
    BY <1>2, <2>1, NodesAdvance DEF SkipBlank, HasLine, Scanned, ValidNodeLine
<1>3. CASE phase = "edges"
  <2>1. pos \notin ValHeads(edgesFile) /\ pos \notin ValRows(edgesFile)
    BY <1>1, <1>3, EdgeLine DEF SkipBlank, HasLine, Scanned
  <2> QED
    BY <1>3, <2>1, EdgesAdvance DEF SkipBlank, HasLine, Scanned, ValidEdgeLine
<1> QED
  BY <1>2, <1>3 DEF SkipBlank, HasLine, Scanning

\* A complete header line is valid and is the header in force after it.
LEMMA ReadHeaderKeeps ==
  VerdictInv /\ ReadHeader => VerdictInv'
<1> SUFFICES ASSUME VerdictInv, ReadHeader PROVE VerdictInv'
  OBVIOUS
<1>1. IsHeader(Scanned[pos]) /\ ~IsRow(Scanned[pos])
  BY DEF ReadHeader, IsRow
<1>2. CASE phase = "nodes"
  <2>1. pos \in ValHeads(nodesFile) /\ pos \notin ValRows(nodesFile)
    BY <1>1, <1>2, NodeLine DEF ReadHeader, HasLine, Scanned
  <2> QED
    BY <1>2, <2>1, NodesAdvance
       DEF ReadHeader, HasLine, Scanned, Mandatory, ValidNodeLine
<1>3. CASE phase = "edges"
  <2>1. pos \in ValHeads(edgesFile) /\ pos \notin ValRows(edgesFile)
    BY <1>1, <1>3, EdgeLine DEF ReadHeader, HasLine, Scanned
  <2> QED
    BY <1>3, <2>1, EdgesAdvance
       DEF ReadHeader, HasLine, Scanned, Mandatory, ValidEdgeLine
<1> QED
  BY <1>2, <1>3 DEF ReadHeader, HasLine, Scanning

\* An accepted node row is valid; its id joins nodeIDs.
LEMMA ReadNodeRowKeeps ==
  VerdictInv /\ ReadNodeRow => VerdictInv'
<1> SUFFICES ASSUME VerdictInv, ReadNodeRow PROVE VerdictInv'
  OBVIOUS
<1>1. phase = "nodes" /\ pos <= Len(nodesFile) /\ ~TooLongToValidate(nodesFile[pos])
  BY DEF ReadNodeRow, HasLine, Scanned
<1>2. pos \in ValRows(nodesFile) /\ pos \notin ValHeads(nodesFile)
  BY <1>1, NodeLine DEF ReadNodeRow, IsRow
<1>3. ValidNodeLine(nodesFile, pos)
  BY <1>1, <1>2, NodeLine DEF ReadNodeRow, ValidNodeLine
<1> QED
  BY <1>1, <1>2, <1>3, NodeLine, NodesAdvance DEF ReadNodeRow

\* An accepted edge row is valid; its id joins edgeIDs.
LEMMA ReadEdgeRowKeeps ==
  VerdictInv /\ ReadEdgeRow => VerdictInv'
<1> SUFFICES ASSUME VerdictInv, ReadEdgeRow PROVE VerdictInv'
  OBVIOUS
<1>1. phase = "edges" /\ pos <= Len(edgesFile) /\ ~TooLongToValidate(edgesFile[pos])
  BY DEF ReadEdgeRow, HasLine, Scanned
<1>2. pos \in ValRows(edgesFile) /\ pos \notin ValHeads(edgesFile)
  BY <1>1, EdgeLine DEF ReadEdgeRow, IsRow
<1>3. ValidEdgeLine(edgesFile, pos, nodeIDs)
  BY <1>1, <1>2, EdgeLine DEF ReadEdgeRow, ValidEdgeLine
<1> QED
  BY <1>1, <1>2, <1>3, EdgeLine, EdgesAdvance DEF ReadEdgeRow

\* A refused line violates the rule for its position, so the files do.
LEMMA RefuseKeeps ==
  VerdictInv /\ Refuse => VerdictInv'
<1> SUFFICES ASSUME VerdictInv, Refuse PROVE VerdictInv'
  OBVIOUS
<1>1. ASSUME phase = "nodes" PROVE ~ValidFiles(nodesFile, edgesFile)
  <2>1. pos <= Len(nodesFile)
    BY <1>1 DEF Refuse, HasLine, Scanned
  <2>2. ~ValidNodeLine(nodesFile, pos)
    BY <1>1, <2>1, NodeLine DEF Refuse, Scanned, Mandatory, ValidNodeLine
  <2> QED
    BY <1>1, <2>1, <2>2, NodeLine DEF ValidNodes, ValidFiles
<1>2. ASSUME phase = "edges" PROVE ~ValidFiles(nodesFile, edgesFile)
  <2>1. pos <= Len(edgesFile)
    BY <1>2 DEF Refuse, HasLine, Scanned
  <2>2. ~ValidEdgeLine(edgesFile, pos, nodeIDs)
    BY <1>2, <2>1, EdgeLine DEF Refuse, Scanned, Mandatory, ValidEdgeLine
  <2>3. nodeIDs = NodeIds(nodesFile)
    BY <1>2 DEF VerdictInv, EdgesInv
  <2> QED
    BY <1>2, <2>1, <2>2, <2>3, EdgeLine DEF ValidEdges, ValidFiles
<1>3. ~ValidFiles(nodesFile, edgesFile)
  BY <1>1, <1>2 DEF Refuse, HasLine, Scanning
<1> QED
  BY <1>3 DEF Refuse, Conclude, files, VerdictInv, ValidIsSound, InvalidIsJustified,
              Scanning, Verdicts

\* At the end of the nodes file all its lines are valid and nodeIDs holds the
\* ids of all its rows: the edges are checked against the whole file.
LEMMA EndNodesKeeps ==
  VerdictInv /\ EndNodes => VerdictInv'
<1> SUFFICES ASSUME VerdictInv, EndNodes PROVE VerdictInv'
  OBVIOUS
<1>1. NodesInv /\ Len(nodesFile) \in Nat /\ Len(edgesFile) \in Nat /\ pos \in Nat
  BY DEF VerdictInv, EndNodes
<1>2. pos = Len(nodesFile) + 1
  BY <1>1 DEF EndNodes, NodesInv
<1>3. \A i \in Positions(nodesFile) : i < pos
  BY <1>1, <1>2 DEF Positions
<1>4. ValidNodes(nodesFile)
  BY <1>1, <1>3 DEF NodesInv, ValidNodes
<1>5. NodesRead(pos) = ValRows(nodesFile)
  BY <1>3 DEF NodesRead, ValRows
<1>6. nodeIDs = NodeIds(nodesFile)
  BY <1>1, <1>5 DEF NodesInv, NodeIds
<1>7. header' = ValHeader(edgesFile, 1)
  BY HeadPositions, FirstHeader DEF EndNodes, ValHeader
<1>8. \A i \in Positions(edgesFile) : ~(i < 1)
  BY DEF Positions
<1>9. EdgesRead(1) = {}
  BY <1>8 DEF EdgesRead, ValRows
<1>10. edgeIDs = {EdgeIdAt(i) : i \in EdgesRead(1)}
  BY <1>1, <1>9 DEF NodesInv
<1>11. EdgesInv'
  BY <1>1, <1>4, <1>6, <1>7, <1>8, <1>10
     DEF EndNodes, files, EdgesInv, EdgesRead, EdgeIdAt
<1> QED
  BY <1>11 DEF EndNodes, files, VerdictInv, ValidIsSound, InvalidIsJustified,
               Scanning, Verdicts

\* At the end of the edges file both files are valid.
LEMMA EndEdgesKeeps ==
  VerdictInv /\ EndEdges => VerdictInv'
<1> SUFFICES ASSUME VerdictInv, EndEdges PROVE VerdictInv'
  OBVIOUS
<1>1. EdgesInv /\ Len(edgesFile) \in Nat /\ pos \in Nat
  BY DEF VerdictInv, EndEdges
<1>2. \A i \in Positions(edgesFile) : i < pos
  BY <1>1 DEF EndEdges, EdgesInv, Positions
<1>3. ValidFiles(nodesFile, edgesFile)
  BY <1>1, <1>2 DEF EdgesInv, ValidFiles, ValidEdges
<1> QED
  BY <1>3 DEF EndEdges, Conclude, files, VerdictInv, ValidIsSound, InvalidIsJustified,
              Scanning, Verdicts

\* An I/O error and a line over the limit conclude nothing about the files.
LEMMA IOErrorKeeps ==
  VerdictInv /\ (LineTooLong \/ ReadFails) => VerdictInv'
BY DEF LineTooLong, ReadFails, Conclude, files, VerdictInv, ValidIsSound,
       InvalidIsJustified, Scanning, Verdicts

\* Every step keeps the invariant.
LEMMA VerdictNext ==
  VerdictInv /\ [Next]_vars => VerdictInv'
<1> SUFFICES ASSUME VerdictInv, [Next]_vars PROVE VerdictInv'
  OBVIOUS
<1>1. CASE Next
  BY <1>1, SkipBlankKeeps, ReadHeaderKeeps, ReadNodeRowKeeps, ReadEdgeRowKeeps,
     RefuseKeeps, IOErrorKeeps, EndNodesKeeps, EndEdgesKeeps DEF Next, Process
<1>2. CASE UNCHANGED vars
  BY <1>2 DEF vars, VerdictInv, NodesInv, EdgesInv, NodesRead, EdgesRead, EdgeIdAt,
              ValidIsSound, InvalidIsJustified
<1> QED
  BY <1>1, <1>2

\* The invariant with every strengthening holds of every behaviour.
THEOREM VerdictAlwaysInv == Spec => []VerdictInv
BY VerdictInit, VerdictNext, PTL DEF Spec

\* Files that pass, pass the declarative rules: a "valid" verdict is sound.
THEOREM VerdictSound == Spec => []ValidIsSound
<1>1. VerdictInv => ValidIsSound
  BY DEF VerdictInv
<1> QED
  BY <1>1, VerdictAlwaysInv, PTL

\* Only files that break a rule are refused: the validator is complete.
THEOREM VerdictComplete == Spec => []InvalidIsJustified
<1>1. VerdictInv => InvalidIsJustified
  BY DEF VerdictInv
<1> QED
  BY <1>1, VerdictAlwaysInv, PTL

-----------------------------------------------------------------------------
(* Types.                                                                  *)

\* The validator's id of a row is a token, like every field of it.
LEMMA FirstFieldType ==
  ASSUME NEW head \in Seq(Tokens), NEW line \in Seq(Tokens), NEW key
  PROVE  FirstField(head, line, key) \in Tokens
<1>1. CASE Columns(head, key) = {}
  BY <1>1, TokensAssumption DEF FirstField
<1>2. CASE Columns(head, key) # {}
  <2>1. Columns(head, key) \subseteq Nat \ {0}
    BY DEF Columns
  <2>2. Min(Columns(head, key)) \in Nat \ {0}
    BY <1>2, <2>1, ColumnPositions
  <2> QED
    BY <1>2, <2>2, CellType DEF FirstField
<1> QED
  BY <1>1, <1>2

\* The line under the scanner, in either file, is a sequence of tokens.
LEMMA ScannedLineType ==
  ASSUME TypeOK, HasLine
  PROVE  /\ Scanned[pos] \in Seq(Tokens)
         /\ phase = "nodes" => Scanned = nodesFile
         /\ phase = "edges" => Scanned = edgesFile
<1>1. nodesFile \in Seq(Line) /\ edgesFile \in Seq(Line)
  BY FilesAssumption DEF TypeOK, File
<1>2. Scanned \in Seq(Line)
  BY <1>1 DEF Scanned
<1>3. pos \in 1..Len(Scanned)
  <2>1. pos \in Nat /\ pos # 0 /\ pos <= Len(Scanned) /\ Len(Scanned) \in Nat
    BY <1>2 DEF TypeOK, HasLine
  <2> QED
    BY <2>1
<1>4. Scanned[pos] \in Line
  BY <1>2, <1>3
<1> QED
  BY <1>4 DEF Line, Scanned

\* Whatever is read becomes a header of tokens or an id that is a token.
LEMMA TypeNext ==
  TypeOK /\ [Next]_vars => TypeOK'
<1> SUFFICES ASSUME TypeOK, [Next]_vars PROVE TypeOK'
  OBVIOUS
<1> USE DEF TypeOK, files, Scanning, Verdicts
<1>1. pos + 1 \in Nat \ {0}
  OBVIOUS
<1>2. CASE SkipBlank
  BY <1>1, <1>2 DEF SkipBlank, Advance
<1>3. CASE ReadHeader
  BY <1>1, <1>3, ScannedLineType DEF ReadHeader, Advance
<1>4. CASE ReadNodeRow
  <2>1. RowId(nodesFile[pos]) \in Tokens
    BY <1>4, ScannedLineType, FirstFieldType DEF ReadNodeRow, RowId
  <2> QED
    BY <1>1, <1>4, <2>1 DEF ReadNodeRow, Advance
<1>5. CASE ReadEdgeRow
  <2>1. Field(header, edgesFile[pos], "@id") \in Tokens
    BY <1>5, ScannedLineType, FieldType DEF ReadEdgeRow
  <2> QED
    BY <1>1, <1>5, <2>1 DEF ReadEdgeRow, Advance
<1>6. CASE Refuse
  BY <1>6 DEF Refuse, Conclude
<1>7. CASE LineTooLong \/ ReadFails
  BY <1>7 DEF LineTooLong, ReadFails, Conclude
<1>8. CASE EndNodes
  <2>1. NoHeader \in Seq(Tokens)
    BY DEF NoHeader
  <2> QED
    BY <1>8, <2>1 DEF EndNodes
<1>9. CASE EndEdges
  BY <1>9 DEF EndEdges, Conclude
<1>10. CASE UNCHANGED vars
  BY <1>10 DEF vars
<1> QED
  BY <1>2, <1>3, <1>4, <1>5, <1>6, <1>7, <1>8, <1>9, <1>10 DEF Next, Process

\* The header and the two id maps hold cells of the files and nothing else,
\* and the scan stays within the two passes and the results of Validate.
THEOREM ValidatorTypes == Spec => []TypeOK
<1>1. Init => TypeOK
  BY DEF Init, TypeOK, NoHeader, Scanning
<1> QED
  BY <1>1, TypeNext, PTL DEF Spec
=============================================================================
