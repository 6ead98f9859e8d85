------------------------------ MODULE Validator ------------------------------
(***************************************************************************)
(* PGDFValidator.Validate (internal/validator/validator.go): one pass over *)
(* the nodes file that collects the node ids, then one pass over the edges *)
(* file that checks every reference against them.  A step is one iteration *)
(* of a scanning loop.                                                     *)
(***************************************************************************)
EXTENDS PGDF

CONSTANTS
  NodeFiles, EdgeFiles,   \* the files that may be handed to \validate
  ReadFaults              \* whether opening or reading a file may fail

ASSUME FilesAssumption ==
  /\ NodeFiles \subseteq File
  /\ EdgeFiles \subseteq File
  /\ ReadFaults \in BOOLEAN

VARIABLES
  nodesFile, edgesFile,   \* the two files, read and never written
  phase,                  \* the running loop, or the result of Validate
  pos,                    \* the line the scanner returns next
  header,                 \* currentHeader
  nodeIDs, edgeIDs        \* the two maps of PGDFValidator

files == <<nodesFile, edgesFile>>
vars == <<nodesFile, edgesFile, phase, pos, header, nodeIDs, edgeIDs>>

Scanning == {"nodes", "edges"}
\* "misread" is an error of the "invalid" kind about a line that was cut short.
Verdicts == {"valid", "invalid", "misread", "ioerror"}

TypeOK ==
  /\ nodesFile \in NodeFiles
  /\ edgesFile \in EdgeFiles
  /\ phase \in Scanning \cup Verdicts
  /\ pos \in Nat \ {0}
  /\ header \in Seq(Tokens)
  /\ nodeIDs \subseteq Tokens
  /\ edgeIDs \subseteq Tokens

Init ==
  /\ nodesFile \in NodeFiles
  /\ edgesFile \in EdgeFiles
  /\ phase = "nodes"
  /\ pos = 1
  /\ header = NoHeader
  /\ nodeIDs = {}
  /\ edgeIDs = {}

Scanned == IF phase = "nodes" THEN nodesFile ELSE edgesFile
Mandatory == IF phase = "nodes" THEN NodeFields ELSE EdgeFields

\* scanner.Scan() returned a line that fits its 64 KB buffer.
HasLine ==
  /\ phase \in Scanning
  /\ pos <= Len(Scanned)
  /\ ~TooLongToValidate(Scanned[pos])

Advance == pos' = pos + 1 /\ UNCHANGED <<files, phase>>
Conclude(verdict) ==
  phase' = verdict /\ UNCHANGED <<files, pos, header, nodeIDs, edgeIDs>>

\* Variant: the loop does not move past a blank line.
StickOnBlank ==
  HasLine /\ IsBlank(Scanned[pos]) /\ UNCHANGED vars

SkipBlank ==
  /\ HasLine
  /\ IsBlank(Scanned[pos])
  /\ Advance
  /\ UNCHANGED <<header, nodeIDs, edgeIDs>>

ReadHeader ==
  /\ HasLine
  /\ IsHeader(Scanned[pos])
  /\ HasFields(Scanned[pos], Mandatory)
  /\ header' = Scanned[pos]
  /\ Advance
  /\ UNCHANGED <<nodeIDs, edgeIDs>>

IsRow(line) == ~IsBlank(line) /\ ~IsHeader(line)

\* Variant: the loop runs on after the first @id column.
LastRowId(line) == Field(header, line, "@id")

RowId(line) == FirstField(header, line, "@id")

\* Variant: ids are not compared.
AnyRowPasses(line) == WellShaped(header, line) /\ RowId(line) # ""

NodeRowPasses(line) ==
  WellShaped(header, line) /\ RowId(line) # "" /\ RowId(line) \notin nodeIDs

ReadNodeRow ==
  /\ phase = "nodes" /\ HasLine
  /\ IsRow(nodesFile[pos]) /\ NodeRowPasses(nodesFile[pos])
  /\ nodeIDs' = nodeIDs \cup {RowId(nodesFile[pos])}
  /\ Advance
  /\ UNCHANGED <<header, edgeIDs>>

EdgeRowPasses(line) ==
  LET id == Field(header, line, "@id")
  IN  /\ WellShaped(header, line) /\ id # "" /\ id \notin edgeIDs
      /\ Field(header, line, "@out") \in nodeIDs
      /\ Field(header, line, "@in") \in nodeIDs

ReadEdgeRow ==
  /\ phase = "edges" /\ HasLine
  /\ IsRow(edgesFile[pos]) /\ EdgeRowPasses(edgesFile[pos])
  /\ edgeIDs' = edgeIDs \cup {Field(header, edgesFile[pos], "@id")}
  /\ Advance
  /\ UNCHANGED <<header, nodeIDs>>

\* Every early return of the two loops; nobody reads edgeIDs afterwards.
Refuse ==
  /\ HasLine
  /\ \/ IsHeader(Scanned[pos]) /\ ~HasFields(Scanned[pos], Mandatory)
     \/ phase = "nodes" /\ IsRow(nodesFile[pos]) /\ ~NodeRowPasses(nodesFile[pos])
     \/ phase = "edges" /\ IsRow(edgesFile[pos]) /\ ~EdgeRowPasses(edgesFile[pos])
  /\ Conclude("invalid")

\* os.Open fails, a read fails, or bufio.ErrTooLong ends the scan.
LineTooLong ==
  /\ phase \in Scanning
  /\ pos <= Len(Scanned)
  /\ TooLongToValidate(Scanned[pos])
  /\ Conclude("ioerror")

\* A read that fails within a line hands the beginning of it to the loop, which
\* may refuse its shape before scanner.Err() is asked.
ReadFails ==
  /\ phase \in Scanning /\ ReadFaults
  /\ \/ Conclude("ioerror")
     \/ /\ pos <= Len(Scanned) /\ ~IsBlank(Scanned[pos])
        /\ Conclude("misread")

\* Variant: the second scan starts before its first line.
EndNodesAtZero ==
  /\ phase = "nodes" /\ pos > Len(nodesFile)
  /\ phase' = "edges" /\ pos' = 0 /\ header' = NoHeader
  /\ UNCHANGED <<files, nodeIDs, edgeIDs>>

EndNodes ==
  /\ phase = "nodes" /\ pos > Len(nodesFile)
  /\ phase' = "edges"
  /\ pos' = 1
  /\ header' = NoHeader
  /\ UNCHANGED <<files, nodeIDs, edgeIDs>>

EndEdges ==
  /\ phase = "edges" /\ pos > Len(edgesFile)
  /\ Conclude("valid")

Process ==
  \/ SkipBlank \/ ReadHeader \/ ReadNodeRow \/ ReadEdgeRow
  \/ Refuse \/ LineTooLong \/ EndNodes \/ EndEdges

Next == Process \/ ReadFails

Spec == Init /\ [][Next]_vars

\* The loop runs on the caller's goroutine until it returns; no read has to fail.
FairSpec == Spec /\ WF_vars(Process)

-----------------------------------------------------------------------------
(* Safety.                                                                 *)

\* Soundness: "Validation successful!" is only reported of files in which
\* every header is complete, every row has its header's width and a fresh
\* non-empty id, and every edge joins two node rows of the nodes file,
\* whatever the order of lines, the repeated headers and repeated columns.
ValidIsSound == phase = "valid" => ValidFiles(nodesFile, edgesFile)

\* Completeness: no file that satisfies the declarative rules is refused, as
\* long as the lines arrive whole.
InvalidIsJustified == phase = "invalid" => ~ValidFiles(nodesFile, edgesFile)

-----------------------------------------------------------------------------
(* Liveness.                                                               *)

\* Validate returns: the two loops never stick on a line.
Terminates == <>(phase \in Verdicts)
=============================================================================
