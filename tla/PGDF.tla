-------------------------------- MODULE PGDF --------------------------------
(***************************************************************************)
(* The PGDF text format as the program reads it.  A file is a sequence of  *)
(* lines, a line the non-empty sequence of its cells (the text between the *)
(* "|" separators, trimmed: every consumer trims each cell).  Two readers  *)
(* interpret the same file, and they are kept apart here because they      *)
(* disagree: the parser and ingestor (internal/parser/pgdf.go,             *)
(* internal/pipeline/ingestor.go) and the validator                        *)
(* (internal/validator/validator.go).                                      *)
(***************************************************************************)
EXTENDS Naturals, Sequences, FiniteSetsExt

CONSTANTS
  Tokens,       \* the texts a cell may hold
  AtTokens,     \* those that start with "@"
  LongTokens,   \* those that make a line exceed the validator's 64 KB scanner
  GiantTokens   \* those that make a line exceed the ingestor's 10 MB scanner

Keywords == {"@id", "@label", "@out", "@in", "@dir"}

ASSUME TokensAssumption ==
  /\ Keywords \subseteq AtTokens
  /\ AtTokens \subseteq Tokens
  /\ {"", "T", "t"} \subseteq Tokens \ AtTokens
  /\ GiantTokens \subseteq LongTokens
  /\ LongTokens \subseteq Tokens

Line == Seq(Tokens) \ {<<>>}
File == Seq(Line)

NoHeader == <<>>        \* currentHeader == nil
Positions(file) == 1..Len(file)

IsBlank(line) == line = <<"">>
Holds(line, texts) == \E c \in 1..Len(line) : line[c] \in texts

\* The header in force when line i is read: the latest of the header lines
\* (the set heads of positions) before it.
HeaderBefore(file, heads, i) ==
  LET earlier == {h \in heads : h < i}
  IN  IF earlier = {} THEN NoHeader ELSE file[Max(earlier)]

-----------------------------------------------------------------------------
(* The parser: one record from one line under one header.                  *)

Columns(header, key) == {c \in 1..Len(header) : header[c] = key}

\* A row shorter than its header reads as if padded with empty cells.
Cell(line, c) == IF c <= Len(line) THEN line[c] ELSE ""

Filled(header, line, key) == {c \in Columns(header, key) : Cell(line, c) # ""}

\* When a special column occurs twice the later one wins, even when empty.
Field(header, line, key) ==
  LET columns == Columns(header, key)
  IN  IF columns = {} THEN "" ELSE Cell(line, Max(columns))

\* A direction or a property is overwritten by later non-empty cells only.
FilledField(header, line, key, default) ==
  LET columns == Filled(header, line, key)
  IN  IF columns = {} THEN default ELSE Cell(line, Max(columns))

PropKeys(header, line) ==
  {key \in Tokens \ AtTokens : Filled(header, line, key) # {}}

ParseLine(header, line) ==
  [id    |-> Field(header, line, "@id"),
   label |-> Field(header, line, "@label"),
   src   |-> Field(header, line, "@out"),
   dst   |-> Field(header, line, "@in"),
   dir   |-> FilledField(header, line, "@dir", "T"),
   props |-> [key \in PropKeys(header, line) |->
                FilledField(header, line, key, "")]]

-----------------------------------------------------------------------------
(* The ingestor's reading of a file.                                       *)

\* strings.HasPrefix on the trimmed line: only the first cell is looked at.
IsIngestHeader(line) == line[1] \in AtTokens
TooLongToIngest(line) == Holds(line, GiantTokens)

IngestHeads(file) == {i \in Positions(file) : IsIngestHeader(file[i])}
IngestHeader(file, i) == HeaderBefore(file, IngestHeads(file), i)

IsIngestRow(header, line) ==
  ~IsBlank(line) /\ ~IsIngestHeader(line) /\ header # NoHeader

AcceptsNode(rec) == rec.id # "" /\ rec.label # ""

IsForward(dir) == dir \in {"T", "t"}       \* strings.EqualFold(dir, "T")
AcceptsEdge(rec) ==
  rec.label # "" /\ rec.src # "" /\ rec.dst # "" /\ IsForward(rec.dir)

RecordAt(file, i) == ParseLine(IngestHeader(file, i), file[i])

IngestRows(file) ==
  {i \in Positions(file) : IsIngestRow(IngestHeader(file, i), file[i])}
NodeRows(file) == {i \in IngestRows(file) : AcceptsNode(RecordAt(file, i))}
EdgeRows(file) == {i \in IngestRows(file) : AcceptsEdge(RecordAt(file, i))}

-----------------------------------------------------------------------------
(* The validator's reading of a file, and the files it is meant to accept. *)

\* A header is a line where at least one field starts with @.
IsHeader(line) == Holds(line, AtTokens)
TooLongToValidate(line) == Holds(line, LongTokens)

ValHeads(file) == {i \in Positions(file) : IsHeader(file[i])}
ValHeader(file, i) == HeaderBefore(file, ValHeads(file), i)
ValRows(file) ==
  {i \in Positions(file) : ~IsBlank(file[i]) /\ ~IsHeader(file[i])}

HasFields(header, fields) == \A f \in fields : Holds(header, {f})
NodeFields == {"@id", "@label"}
EdgeFields == Keywords

\* The nodes loop stops at the first @id column, the edges loop keeps the last.
FirstField(header, line, key) ==
  LET columns == Columns(header, key)
  IN  IF columns = {} THEN "" ELSE Cell(line, Min(columns))

NodeIdAt(file, i) == FirstField(ValHeader(file, i), file[i], "@id")
EdgeFieldAt(file, i, key) == Field(ValHeader(file, i), file[i], key)

WellShaped(header, line) == header # NoHeader /\ Len(line) = Len(header)

ValidNodeLine(file, i) ==
  /\ ~TooLongToValidate(file[i])
  /\ i \in ValHeads(file) => HasFields(file[i], NodeFields)
  /\ i \in ValRows(file) =>
       /\ WellShaped(ValHeader(file, i), file[i])
       /\ NodeIdAt(file, i) # ""
       /\ \A j \in ValRows(file) : j < i => NodeIdAt(file, j) # NodeIdAt(file, i)

ValidNodes(file) == \A i \in Positions(file) : ValidNodeLine(file, i)

NodeIds(file) == {NodeIdAt(file, i) : i \in ValRows(file)}

ValidEdgeLine(file, i, nodeIDs) ==
  /\ ~TooLongToValidate(file[i])
  /\ i \in ValHeads(file) => HasFields(file[i], EdgeFields)
  /\ i \in ValRows(file) =>
       /\ WellShaped(ValHeader(file, i), file[i])
       /\ EdgeFieldAt(file, i, "@id") # ""
       /\ \A j \in ValRows(file) :
            j < i => EdgeFieldAt(file, j, "@id") # EdgeFieldAt(file, i, "@id")
       /\ {EdgeFieldAt(file, i, "@out"), EdgeFieldAt(file, i, "@in")} \subseteq nodeIDs

ValidEdges(file, nodeIDs) ==
  \A i \in Positions(file) : ValidEdgeLine(file, i, nodeIDs)

ValidFiles(nodes, edges) == ValidNodes(nodes) /\ ValidEdges(edges, NodeIds(nodes))
=============================================================================
