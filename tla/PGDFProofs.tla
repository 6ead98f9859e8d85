------------------------------ MODULE PGDFProofs ------------------------------
(***************************************************************************)
(* Facts about the PGDF format, for files of any length over any tokens:   *)
(* what validator and ingestor compute line by line is what the            *)
(* declarative definitions of PGDF say of whole files.                     *)
(***************************************************************************)
EXTENDS PGDF, FiniteSetTheorems, WellFoundedInduction, TLAPS

-----------------------------------------------------------------------------
(* Extreme columns.                                                        *)

\* A non-empty set of natural numbers has a least element.
LEMMA LeastElement ==
  ASSUME NEW S, S \subseteq Nat, S # {}
  PROVE  \E x \in S : \A y \in S : x <= y
<1>1. \A a, b \in Nat : a < b => <<a, b>> \in OpToRel(<, Nat)
  BY DEF OpToRel
<1>2. PICK x \in S : \A y \in S : <<y, x>> \notin OpToRel(<, Nat)
  BY WFMin, NatLessThanWellFounded
<1>3. \A y \in S : ~(y < x)
  BY <1>1, <1>2
<1> QED
  BY <1>3

\* A non-empty set of column numbers has a last and a first one.
LEMMA ExtremeColumns ==
  ASSUME NEW n \in Nat, NEW S, S \subseteq 1..n, S # {}
  PROVE  /\ Max(S) \in S /\ \A y \in S : y <= Max(S)
         /\ Min(S) \in S /\ \A y \in S : Min(S) <= y
<1>1. \A y \in S : y \in Nat /\ y <= n
  OBVIOUS
<1>2. \E x \in S : \A y \in S : x <= y
  BY <1>1, LeastElement
<1>3. \E x \in S : \A y \in S : x >= y
  <2> DEFINE T == {n - y : y \in S}
  <2>1. T \subseteq Nat /\ T # {}
    <3>1. \A y \in S : n - y \in Nat
      BY <1>1
    <3> QED
      BY <3>1
  <2>2. PICK t \in T : \A u \in T : t <= u
    BY <2>1, LeastElement
  <2>3. PICK x \in S : t = n - x
    OBVIOUS
  <2>4. ASSUME NEW y \in S PROVE x >= y
    BY <1>1, <2>2, <2>3
  <2> QED
    BY <2>4
<1>4. Max(S) \in S /\ \A y \in S : Max(S) >= y
  BY <1>3 DEF Max
<1>5. Min(S) \in S /\ \A y \in S : Min(S) <= y
  BY <1>2 DEF Min
<1>6. \A y \in S : Max(S) >= y <=> y <= Max(S)
  BY <1>1, <1>4
<1> QED
  BY <1>4, <1>5, <1>6
-----------------------------------------------------------------------------
(* The header in force, computed line by line.                             *)

\* No header is in force at the first line.
LEMMA FirstHeader ==
  ASSUME NEW file, NEW heads, \A h \in heads : h \in Nat \ {0}
  PROVE  HeaderBefore(file, heads, 1) = NoHeader
<1>1. {h \in heads : h < 1} = {}
  OBVIOUS
<1> QED
  BY <1>1 DEF HeaderBefore

\* The header in force changes on header lines only: currentHeader can be
\* kept in one variable.
LEMMA NextHeader ==
  ASSUME NEW file, NEW heads, \A h \in heads : h \in Nat, NEW i \in Nat
  PROVE  HeaderBefore(file, heads, i + 1) =
           IF i \in heads THEN file[i] ELSE HeaderBefore(file, heads, i)
<1>1. CASE i \in heads
  <2> DEFINE earlier == {h \in heads : h < i + 1}
  <2>1. i \in earlier /\ \A h \in earlier : h \in Nat /\ i >= h
    BY <1>1
  <2> HIDE DEF earlier
  <2>2. \A x \in earlier : (\A y \in earlier : x >= y) => x = i
    BY <2>1
  <2>3. Max(earlier) = i
    BY <2>1, <2>2 DEF Max
  <2>4. earlier # {}
    BY <2>1
  <2> QED
    BY <1>1, <2>3, <2>4 DEF HeaderBefore, earlier
<1>2. CASE i \notin heads
  <2>1. {h \in heads : h < i + 1} = {h \in heads : h < i}
    BY <1>2
  <2> QED
    BY <1>2, <2>1 DEF HeaderBefore
<1> QED
  BY <1>1, <1>2

\* Header positions are line numbers.
LEMMA HeadPositions ==
  ASSUME NEW file
  PROVE  \A h \in ValHeads(file) \cup IngestHeads(file) : h \in Nat \ {0}
<1>1. \A h \in Positions(file) : h \in Nat \ {0}
  BY DEF Positions
<1> QED
  BY <1>1 DEF ValHeads, IngestHeads

\* A blank line is skipped before it could be taken for a header.
LEMMA BlankIsNoHeader ==
  ASSUME NEW line, IsBlank(line)
  PROVE  ~IsHeader(line)
<1>1. "" \notin AtTokens
  BY TokensAssumption
<1>2. \A c \in 1..Len(line) : line[c] = ""
  <2>1. line = <<"">>
    BY DEF IsBlank
  <2>2. Len(line) = 1 /\ line[1] = ""
    BY <2>1
  <2>3. \A c \in 1..1 : c = 1
    OBVIOUS
  <2> QED
    BY <2>2, <2>3
<1> QED
  BY <1>1, <1>2 DEF IsHeader, Holds

-----------------------------------------------------------------------------
(* The cells of a record.                                                  *)

\* A column of a header is one of its positions.
LEMMA ColumnPositions ==
  ASSUME NEW header \in Seq(Tokens), NEW key, Columns(header, key) # {}
  PROVE  /\ Max(Columns(header, key)) \in Columns(header, key)
         /\ Min(Columns(header, key)) \in Columns(header, key)
<1>1. Len(header) \in Nat /\ Columns(header, key) \subseteq 1..Len(header)
  BY DEF Columns
<1> QED
  BY <1>1, ExtremeColumns

\* Whatever a row lacks reads as an empty cell.
LEMMA CellType ==
  ASSUME NEW line \in Seq(Tokens), NEW c \in Nat \ {0}
  PROVE  Cell(line, c) \in Tokens
<1>1. "" \in Tokens
  BY TokensAssumption
<1>2. c <= Len(line) => line[c] \in Tokens
  OBVIOUS
<1> QED
  BY <1>1, <1>2 DEF Cell

\* A special column of a record holds a token.
LEMMA FieldType ==
  ASSUME NEW header \in Seq(Tokens), NEW line \in Seq(Tokens), NEW key
  PROVE  Field(header, line, key) \in Tokens
<1>1. CASE Columns(header, key) = {}
  BY <1>1, TokensAssumption DEF Field
<1>2. CASE Columns(header, key) # {}
  <2>1. Columns(header, key) \subseteq Nat \ {0}
    BY DEF Columns
  <2>2. Max(Columns(header, key)) \in Nat \ {0}
    BY <1>2, <2>1, ColumnPositions
  <2> QED
    BY <1>2, <2>2, CellType DEF Field
<1> QED
  BY <1>1, <1>2

\* Where a header names a column once, the validator's first column and the
\* parser's last one are the same.
LEMMA SingleColumn ==
  ASSUME NEW header \in Seq(Tokens), NEW line, NEW key,
         Cardinality(Columns(header, key)) <= 1
  PROVE  FirstField(header, line, key) = Field(header, line, key)
<1> DEFINE C == Columns(header, key)
<1>1. SUFFICES ASSUME C # {} PROVE Min(C) = Max(C)
  BY DEF FirstField, Field
<1>2. Min(C) \in C /\ Max(C) \in C
  BY <1>1, ColumnPositions
<1>3. IsFiniteSet(C)
  <2>1. Len(header) \in Int /\ C \in SUBSET (1..Len(header))
    BY DEF Columns
  <2>2. IsFiniteSet(1..Len(header))
    BY <2>1, FS_Interval
  <2> QED
    BY <2>1, <2>2, FS_Subset
<1>4. Cardinality(C) = 1
  BY <1>1, <1>3, FS_CardinalityType, FS_EmptySet
<1>5. \E x : C = {x}
  BY <1>3, <1>4, FS_Singleton
<1> QED
  BY <1>2, <1>5

-----------------------------------------------------------------------------
(* The ingestor's reading of a file, line by line.                         *)

\* The header the ingestor keeps in currentHeader is the one of the
\* declarative reading: none at first, then the latest header line.
LEMMA IngestHeaderSteps ==
  ASSUME NEW file \in File
  PROVE  /\ IngestHeader(file, 1) = NoHeader
         /\ \A p \in 1..Len(file) :
              IngestHeader(file, p + 1) =
                IF IsIngestHeader(file[p]) THEN file[p] ELSE IngestHeader(file, p)
<1>1. \A h \in IngestHeads(file) : h \in Nat \ {0}
  BY HeadPositions
<1>2. IngestHeader(file, 1) = NoHeader
  BY <1>1, FirstHeader DEF IngestHeader
<1>3. ASSUME NEW p \in 1..Len(file)
      PROVE  IngestHeader(file, p + 1) =
               IF IsIngestHeader(file[p]) THEN file[p] ELSE IngestHeader(file, p)
  <2>1. p \in Nat /\ (p \in IngestHeads(file) <=> IsIngestHeader(file[p]))
    BY DEF IngestHeads, Positions
  <2> QED
    BY <1>1, <2>1, NextHeader DEF IngestHeader
<1> QED
  BY <1>2, <1>3

\* A line is a node row, or an edge row, by the test of the loop on it.
LEMMA RowTests ==
  ASSUME NEW file, NEW p \in 1..Len(file)
  PROVE  /\ p \in NodeRows(file) <=>
              /\ IsIngestRow(IngestHeader(file, p), file[p])
              /\ AcceptsNode(ParseLine(IngestHeader(file, p), file[p]))
         /\ p \in EdgeRows(file) <=>
              /\ IsIngestRow(IngestHeader(file, p), file[p])
              /\ AcceptsEdge(ParseLine(IngestHeader(file, p), file[p]))
BY DEF NodeRows, EdgeRows, IngestRows, RecordAt, Positions

\* Rows are line numbers.
LEMMA RowPositions ==
  ASSUME NEW file
  PROVE  NodeRows(file) \subseteq 1..Len(file) /\ EdgeRows(file) \subseteq 1..Len(file)
BY DEF NodeRows, EdgeRows, IngestRows, Positions
=============================================================================
