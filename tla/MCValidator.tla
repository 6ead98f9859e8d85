----------------------------- MODULE MCValidator -----------------------------
(***************************************************************************)
(* Every nodes file and every edges file of at most MaxLines lines drawn   *)
(* from a pool of lines that differ in what the validator looks at.        *)
(***************************************************************************)
EXTENDS Validator

CONSTANTS MaxLines

MCTokens == Keywords \cup {"", "T", "t", "n1", "n2", "n3", "e", "f", "age", "huge"}
MCAtTokens == Keywords
MCLongTokens == {"huge"}
MCGiantTokens == {}

\* A plain header, one that does not start with "@", one with a second @id
\* column, one without @label; rows that fit them, a short row, a blank.
NodeLines == {
  <<"">>,
  <<"@id", "@label">>,
  <<"age", "@id", "@label", "@id">>,
  <<"@id", "age">>,
  <<"n1", "">>,
  <<"n2", "T">>,
  <<"", "n1", "T", "">>,
  <<"n1">>,
  <<"huge", "T">>}

EdgeLines == {
  <<"@id", "@label", "@out", "@in", "@dir">>,
  <<"@in", "@dir", "@out", "@label", "@id", "@out">>,
  <<"@id", "@label", "@out", "@in">>,
  <<"e", "T", "n1", "n2", "T">>,
  <<"e", "T", "n2", "n2", "T">>,
  <<"", "T", "n1", "n2", "T">>,
  <<"n2", "t", "n3", "T", "f", "n1">>}

FilesOver(lines) == UNION {[1..n -> lines] : n \in 0..MaxLines}
MCNodeFiles == FilesOver(NodeLines)
MCEdgeFiles == FilesOver(EdgeLines)
=============================================================================
