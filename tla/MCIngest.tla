------------------------------ MODULE MCIngest ------------------------------
(***************************************************************************)
(* Small files for TLC: a row of each kind the code distinguishes.  P, Q   *)
(* are node labels, K, L edge labels, n1..n3 nodes, e1, e2, h1, h2 edges,  *)
(* age, w properties, Old and old two spellings of one value.              *)
(***************************************************************************)
EXTENDS IngestClaims, IngestRefinement

MCTokens == Keywords \cup {"", "T", "t", "F", "P", "Q", "K", "L", "n", "n1", "n2", "n3",
                           "e1", "e2", "h1", "h2", "age", "w", "Old", "old", "huge"}
MCAtTokens == Keywords
MCLongTokens == {"huge"}
MCGiantTokens == {"huge"}

MCNorm == [t \in MCTokens |-> IF t = "Old" THEN "old" ELSE t]

\* Hashes collide when the endpoints are the same node.
MCHashID == [t \in MCTokens \X MCTokens \X MCTokens |-> IF t[1] = t[3] THEN "h1" ELSE "h2"]

\* The only text that can be cut within a cell; "n" is no node.
MCPrefixes == [t \in MCTokens |-> IF t = "n2" THEN {"n", "n2"} ELSE {t}]

NodeHead == <<"@id", "@label", "age">>
EdgeHead == <<"@id", "@label", "@out", "@in", "@dir", "w">>

\* Valid: two plain nodes.
TwoNodes == <<NodeHead, <<"n1", "P", "Old">>, <<"n2", "Q", "">>>>
\* Valid, read alike, but a node row has no label.
Unlabelled == <<NodeHead, <<"n1", "P", "old">>, <<"n2", "", "w">>>>
\* Invalid: an id twice, a row before any header, a short row, a second header.
Overwriting == <<<<"n3", "P">>, NodeHead, <<"n1", "P", "Old">>, <<"n1", "Q">>,
                 <<"@label", "@id">>, <<"P", "n2">>>>
\* Valid, but the ingestor sees no header.
Shifted == <<<<"age", "@id", "@label">>, <<"w", "n1", "P">>, <<"old", "n2", "P">>>>
\* One line is beyond the ingestor's buffer.
Huge == <<NodeHead, <<"n1", "P", "old">>, <<"huge", "P", "">>, <<"n2", "P", "">>>>

\* Valid: two edges of one label, in both spellings of the direction.
TwoEdges == <<EdgeHead, <<"e1", "K", "n1", "n2", "T", "Old">>,
                        <<"e2", "K", "n2", "n2", "t", "">>>>
\* Valid: a reverse edge is skipped, a direction defaults, two labels.
Reversed == <<EdgeHead, <<"e1", "K", "n1", "n2", "F", "">>, <<"">>,
                        <<"e2", "L", "n2", "n1", "", "w">>,
                        <<"h1", "", "n2", "n2", "T", "">>>>
\* Invalid: no ids, colliding hashes, an endpoint the nodes file lacks.
Hashed == <<<<"@label", "@out", "@in", "w">>, <<"K", "n1", "n1", "Old">>,
            <<"K", "n2", "n2", "">>, <<"L", "n1", "n3", "old">>>>

\* The file sets of the runs.
FaultyNodeFiles == {TwoNodes, Overwriting}
FaultyEdgeFiles == {TwoEdges, Hashed}
RetriedNodeFiles == {TwoNodes, Overwriting}
RetriedEdgeFiles == {TwoEdges}
CleanNodeFiles == {TwoNodes, Unlabelled, Overwriting, Shifted, Huge}
CleanEdgeFiles == {TwoEdges, Reversed, Hashed}
ClaimNodeFiles == {TwoNodes, Unlabelled}
ClaimEdgeFiles == {TwoEdges, Reversed}
=============================================================================
