-------------------------- MODULE IngestRefinement --------------------------
(***************************************************************************)
(* Module Ingest implements GraphLoad: batches, flushes, families and the  *)
(* scanners' positions, mapped to rows and records.                        *)
(***************************************************************************)
EXTENDS IngestProperties

Lines(kind, file, first) ==
  [n \in 1..(Len(file) + 1 - first) |-> [kind |-> kind, file |-> file, at |-> first + n - 1]]

NodeLines(file, first) == Lines("nodes", file, first)
EdgeLines(file, first) == Lines("edges", file, first)

\* The record of an accepted row.
RowIn(line) ==
  LET rows == IF line.kind = "nodes" THEN NodeRows(line.file) ELSE EdgeRows(line.file)
      recs == {RecordAt(line.file, p) : p \in rows \cap {line.at}}
  IN  IF line.kind = "nodes"
      THEN {[kind |-> "nodes", id |-> rec.id, value |-> NodeValue(rec)] : rec \in recs}
      ELSE {[kind |-> "edges", id |-> EdgeId(rec), value |-> EdgeValue(rec)] : rec \in recs}

Records(bundle) == [kind \in {"nodes", "edges"} |-> bundle[kind]]

G == INSTANCE GraphLoad
       WITH Loads   <- {NodeLines(n, 1) \o EdgeLines(e, 1) : n \in NodeFiles, e \in EdgeFiles},
            Yield   <- RowIn,
            loading <- pc # "idle",
            result  <- outcome,
            todo    <- CASE pc = "nodes" -> NodeLines(nodesFile, pos) \o EdgeLines(edgesFile, 1)
                         [] pc = "edges" -> EdgeLines(edgesFile, pos)
                         [] OTHER        -> <<>>,
            held    <- Records(batch),
            visible <- Records(View),
            safe    <- Records(sst)

\* As long as no read fails within a line, an ingestion is what GraphLoad says:
\* rows become visible in file order and in groups, none is skipped, altered or
\* added, whatever fails or crashes in between, and success means all of them.
LoadSpec == G!Spec
=============================================================================
