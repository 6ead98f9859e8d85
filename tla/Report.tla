------------------------------- MODULE Report -------------------------------
(***************************************************************************)
(* What a benchmark promises the reader of its final results file, with no *)
(* server, restart or error handling in sight: one line per query, in the  *)
(* order of the queries, each an honest summary of the runs of that query. *)
(***************************************************************************)
EXTENDS Naturals, Sequences

VARIABLES
  queries,   \* the queries, in order
  silent,    \* whether there is a file at all
  position,  \* which query is next to be concluded
  results,   \* what its runs have brought so far
  lines,     \* the lines of the file
  state      \* "running", "complete" or "aborted"

vars == <<queries, silent, position, results, lines, state>>

Init ==
  /\ position = 1
  /\ results = <<>> /\ lines = <<>>
  /\ state = "running"

Good == {k \in DOMAIN results : results[k].kind = "ok"}
Bad == {k \in DOMAIN results : results[k].kind = "failed"}

\* The average lies between two of the times measured.
Within(line, runs) ==
  \E lo, hi \in runs : /\ results[lo].time * line.of <= line.sum
                       /\ line.sum <= results[hi].time * line.of

\* An average whenever something was measured; of five runs any one may be an
\* outlier, the others still enclose the average.  Else the first error.
Honest(line) ==
  IF Good # {}
  THEN /\ line.kind = "average"
       /\ Within(line, Good)
       /\ Good = 1..5 => \A k \in Good : Within(line, Good \ {k})
  ELSE /\ line.kind = "failed"
       /\ IF Bad = {} THEN line.err \in {"FAILED", "restart"}
                      ELSE line.err = results[1].err

Measure ==
  /\ state = "running" /\ position <= Len(queries)
  /\ Len(results) < 5
  /\ Len(results') = Len(results) + 1
  /\ SubSeq(results', 1, Len(results)) = results
  /\ UNCHANGED <<queries, silent, position, lines, state>>

Conclude ==
  /\ state = "running" /\ position <= Len(queries)
  /\ IF silent
     THEN UNCHANGED lines
     ELSE /\ Len(lines') = Len(lines) + 1
          /\ SubSeq(lines', 1, Len(lines)) = lines
          /\ lines'[position].query = queries[position]
          /\ Honest(lines'[position])
  /\ position' = position + 1 /\ results' = <<>>
  /\ UNCHANGED <<queries, silent, state>>

Complete ==
  /\ state = "running" /\ position > Len(queries)
  /\ state' = "complete"
  /\ UNCHANGED <<queries, silent, position, results, lines>>

\* The program dies: what is in the file stays there.
Abort ==
  /\ state = "running"
  /\ state' = "aborted"
  /\ UNCHANGED <<queries, silent, position, results, lines>>

Next == Measure \/ Conclude \/ Complete \/ Abort

Spec == Init /\ [][Next]_vars
=============================================================================
