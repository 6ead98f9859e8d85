------------------------- MODULE BenchmarkProperties -------------------------
(***************************************************************************)
(* What a benchmark promises about the runs it measures, about its report, *)
(* and that it ends; and what documentation and messages say of it that    *)
(* the code does not do.                                                   *)
(***************************************************************************)
EXTENDS Benchmark

-----------------------------------------------------------------------------
(* What holds.                                                             *)

\* In a cold benchmark a query is measured on a server that was started for
\* it, that no earlier query keeps busy, whatever crashed or timed out before,
\* and whose first run finds it untouched, if only the restart command did what
\* it is for.  In any benchmark the database is the one selected, unless the
\* server refused it, or seemed to, after the latest restart.
MeasuredAsMeant ==
  \A k \in Measured :
    LET on == results[k].on
    IN  /\ cold /\ on.restarted =>
             /\ on.warm \subseteq {queries[i]}
             /\ results[k].run = 1 => on.warm = {}
             /\ on.alone
        /\ on.restored => on.mounted = ActiveDB

\* The final results file is the one a benchmark without any server trouble
\* would be entitled to: see module Report.
R == INSTANCE Report
       WITH silent <- fast, position <- i, lines <- finalFile,
            state <- IF pc \in {"failed", "panicked"} THEN "aborted"
                     ELSE IF pc = "done" THEN "complete" ELSE "running"
ReportSpec == R!Spec

\* The benchmark ends, whatever the server does: its health checks may keep
\* failing, and may outlast the tick and the timeout of restartServer.
BenchmarkEnds == pc = "open" ~> pc \in {"done", "failed", "panicked"}

-----------------------------------------------------------------------------
(* What does not.                                                          *)

\* README.md:174, "Restart the server before each query to measure performance
\* without cache": what is measured is a server without cache, in every run of a
\* query, and whatever became of the restart command.
ColdMeasuresCold == cold => \A k \in Measured : results[k].on.warm = {}
=============================================================================
