---------------------------- MODULE IngestClaims ----------------------------
(***************************************************************************)
(* What the documentation, the comments and the messages of the program    *)
(* say of an ingestion and the code does not do.  Each is refuted by a run *)
(* of its own.                                                             *)
(***************************************************************************)
EXTENDS IngestProperties

\* README.md: \validate checks "syntax and referential integrity before
\* ingestion", and \i validates first.  So no edge that a validated first
\* ingestion stores should have an endpoint that is not stored.
ValidatedLoadIsIntact ==
  ~lossy /\ ingests = 1 /\ ~yolo =>
    \A id \in DOMAIN View["edges"] :
      {View["edges"][id].src, View["edges"][id].dst} \subseteq DOMAIN View["nodes"]

\* executor.go prints "Ingestion completed successfully."  Once it has, and
\* the store is closed or the process gone, the rows should be on disk: after a
\* crash in between, and after a close that could not flush.
SuccessIsDurable == outcome = "success" /\ pc = "idle" => HoldsRows(sst)
=============================================================================
