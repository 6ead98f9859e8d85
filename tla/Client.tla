------------------------------- MODULE Client -------------------------------
(***************************************************************************)
(* The PathDB server as internal/server/client.go meets it: a process      *)
(* elsewhere that is up or not, has a database mounted or not, and runs    *)
(* one query at a time for this client; and the requests the client makes, *)
(* each of them after a health check.  The server itself is external.      *)
(***************************************************************************)
EXTENDS Naturals, Sequences, FiniteSets

CONSTANTS
  Databases,     \* the databases the server knows
  Words,         \* the words by which the program recognises an error
  OomWords,      \* those it takes for a crash or exhausted memory
  TimeoutWords,  \* those it takes for a timeout
  Messages,      \* the messages of the server, each the set of its Words
  Faults         \* what may go wrong

NoDB == "no-db"  \* nothing is mounted

ASSUME ClientAssumption ==
  /\ NoDB \notin Databases
  /\ OomWords \subseteq Words /\ TimeoutWords \subseteq Words
  /\ {"not reachable", "eof"} \subseteq OomWords
  /\ "timeout" \in TimeoutWords \ OomWords
  /\ Messages \subseteq SUBSET Words

VARIABLES
  status,    \* "up", "down" or "starting"
  mounted,   \* the database in use
  warm,      \* the queries this server process has begun to run
  orphan     \* whether it still runs a query whose client gave up

serverVars == <<status, mounted, warm, orphan>>

\* Whatever the queries are.
ServerTypeOK ==
  /\ status \in {"up", "down", "starting"}
  /\ mounted \in Databases \cup {NoDB}
  /\ orphan \in BOOLEAN

\* What the process had in memory goes with it.
Gone(next) ==
  /\ status' = next
  /\ mounted' = NoDB /\ warm' = {} /\ orphan' = FALSE

Crashes == status # "down" /\ "crash" \in Faults /\ Gone("down")

Boots == status = "starting" /\ status' = "up" /\ UNCHANGED <<mounted, warm, orphan>>

OrphanEnds == orphan /\ orphan' = FALSE /\ UNCHANGED <<status, mounted, warm>>

-----------------------------------------------------------------------------
(* The requests.                                                           *)

\* The health check has two seconds: a slow server looks like none.
CheckStatus(ok) == IF ok THEN status = "up" ELSE status # "up" \/ "slow" \in Faults

\* A request reports failure: the server was not reachable, answered no, or
\* did as it was asked and its answer never came or could not be decoded.
UseDatabase(db, ok) ==
  /\ \/ /\ status = "up" /\ db \in Databases
        /\ ok \/ "lost" \in Faults
        /\ mounted' = db
     \/ /\ ~ok
        /\ CheckStatus(FALSE) \/ db \notin Databases \/ "use" \in Faults
        /\ UNCHANGED mounted
  /\ UNCHANGED <<status, warm, orphan>>

\* A query is sent.
Begin(q) ==
  /\ warm' = warm \cup {q}
  /\ UNCHANGED <<status, mounted, orphan>>

\* The client gives up after 300 s; the server does not know.
Abandon == orphan' = TRUE /\ UNCHANGED <<status, mounted, warm>>

\* The words are looked for in this order.
Classify(message) ==
  IF message \cap OomWords # {} THEN "oom"
  ELSE IF message \cap TimeoutWords # {} THEN "timeout"
  ELSE "other"
=============================================================================
