------------------------------ MODULE Benchmark ------------------------------
(***************************************************************************)
(* \benchmark in internal/repl/executor.go: runBenchmark, its five runs    *)
(* (or one, --fast) of each query, and restartServer (--cold), against the *)
(* server of module Client.  The session is connected and has ActiveDB     *)
(* selected: the guards that say so are in module Session.  A step is one  *)
(* request, one iteration of the polling loop, or what lies between two.   *)
(***************************************************************************)
EXTENDS Client, SequencesExt

CONSTANTS
  ActiveDB,      \* the database selected
  QueryFiles,    \* contents of query files, a kind for each line
  Options,       \* pairs <<fast, cold>> that may be given
  RunTimes(_)    \* times, in some unit, that the query in a line may take

LineKinds == {"query", "ignored", "long"}

\* The scanner stops, without an error anyone asks for, at a line over 64 KB.
QueriesIn(content) ==
  SelectSeq([n \in DOMAIN content |-> n],
            LAMBDA n : content[n] = "query" /\ \A m \in 1..n : content[m] # "long")

ASSUME BenchmarkAssumption ==
  /\ ActiveDB \in Databases
  /\ QueryFiles \subseteq Seq(LineKinds)
  /\ Options \subseteq BOOLEAN \X BOOLEAN
  /\ \A content \in QueryFiles : \A q \in 1..Len(QueriesIn(content)) :
       RunTimes(QueriesIn(content)[q]) \subseteq Nat
  /\ Faults \subseteq {"crash", "slow", "use", "lost", "garbled", "nometa",
                       "restart", "files"}

VARIABLES
  file, fast, cold,   \* the arguments
  pc,          \* where runBenchmark is
  i, run,      \* the loop counters: query and run
  resume,      \* where restartServer returns to
  timer,       \* whether its 60 s are over
  restarted, restored,   \* whether its command and its \c did what they are for
  results,     \* what times and errors hold: the runs that left anything
  flight,      \* how the query in flight found the server
  finalFile    \* the lines of final_results_<name>.txt

argVars == <<file, fast, cold>>
loopVars == <<i, run, results, flight>>
clockVars == <<timer, restarted, restored>>
restartVars == <<resume, clockVars>>
vars == <<argVars, pc, loopVars, restartVars, finalFile, serverVars>>

queries == QueriesIn(file)

numRuns == IF fast THEN 1 ELSE 5

Phases == {"open", "query", "command", "poll", "probe", "restore", "check", "post",
           "summary", "done", "failed", "panicked"}
Errors == {"oom", "timeout", "other"}
Idle == [warm |-> {}, alone |-> TRUE, mounted |-> NoDB]

TypeOK ==
  /\ file \in QueryFiles
  /\ <<fast, cold>> \in Options
  /\ pc \in Phases
  /\ i \in 1..Len(queries) + 1
  /\ run \in 1..5
  /\ resume \in {"check", "summary"}
  /\ timer \in {"running", "expired"}
  /\ {restarted, restored} \subseteq BOOLEAN
  /\ Len(results) <= run
  /\ \A k \in DOMAIN results :
       \/ results[k].kind = "ok" /\ results[k].time \in RunTimes(queries[i])
       \/ results[k].kind = "failed" /\ results[k].err \in Errors
  /\ Len(finalFile) < i
  /\ ServerTypeOK

\* The server has answered \c and may have run other queries, numbered 0.
Init ==
  /\ file \in QueryFiles
  /\ \E option \in Options : fast = option[1] /\ cold = option[2]
  /\ pc = "open"
  /\ i = 1 /\ run = 1 /\ results = <<>> /\ flight = Idle
  /\ resume = "check" /\ timer = "running" /\ restarted = FALSE /\ restored = TRUE
  /\ finalFile = <<>>
  /\ status = "up" /\ mounted = ActiveDB /\ warm = {0} /\ orphan = FALSE

-----------------------------------------------------------------------------
(* The loop over the queries.                                              *)

\* "No queries found in file." ends the command before any file is created.
Open ==
  /\ pc = "open"
  /\ \/ /\ queries = <<>> /\ pc' = "done"
     \/ /\ queries # <<>> /\ pc' = "query"
     \/ /\ "files" \in Faults /\ pc' = "failed"
  /\ UNCHANGED <<argVars, loopVars, restartVars, finalFile, serverVars>>

\* Variant: the server is restarted once for the whole benchmark.
RestartsFor(q) == cold /\ q = 1

RestartsBefore(q) == cold

BeginQuery ==
  /\ pc = "query" /\ i <= Len(queries)
  /\ pc' = IF RestartsBefore(i) THEN "command" ELSE "check"
  /\ resume' = "check"
  /\ run' = 1
  /\ UNCHANGED <<argVars, i, results, flight, clockVars, finalFile, serverVars>>

EndBenchmark ==
  /\ pc = "query" /\ i > Len(queries)
  /\ pc' = "done"
  /\ UNCHANGED <<argVars, loopVars, restartVars, finalFile, serverVars>>

\* The runs, five at most, that left a time, and those that left an error.
Measured == {k \in DOMAIN results : results[k].kind = "ok"}
errors == {k \in DOMAIN results : results[k].kind = "failed"}

Fastest(runs) == CHOOSE k \in runs : \A m \in runs : results[k].time <= results[m].time
Slowest(runs) == CHOOSE k \in runs : \A m \in runs : results[m].time <= results[k].time

\* Variant: the trimming is off by one.
KeptOffByOne(runs) ==
  IF Cardinality(runs) = 5
  THEN runs \ {Slowest(runs), Slowest(runs \ {Slowest(runs)})} ELSE runs

\* Of five times the smallest and the largest are dropped.
Kept(runs) ==
  IF Cardinality(runs) = 5
  THEN runs \ {Fastest(runs), Slowest(runs \ {Fastest(runs)})} ELSE runs

Total(runs) ==
  LET time(k) == IF k \in runs THEN results[k].time ELSE 0
  IN  time(1) + time(2) + time(3) + time(4) + time(5)

Failed(err) == [query |-> queries[i], kind |-> "failed", err |-> err]

Line ==
  IF Measured # {}
  THEN [query |-> queries[i], kind |-> "average",
        sum |-> Total(Kept(Measured)), of |-> Cardinality(Kept(Measured))]
  ELSE Failed(IF errors = {} THEN "FAILED" ELSE results[Min(errors)].err)

\* Nobody looks at what WriteString returns: here it writes.
WriteLine(line) == finalFile' = IF fast THEN finalFile ELSE Append(finalFile, line)

NextQuery ==
  /\ pc' = "query"
  /\ i' = i + 1 /\ run' = 1 /\ results' = <<>> /\ flight' = Idle

Summarise ==
  /\ pc = "summary"
  /\ WriteLine(Line)
  /\ NextQuery
  /\ UNCHANGED <<argVars, restartVars, serverVars>>

-----------------------------------------------------------------------------
(* The runs of one query.                                                  *)

\* After the last run, or a break; a crash is answered by a restart.
EndRuns(crashed) ==
  /\ run' = run
  /\ IF crashed /\ cold THEN pc' = "command" /\ resume' = "summary"
                        ELSE pc' = "summary" /\ UNCHANGED resume

\* Variant: the loop runs once more.
EndRunLate ==
  IF run > numRuns THEN EndRuns(FALSE)
  ELSE pc' = "check" /\ run' = run + 1 /\ UNCHANGED resume

EndRun ==
  IF run = numRuns THEN EndRuns(FALSE)
  ELSE pc' = "check" /\ run' = run + 1 /\ UNCHANGED resume

RunFails(message) ==
  LET err == Classify(message)
  IN  /\ results' = Append(results, [kind |-> "failed", err |-> err])
      /\ IF err = "other" THEN EndRun ELSE EndRuns(err = "oom")
      /\ flight' = Idle
      /\ UNCHANGED <<argVars, i, clockVars, finalFile>>

\* How a query finds the server, and what restartServer last did to it.
Found == [warm |-> warm, alone |-> ~orphan, mounted |-> mounted,
          restarted |-> restarted, restored |-> restored]

SendQuery ==
  /\ pc = "check" /\ CheckStatus(TRUE)
  /\ Begin(queries[i])
  /\ flight' = Found
  /\ pc' = "post"
  /\ UNCHANGED <<argVars, i, run, results, restartVars, finalFile>>

Unreachable ==
  /\ pc = "check" /\ CheckStatus(FALSE)
  /\ RunFails({"not reachable"})
  /\ UNCHANGED serverVars

RunSucceeds ==
  /\ pc = "post" /\ status = "up"
  /\ \E t \in RunTimes(queries[i]) :
       results' = Append(results, [kind |-> "ok", time |-> t, run |-> run, on |-> flight])
  /\ EndRun
  /\ flight' = Idle
  /\ UNCHANGED <<argVars, i, clockVars, finalFile, serverVars>>

Refused ==
  /\ pc = "post" /\ status = "up"
  /\ \E message \in Messages : RunFails(message)
  /\ UNCHANGED serverVars

\* An answer whose time or memory is no number counts as no run at all.
Garbled ==
  /\ pc = "post" /\ status = "up" /\ "garbled" \in Faults
  /\ EndRun
  /\ flight' = Idle
  /\ UNCHANGED <<argVars, i, results, clockVars, finalFile, serverVars>>

\* result.Metadata is nil.
Panic ==
  /\ pc = "post" /\ status = "up" /\ "nometa" \in Faults
  /\ pc' = "panicked"
  /\ UNCHANGED <<argVars, loopVars, restartVars, finalFile, serverVars>>

Broken ==
  /\ pc = "post" /\ status # "up"
  /\ RunFails({"eof"})
  /\ UNCHANGED serverVars

TimesOut ==
  /\ pc = "post" /\ status = "up" /\ "slow" \in Faults
  /\ RunFails({"timeout"})
  /\ Abandon

-----------------------------------------------------------------------------
(* restartServer.                                                          *)

\* The command ends, whether or not it restarted the server: its error is
\* only a warning.
CommandEnds ==
  /\ pc = "command"
  /\ \/ Gone("starting") /\ restarted' = TRUE
     \/ "restart" \in Faults /\ restarted' = FALSE /\ UNCHANGED serverVars
  /\ pc' = "poll" /\ timer' = "running"
  /\ UNCHANGED <<argVars, loopVars, resume, restored, finalFile>>

\* The sixty seconds pass, during a health check or not.
Expire ==
  /\ pc \in {"poll", "probe"} /\ timer = "running"
  /\ timer' = "expired"
  /\ UNCHANGED <<argVars, pc, loopVars, resume, restarted, restored, finalFile, serverVars>>

\* select takes the tick, also when the timeout is ready.
Tick ==
  /\ pc = "poll"
  /\ pc' = "probe"
  /\ UNCHANGED <<argVars, loopVars, restartVars, finalFile, serverVars>>

ProbeFails ==
  /\ pc = "probe" /\ CheckStatus(FALSE)
  /\ pc' = "poll"
  /\ UNCHANGED <<argVars, loopVars, restartVars, finalFile, serverVars>>

ProbeSucceeds ==
  /\ pc = "probe" /\ CheckStatus(TRUE)
  /\ pc' = "restore"
  /\ UNCHANGED <<argVars, loopVars, restartVars, finalFile, serverVars>>

\* "Warning: failed to restore database" is all that happens on a failure.
Restore ==
  /\ pc = "restore"
  /\ \E ok \in BOOLEAN : UseDatabase(ActiveDB, ok) /\ restored' = ok
  /\ pc' = resume
  /\ UNCHANGED <<argVars, loopVars, resume, timer, restarted, finalFile>>

\* Variant: a break that only leaves the select.
GiveUpSelect ==
  /\ pc = "poll" /\ timer = "expired"
  /\ timer' = "running"
  /\ UNCHANGED <<argVars, pc, loopVars, resume, restarted, restored, finalFile, serverVars>>

\* select takes the timeout: the query is given up, or the recovery is.
GiveUp ==
  /\ pc = "poll" /\ timer = "expired"
  /\ IF resume = "check" THEN WriteLine(Failed("restart")) /\ NextQuery
     ELSE pc' = "summary" /\ UNCHANGED <<loopVars, finalFile>>
  /\ UNCHANGED <<argVars, restartVars, serverVars>>

-----------------------------------------------------------------------------
Process ==
  \/ Open \/ BeginQuery \/ Summarise \/ EndBenchmark
  \/ SendQuery \/ Unreachable
  \/ RunSucceeds \/ Refused \/ Garbled \/ Panic \/ Broken \/ TimesOut
  \/ CommandEnds \/ Tick \/ ProbeFails \/ ProbeSucceeds \/ Restore \/ GiveUp

clientVars == <<argVars, pc, loopVars, restartVars, finalFile>>
Environment == (Crashes \/ Boots \/ OrphanEnds) /\ UNCHANGED clientVars

Next == Process \/ Expire \/ Environment

Spec == Init /\ [][Next]_vars

\* The benchmark runs on the caller's goroutine, its requests have timeouts,
\* time passes, and select picks among ready cases at random: a timeout that
\* is ready again and again is taken.  The server owes nothing.
FairSpec == Spec /\ WF_vars(Process) /\ WF_vars(Expire) /\ SF_vars(GiveUp)
=============================================================================
