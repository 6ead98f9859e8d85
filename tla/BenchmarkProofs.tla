--------------------------- MODULE BenchmarkProofs ---------------------------
(***************************************************************************)
(* Proofs about a benchmark: the types of its state, and that what it      *)
(* measures is what it is meant to measure, for any query file, options,   *)
(* messages, times and faults.                                             *)
(***************************************************************************)
EXTENDS BenchmarkProperties, FiniteSetTheorems, TLAPS

-----------------------------------------------------------------------------
(* Lists, queries and errors.                                              *)

\* A sequence, of whatever runs or lines.
IsRow(s) == Len(s) \in Nat /\ s = [k \in 1..Len(s) |-> s[k]]

\* A member of Seq(S) is one.
LEMMA SeqIsRow ==
  ASSUME NEW S, NEW s \in Seq(S)
  PROVE  IsRow(s)
<1>1. Len(s) \in Nat /\ s \in [1..Len(s) -> S]
  OBVIOUS
<1> QED
  BY <1>1 DEF IsRow

\* Appending adds one element and keeps the others.
LEMMA AppendToRow ==
  ASSUME NEW s, IsRow(s), NEW x
  PROVE  /\ IsRow(Append(s, x)) /\ Len(Append(s, x)) = Len(s) + 1
         /\ DOMAIN s = 1..Len(s) /\ DOMAIN Append(s, x) = 1..Len(s) + 1
         /\ Append(s, x)[Len(s) + 1] = x
         /\ \A k \in 1..Len(s) : Append(s, x)[k] = s[k]
<1> DEFINE S == {s[k] : k \in 1..Len(s)} \cup {x}
<1>1. s \in Seq(S) /\ x \in S
  BY DEF IsRow
<1> HIDE DEF S
<1>2. Append(s, x) \in Seq(S)
  BY <1>1
<1>3. /\ Len(Append(s, x)) = Len(s) + 1 /\ Len(Append(s, x)) \in Nat
      /\ DOMAIN s = 1..Len(s) /\ DOMAIN Append(s, x) = 1..Len(s) + 1
      /\ Append(s, x)[Len(s) + 1] = x
      /\ \A k \in 1..Len(s) : Append(s, x)[k] = s[k]
  BY <1>1, <1>2
<1>4. IsRow(Append(s, x))
  BY <1>2, SeqIsRow
<1> QED
  BY <1>3, <1>4

\* The list of queries is a list, and it depends on the file alone.
LEMMA QueriesOfFile ==
  /\ Len(queries) \in Nat
  /\ file' = file => queries' = queries
<1>1. \A content : Len(QueriesIn(content)) \in Nat
  BY DEF QueriesIn
<1> QED
  BY <1>1 DEF queries

\* An error is one of three; a timeout is no crash.
LEMMA Classification ==
  /\ \A message : Classify(message) \in Errors
  /\ Classify({"timeout"}) = "timeout"
  /\ Classify({"not reachable"}) = "oom" /\ Classify({"eof"}) = "oom"
BY ClientAssumption DEF Classify, Errors

-----------------------------------------------------------------------------
(* Types.                                                                  *)

Restarting == {"command", "poll", "probe", "restore"}
Measuring == {"check", "post"}

RunOK(r, q) ==
  \/ r.kind = "ok" /\ r.time \in RunTimes(q)
  \/ r.kind = "failed" /\ r.err \in Errors

\* The loop counters within their loops, and at most one result for each run
\* that has ended.
RunsInv ==
  /\ TypeOK
  /\ IsRow(results) /\ IsRow(finalFile)
  /\ run <= numRuns
  /\ pc \in Restarting \cup Measuring \cup {"summary"} => i <= Len(queries)
  /\ pc \in Measuring => Len(results) < run
  /\ pc \in Restarting /\ resume = "check" => results = <<>>
  /\ pc \in {"open", "query"} => results = <<>>

\* A benchmark begins before its first query.
LEMMA RunsInit == Init => RunsInv
<1> SUFFICES ASSUME Init PROVE RunsInv
  OBVIOUS
<1>1. <<fast, cold>> \in Options
  BY BenchmarkAssumption DEF Init
<1>2. 1 \in 1..Len(queries) + 1
  BY QueriesOfFile
<1>3. IsRow(<<>>) /\ DOMAIN <<>> = {} /\ Len(<<>>) = 0
  BY DEF IsRow
<1>4. numRuns \in {1, 5}
  BY DEF numRuns
<1>5. ServerTypeOK
  BY BenchmarkAssumption DEF Init, ServerTypeOK
<1>6. {restarted, restored} \subseteq BOOLEAN
  BY DEF Init
<1>7. /\ file \in QueryFiles /\ pc = "open" /\ i = 1 /\ run = 1 /\ results = <<>>
      /\ resume = "check" /\ timer = "running" /\ finalFile = <<>>
  BY DEF Init
<1>8. TypeOK
  BY <1>1, <1>2, <1>3, <1>5, <1>6, <1>7 DEF TypeOK, Phases
<1> QED
  BY <1>3, <1>4, <1>7, <1>8 DEF RunsInv, Restarting, Measuring

\* What the types say of one list of results.
LEMMA ResultsOK ==
  ASSUME TypeOK PROVE \A k \in DOMAIN results : RunOK(results[k], queries[i])
BY DEF TypeOK, RunOK

\* The end of a run, whatever it has brought.
LEMMA AfterRun ==
  ASSUME RunsInv, pc \in Measuring, NEW c \in BOOLEAN, EndRun \/ EndRuns(c),
         UNCHANGED <<argVars, i, clockVars, finalFile>>, ServerTypeOK',
         \/ results' = results
         \/ \E r : RunOK(r, queries[i]) /\ results' = Append(results, r)
  PROVE  RunsInv'
<1>1. /\ i' = i /\ queries' = queries /\ numRuns' = numRuns
      /\ UNCHANGED <<file, fast, cold, timer, restarted, restored, finalFile>>
  BY QueriesOfFile DEF argVars, clockVars, numRuns
<1>2. numRuns \in {1, 5} /\ run \in 1..5 /\ run <= numRuns /\ Len(results) < run
  BY DEF RunsInv, TypeOK, numRuns
<1>3. /\ IsRow(results') /\ Len(results') \in {Len(results), Len(results) + 1}
      /\ \A k \in DOMAIN results' : RunOK(results'[k], queries[i])
  <2>1. \A k \in DOMAIN results : RunOK(results[k], queries[i])
    BY ResultsOK DEF RunsInv
  <2>2. CASE results' = results
    BY <2>1, <2>2 DEF RunsInv
  <2>3. ASSUME NEW r, RunOK(r, queries[i]), results' = Append(results, r)
        PROVE  /\ IsRow(results') /\ Len(results') = Len(results) + 1
               /\ \A k \in DOMAIN results' : RunOK(results'[k], queries[i])
    <3> DEFINE n == Len(results)
    <3>1. /\ IsRow(results') /\ Len(results') = n + 1
          /\ DOMAIN results = 1..n /\ DOMAIN results' = 1..n + 1
          /\ results'[n + 1] = r /\ \A k \in 1..n : results'[k] = results[k]
      BY <2>3, AppendToRow DEF RunsInv
    <3>2. n \in Nat /\ \A k \in 1..n + 1 : k \in 1..n \/ k = n + 1
      BY DEF RunsInv, IsRow
    <3> HIDE DEF n
    <3>3. \A k \in DOMAIN results' : RunOK(results'[k], queries[i])
      BY <2>1, <2>3, <3>1, <3>2
    <3> QED
      BY <3>1, <3>3 DEF n
  <2> QED
    BY <2>2, <2>3
<1>4. /\ run' \in 1..5 /\ run' <= numRuns
      /\ \/ pc' = "check" /\ run' = run + 1
         \/ run' = run /\ pc' = "summary" /\ resume' = resume
         \/ run' = run /\ pc' = "command" /\ resume' = "summary"
      /\ resume' \in {"check", "summary"}
  BY <1>2 DEF EndRun, EndRuns, RunsInv, TypeOK
<1>5. Len(results') <= run' /\ (pc' = "check" => Len(results') < run')
  <2> DEFINE m == Len(results)
             n == Len(results')
  <2>0. Len(results) \in Nat
    BY DEF RunsInv, IsRow
  <2>1. m \in Nat /\ m < run /\ n \in {m, m + 1} /\ run \in Nat
    BY <1>2, <1>3, <2>0
  <2> HIDE DEF m, n
  <2>2. run' = run + 1 \/ (run' = run /\ pc' # "check")
    BY <1>4
  <2>3. n <= run'
    BY <2>1, <2>2
  <2>4. pc' = "check" => n < run'
    BY <2>1, <2>2
  <2> QED
    BY <2>3, <2>4 DEF n
<1>6. TypeOK'
  <2>1. /\ i' \in 1..Len(queries') + 1 /\ pc' \in Phases
        /\ file' \in QueryFiles /\ <<fast', cold'>> \in Options
        /\ timer' \in {"running", "expired"} /\ {restarted', restored'} \subseteq BOOLEAN
        /\ Len(finalFile') < i'
    BY <1>1, <1>4 DEF RunsInv, TypeOK, Phases
  <2>2. \A k \in DOMAIN results' :
          \/ results'[k].kind = "ok" /\ results'[k].time \in RunTimes(queries[i])
          \/ results'[k].kind = "failed" /\ results'[k].err \in Errors
    BY <1>3 DEF RunOK
  <2> QED
    BY <1>1, <1>4, <1>5, <2>1, <2>2 DEF TypeOK
<1>7. i <= Len(queries)
  BY DEF RunsInv, Measuring, Restarting
<1> QED
  BY <1>1, <1>3, <1>4, <1>5, <1>6, <1>7 DEF RunsInv, Measuring, Restarting

\* A list of one more line.
LEMMA LineWritten ==
  ASSUME RunsInv, NEW line, WriteLine(line), i' = i + 1
  PROVE  IsRow(finalFile') /\ Len(finalFile') < i'
<1>1. IsRow(finalFile) /\ Len(finalFile) < i /\ i \in Nat
  BY QueriesOfFile DEF RunsInv, TypeOK
<1>2. finalFile' \in {finalFile, Append(finalFile, line)}
  BY DEF WriteLine
<1>3. IsRow(Append(finalFile, line)) /\ Len(Append(finalFile, line)) = Len(finalFile) + 1
  BY <1>1, AppendToRow
<1> DEFINE m == Len(finalFile)
           n == Len(finalFile')
<1>4. m \in Nat /\ m < i /\ i \in Nat /\ i' = i + 1
  BY <1>1 DEF IsRow
<1>5. IsRow(finalFile') /\ n \in {m, m + 1}
  BY <1>1, <1>2, <1>3
<1> HIDE DEF m, n
<1>6. n < i'
  BY <1>4, <1>5
<1> QED
  BY <1>5, <1>6 DEF n

\* The next query begins without results.
LEMMA AfterQuery ==
  ASSUME RunsInv, NEW line, WriteLine(line), NextQuery, i <= Len(queries),
         UNCHANGED <<argVars, restartVars, serverVars>>
  PROVE  RunsInv'
<1>1. /\ pc' = "query" /\ i' = i + 1 /\ run' = 1 /\ results' = <<>>
      /\ queries' = queries /\ numRuns' = numRuns
      /\ UNCHANGED <<file, fast, cold, resume, timer, restarted, restored,
                     status, mounted, orphan>>
  BY QueriesOfFile DEF NextQuery, argVars, restartVars, clockVars, serverVars, numRuns
<1>2. i' \in 1..Len(queries) + 1
  BY <1>1, QueriesOfFile DEF RunsInv, TypeOK
<1>3. IsRow(<<>>) /\ DOMAIN <<>> = {} /\ Len(<<>>) = 0
  BY DEF IsRow
<1>4. IsRow(finalFile') /\ Len(finalFile') < i'
  BY <1>1, LineWritten
<1>5. TypeOK'
  BY <1>1, <1>2, <1>3, <1>4 DEF RunsInv, TypeOK, Phases, ServerTypeOK
<1>6. numRuns \in {1, 5}
  BY DEF numRuns
<1> QED
  BY <1>1, <1>3, <1>4, <1>5, <1>6 DEF RunsInv, Restarting, Measuring

\* The server's own steps, and what requests do to it, keep its types.
LEMMA ServerTypes ==
  ASSUME ServerTypeOK,
         \/ Environment \/ UNCHANGED serverVars \/ Abandon \/ Gone("starting")
         \/ Begin(queries[i]) \/ \E ok \in BOOLEAN : UseDatabase(ActiveDB, ok)
  PROVE  ServerTypeOK'
BY BenchmarkAssumption DEF ServerTypeOK, Environment, Crashes, Boots, OrphanEnds, serverVars,
   Abandon, Gone, Begin, UseDatabase

\* Every step keeps the types and the counters within their loops.
LEMMA RunsNext == RunsInv /\ [Next]_vars => RunsInv'
<1> SUFFICES ASSUME RunsInv, [Next]_vars PROVE RunsInv'
  OBVIOUS
<1>1. TypeOK /\ ServerTypeOK
  BY DEF RunsInv, TypeOK
<1>2. ASSUME UNCHANGED <<file, fast, cold, i, results, finalFile>>, pc' \in Phases,
             run' \in {1, run}, resume' \in {"check", "summary"},
             timer' \in {"running", "expired"}, {restarted', restored'} \subseteq BOOLEAN,
             ServerTypeOK',
             pc' \in Restarting \cup Measuring \cup {"summary"} => i <= Len(queries),
             pc' \in Measuring => Len(results) < run',
             (pc' \in Restarting /\ resume' = "check") \/ pc' \in {"open", "query"}
               => results = <<>>,
             Len(results) <= run'
      PROVE  RunsInv'
  <2>1. queries' = queries /\ numRuns' = numRuns /\ numRuns \in {1, 5}
    BY <1>2, QueriesOfFile DEF numRuns
  <2>2. TypeOK'
    BY <1>1, <1>2, <2>1 DEF TypeOK
  <2>3. run' <= numRuns'
    BY <1>2, <2>1 DEF RunsInv
  <2> QED
    BY <1>2, <2>1, <2>2, <2>3 DEF RunsInv
<1>3. Len(<<>>) = 0
  OBVIOUS
<1>4. CASE Open
  BY <1>2, <1>4, <1>1
  DEF Open, argVars, loopVars, restartVars, clockVars, serverVars, RunsInv, TypeOK, Phases,
      ServerTypeOK, Restarting, Measuring
<1>5. CASE BeginQuery
  BY <1>2, <1>3, <1>5, <1>1
  DEF BeginQuery, argVars, clockVars, serverVars, RunsInv, TypeOK, Phases,
      ServerTypeOK, Restarting, Measuring
<1>6. CASE EndBenchmark
  BY <1>2, <1>6, <1>1
  DEF EndBenchmark, argVars, loopVars, restartVars, clockVars, serverVars, RunsInv, TypeOK,
      Phases, ServerTypeOK, Restarting, Measuring
<1>7. CASE Summarise
  BY <1>7, AfterQuery DEF Summarise, RunsInv
<1>8. CASE GiveUp
  <2>1. i <= Len(queries) /\ UNCHANGED <<argVars, restartVars, serverVars>>
    BY <1>8 DEF GiveUp, RunsInv, Restarting
  <2>2. CASE resume = "check"
    BY <1>8, <2>1, <2>2, AfterQuery DEF GiveUp
  <2>3. CASE resume # "check"
    BY <1>2, <1>8, <1>1, <2>1, <2>3
    DEF GiveUp, argVars, loopVars, restartVars, clockVars, serverVars, RunsInv, TypeOK,
        Phases, ServerTypeOK, Restarting, Measuring
  <2> QED
    BY <2>2, <2>3
<1>9. CASE SendQuery
  <2>1. ServerTypeOK'
    BY <1>1, <1>9, ServerTypes DEF SendQuery
  <2> QED
    BY <1>2, <1>9, <1>1, <2>1
    DEF SendQuery, argVars, restartVars, clockVars, RunsInv, TypeOK, Phases,
        Restarting, Measuring
<1>10. ASSUME NEW message, RunFails(message), pc \in Measuring, ServerTypeOK'
       PROVE  RunsInv'
  <2> DEFINE err == Classify(message)
             r == [kind |-> "failed", err |-> err]
  <2>1. RunOK(r, queries[i])
    BY Classification DEF RunOK
  <2>2. results' = Append(results, r) /\ UNCHANGED <<argVars, i, clockVars, finalFile>>
    BY <1>10 DEF RunFails
  <2>3. EndRun \/ EndRuns(err = "oom")
    BY <1>10 DEF RunFails
  <2>4. (err = "oom") \in BOOLEAN
    OBVIOUS
  <2> HIDE DEF r, err
  <2> QED
    BY <1>10, <2>1, <2>2, <2>3, <2>4, AfterRun
<1>11. CASE Unreachable \/ Refused \/ Broken
  BY <1>1, <1>10, <1>11, ServerTypes DEF Unreachable, Refused, Broken, Measuring
<1>12. CASE TimesOut
  BY <1>1, <1>10, <1>12, ServerTypes DEF TimesOut, Measuring
<1>13. CASE RunSucceeds
  <2>1. PICK t \in RunTimes(queries[i]) :
          results' = Append(results, [kind |-> "ok", time |-> t, run |-> run, on |-> flight])
    BY <1>13 DEF RunSucceeds
  <2> DEFINE r == [kind |-> "ok", time |-> t, run |-> run, on |-> flight]
  <2>2. RunOK(r, queries[i])
    BY DEF RunOK
  <2>3. /\ pc \in Measuring /\ EndRun /\ UNCHANGED <<argVars, i, clockVars, finalFile>>
        /\ ServerTypeOK'
    BY <1>1, <1>13, ServerTypes DEF RunSucceeds, Measuring
  <2> HIDE DEF r
  <2> QED
    BY <2>1, <2>2, <2>3, AfterRun DEF r
<1>14. CASE Garbled
  <2>1. /\ pc \in Measuring /\ EndRun /\ UNCHANGED <<argVars, i, clockVars, finalFile>>
        /\ ServerTypeOK' /\ results' = results
    BY <1>1, <1>14, ServerTypes DEF Garbled, Measuring
  <2> QED
    BY <2>1, AfterRun
<1>15. CASE Panic
  BY <1>2, <1>15, <1>1
  DEF Panic, argVars, loopVars, restartVars, clockVars, serverVars, RunsInv, TypeOK, Phases,
      ServerTypeOK, Restarting, Measuring
<1>16. CASE CommandEnds
  <2>1. ServerTypeOK' /\ restarted' \in BOOLEAN
    BY <1>1, <1>16, ServerTypes DEF CommandEnds
  <2> QED
    BY <1>2, <1>16, <1>1, <2>1
    DEF CommandEnds, argVars, loopVars, RunsInv, TypeOK, Phases, Restarting, Measuring
<1>17. CASE Tick \/ ProbeFails \/ ProbeSucceeds
  BY <1>2, <1>17, <1>1
  DEF Tick, ProbeFails, ProbeSucceeds, argVars, loopVars, restartVars, clockVars, serverVars,
      RunsInv, TypeOK, Phases, ServerTypeOK, Restarting, Measuring
<1>18. CASE Restore
  <2>1. ServerTypeOK' /\ restored' \in BOOLEAN
    BY <1>1, <1>18, ServerTypes DEF Restore
  <2>2. run \in 1..5
    BY <1>1 DEF TypeOK
  <2> QED
    BY <1>2, <1>3, <1>18, <1>1, <2>1, <2>2
    DEF Restore, argVars, loopVars, RunsInv, TypeOK, Phases, Restarting, Measuring
<1>19. CASE Expire
  BY <1>2, <1>19, <1>1
  DEF Expire, argVars, loopVars, serverVars, RunsInv, TypeOK, Phases, ServerTypeOK,
      Restarting, Measuring
<1>20. CASE Environment
  <2>1. ServerTypeOK'
    BY <1>1, <1>20, ServerTypes
  <2> QED
    BY <1>2, <1>20, <1>1, <2>1
    DEF Environment, clientVars, argVars, loopVars, restartVars, clockVars, RunsInv, TypeOK
<1>21. CASE UNCHANGED vars
  BY <1>2, <1>21, <1>1
  DEF vars, argVars, loopVars, restartVars, clockVars, serverVars, RunsInv, TypeOK, ServerTypeOK
<1> QED
  BY <1>4, <1>5, <1>6, <1>7, <1>8, <1>9, <1>11, <1>12, <1>13, <1>14, <1>15, <1>16, <1>17,
     <1>18, <1>19, <1>20, <1>21 DEF Next, Process

\* runBenchmark (executor.go) stays within its two loops, keeps at most one
\* result for each run of the query, and never writes more lines to the final
\* results file than queries it has concluded.
THEOREM BenchmarkTypes == Spec => []TypeOK
<1>1. RunsInv => TypeOK
  BY DEF RunsInv
<1> QED
  BY <1>1, RunsInit, RunsNext, PTL DEF Spec

-----------------------------------------------------------------------------
(* What is measured.                                                       *)

\* What MeasuredAsMeant asks of a run: how it found the server.
AsMeant(on, r) ==
  /\ cold /\ on.restarted =>
       /\ on.warm \subseteq {queries[i]}
       /\ r = 1 => on.warm = {}
       /\ on.alone
  /\ on.restored => on.mounted = ActiveDB

\* Between a restart that worked and the end of the runs it was made for, the
\* server has run the query at hand and no other.
FreshInv ==
  /\ pc \in Restarting => cold
  /\ pc \in {"poll", "probe", "restore"} /\ restarted => warm = {} /\ ~orphan
  /\ pc \in Measuring /\ cold /\ restarted => warm \subseteq {queries[i]} /\ ~orphan
  /\ pc = "check" /\ cold /\ restarted /\ run = 1 => warm = {}

\* While \c counts as done, the server has the database or is down: nothing
\* boots it but restartServer, and that runs before \c.
MountedInv ==
  (pc \in Measuring \/ ~cold) /\ restored =>
    status # "starting" /\ (status = "up" => mounted = ActiveDB)

MeasuredInv ==
  /\ RunsInv
  /\ FreshInv
  /\ MountedInv
  /\ pc = "post" => AsMeant(flight, run)
  /\ \A k \in Measured : AsMeant(results[k].on, results[k].run)

\* A benchmark begins with nothing measured.
LEMMA MeasuredInit == Init => MeasuredInv
<1> SUFFICES ASSUME Init PROVE MeasuredInv
  OBVIOUS
<1>1. RunsInv
  BY RunsInit
<1>2. Measured = {}
  BY DEF Init, Measured
<1> QED
  BY <1>1, <1>2 DEF Init, MeasuredInv, FreshInv, MountedInv, Restarting, Measuring

\* The end of a run leaves the server to the next one, if there is one.
LEMMA ServerAfterRun ==
  ASSUME MeasuredInv, pc \in Measuring, NEW c \in BOOLEAN, EndRun \/ EndRuns(c),
         UNCHANGED <<argVars, i, clockVars>>,
         \/ UNCHANGED serverVars
         \/ Abandon /\ pc' # "check"
  PROVE  FreshInv' /\ MountedInv' /\ pc' # "post"
<1>1. queries' = queries /\ UNCHANGED <<cold, i, restarted, restored>>
  BY QueriesOfFile DEF argVars, clockVars
<1>2. run \in 1..5
  BY DEF MeasuredInv, RunsInv, TypeOK
<1>3. \/ pc' = "check" /\ run' = run + 1
      \/ pc' = "summary"
      \/ pc' = "command" /\ cold
  BY DEF EndRun, EndRuns
<1>4. pc' = "check" => run' # 1
  BY <1>2, <1>3
<1>5. FreshInv'
  BY <1>1, <1>3, <1>4 DEF MeasuredInv, FreshInv, Restarting, Measuring, Abandon, serverVars
<1>6. MountedInv'
  BY <1>1, <1>3 DEF MeasuredInv, MountedInv, Restarting, Measuring, Abandon, serverVars
<1> QED
  BY <1>3, <1>5, <1>6

\* The results after a run are those before it and perhaps one more, which is
\* a measurement only of a run that was.
LEMMA OneMoreRun ==
  ASSUME MeasuredInv, RunsInv', UNCHANGED <<file, cold, i>>,
         FreshInv', MountedInv', pc' # "post",
         \/ results' = results
         \/ \E r : /\ results' = Append(results, r)
                   /\ r.kind = "ok" => AsMeant(r.on, r.run)
  PROVE  MeasuredInv'
<1>1. queries' = queries
  BY QueriesOfFile
<1>2. CASE results' = results
  BY <1>1, <1>2 DEF MeasuredInv, AsMeant, Measured
<1>3. ASSUME NEW r, results' = Append(results, r), r.kind = "ok" => AsMeant(r.on, r.run)
      PROVE  MeasuredInv'
  <2> DEFINE n == Len(results)
  <2>1. /\ DOMAIN results = 1..n /\ DOMAIN results' = 1..n + 1
        /\ results'[n + 1] = r /\ \A k \in 1..n : results'[k] = results[k]
    BY <1>3, AppendToRow DEF MeasuredInv, RunsInv
  <2>0. n \in Nat
    BY DEF MeasuredInv, RunsInv, IsRow
  <2> HIDE DEF n
  <2>2. \A k \in 1..n + 1 : k \in 1..n \/ k = n + 1
    BY <2>0
  <2>3. ASSUME NEW k \in DOMAIN results', results'[k].kind = "ok"
        PROVE  AsMeant(results'[k].on, results'[k].run)
    <3>1. CASE k \in 1..n
      BY <2>1, <2>3, <3>1 DEF MeasuredInv, Measured
    <3>2. CASE k = n + 1
      BY <1>3, <2>1, <2>3, <3>2
    <3> QED
      BY <2>1, <2>2, <3>1, <3>2
  <2> QED
    BY <1>1, <2>3 DEF MeasuredInv, AsMeant, Measured
<1> QED
  BY <1>2, <1>3

\* Every step keeps what was measured, and the server as it is to be measured.
LEMMA MeasuredNext == MeasuredInv /\ [Next]_vars => MeasuredInv'
<1> SUFFICES ASSUME MeasuredInv, [Next]_vars PROVE MeasuredInv'
  OBVIOUS
<1> USE DEF Restarting, Measuring
<1>1. RunsInv'
  BY RunsNext DEF MeasuredInv
<1>2. FreshInv /\ MountedInv /\ cold \in BOOLEAN
  BY BenchmarkAssumption DEF MeasuredInv, RunsInv, TypeOK
<1>3. ASSUME UNCHANGED <<file, cold, i, results>>, FreshInv', MountedInv', pc' # "post"
      PROVE  MeasuredInv'
  BY <1>1, <1>3, OneMoreRun
<1>4. ASSUME results' = <<>>, FreshInv', MountedInv', pc' # "post"
      PROVE  MeasuredInv'
  BY <1>1, <1>4 DEF MeasuredInv, Measured
<1>5. ASSUME UNCHANGED <<file, cold, i, results>>
      PROVE  queries' = queries /\ Measured' = Measured
  BY <1>5, QueriesOfFile DEF Measured
<1>6. CASE Open
  BY <1>2, <1>3, <1>6
  DEF Open, argVars, loopVars, restartVars, clockVars, serverVars, FreshInv, MountedInv
<1>7. CASE BeginQuery
  <2>1. UNCHANGED <<file, cold, i, results>>
    BY <1>7 DEF BeginQuery, argVars
  <2>2. FreshInv'
    BY <1>2, <1>7, <2>1
    DEF BeginQuery, RestartsBefore, clockVars, serverVars, FreshInv
  <2>3. MountedInv'
    BY <1>2, <1>7, <2>1
    DEF BeginQuery, RestartsBefore, clockVars, serverVars, MountedInv
  <2>4. pc' # "post"
    BY <1>7 DEF BeginQuery
  <2> QED
    BY <1>3, <2>1, <2>2, <2>3, <2>4
<1>8. CASE EndBenchmark
  BY <1>2, <1>3, <1>8
  DEF EndBenchmark, argVars, loopVars, restartVars, clockVars, serverVars, FreshInv, MountedInv
<1>9. CASE Summarise
  BY <1>2, <1>4, <1>9
  DEF Summarise, NextQuery, argVars, restartVars, clockVars, serverVars, FreshInv, MountedInv
<1>10. CASE GiveUp
  <2>1. FreshInv' /\ MountedInv' /\ pc' # "post"
    BY <1>2, <1>10
    DEF GiveUp, NextQuery, argVars, restartVars, clockVars, serverVars, FreshInv, MountedInv
  <2>2. results' = <<>> \/ UNCHANGED <<file, cold, i, results>>
    BY <1>10 DEF GiveUp, NextQuery, loopVars, argVars
  <2> QED
    BY <1>3, <1>4, <2>1, <2>2
<1>11. CASE SendQuery
  <2>1. /\ UNCHANGED <<file, cold, i, run, results, restarted, restored>>
        /\ pc = "check" /\ pc' = "post" /\ status = "up"
        /\ flight' = Found
        /\ warm' = warm \cup {queries[i]} /\ UNCHANGED <<status, mounted, orphan>>
    BY <1>11 DEF SendQuery, argVars, restartVars, clockVars, CheckStatus, Begin
  <2>2. queries' = queries /\ Measured' = Measured
    BY <1>5, <2>1
  <2>3. FreshInv' /\ MountedInv'
    BY <1>2, <2>1, <2>2 DEF FreshInv, MountedInv
  <2>4. /\ flight'.warm = warm /\ (flight'.alone <=> ~orphan) /\ flight'.mounted = mounted
        /\ flight'.restarted = restarted /\ flight'.restored = restored
    BY <2>1 DEF Found
  <2>5. AsMeant(flight, run)'
    BY <1>2, <2>1, <2>2, <2>4 DEF AsMeant, FreshInv, MountedInv
  <2> QED
    BY <1>1, <2>1, <2>2, <2>3, <2>5 DEF MeasuredInv, AsMeant
<1>12. ASSUME NEW message, RunFails(message), pc \in Measuring,
              \/ UNCHANGED serverVars
              \/ Abandon /\ message = {"timeout"}
       PROVE  MeasuredInv'
  <2> DEFINE err == Classify(message)
             r == [kind |-> "failed", err |-> err]
  <2>1. /\ results' = Append(results, r)
        /\ IF err = "other" THEN EndRun ELSE EndRuns(err = "oom")
        /\ UNCHANGED <<argVars, i, clockVars, finalFile>>
    BY <1>12 DEF RunFails
  <2>2. message = {"timeout"} => pc' # "check"
    BY <2>1, Classification DEF EndRuns
  <2>3. (err = "oom") \in BOOLEAN /\ r.kind # "ok"
    OBVIOUS
  <2> HIDE DEF r, err
  <2>4. FreshInv' /\ MountedInv' /\ pc' # "post"
    BY <1>12, <2>1, <2>2, <2>3, ServerAfterRun
  <2> QED
    BY <1>1, <2>1, <2>3, <2>4, OneMoreRun DEF argVars
<1>13. CASE Unreachable \/ Refused \/ Broken
  BY <1>12, <1>13 DEF Unreachable, Refused, Broken
<1>14. CASE TimesOut
  BY <1>12, <1>14 DEF TimesOut
<1>15. CASE RunSucceeds \/ Garbled
  <2>1. /\ pc = "post" /\ EndRun /\ UNCHANGED <<argVars, i, clockVars, finalFile, serverVars>>
        /\ \/ results' = results
           \/ \E t : results' = Append(results,
                       [kind |-> "ok", time |-> t, run |-> run, on |-> flight])
    BY <1>15 DEF RunSucceeds, Garbled
  <2>2. FreshInv' /\ MountedInv' /\ pc' # "post"
    BY <2>1, ServerAfterRun
  <2>3. ASSUME NEW t
        PROVE  /\ [kind |-> "ok", time |-> t, run |-> run, on |-> flight].on = flight
               /\ [kind |-> "ok", time |-> t, run |-> run, on |-> flight].run = run
    OBVIOUS
  <2>4. AsMeant(flight, run)
    BY <2>1 DEF MeasuredInv
  <2>5. \/ results' = results
        \/ \E r : results' = Append(results, r) /\ (r.kind = "ok" => AsMeant(r.on, r.run))
    BY <2>1, <2>3, <2>4
  <2> QED
    BY <1>1, <2>1, <2>2, <2>5, OneMoreRun DEF argVars
<1>16. CASE Panic
  BY <1>2, <1>3, <1>16
  DEF Panic, argVars, loopVars, restartVars, clockVars, serverVars, FreshInv, MountedInv
<1>17. CASE CommandEnds
  <2>1. FreshInv' /\ MountedInv'
    BY <1>2, <1>17
    DEF CommandEnds, Gone, argVars, loopVars, serverVars, FreshInv, MountedInv
  <2> QED
    BY <1>3, <1>17, <2>1 DEF CommandEnds, argVars, loopVars
<1>18. CASE Tick \/ ProbeFails \/ ProbeSucceeds \/ Expire
  BY <1>2, <1>3, <1>18
  DEF Tick, ProbeFails, ProbeSucceeds, Expire, argVars, loopVars, restartVars, clockVars,
      serverVars, FreshInv, MountedInv
<1>19. CASE Restore
  <2>1. /\ pc = "restore" /\ pc' = resume /\ resume \in {"check", "summary"}
        /\ UNCHANGED <<file, cold, i, run, results, restarted>>
    BY <1>19 DEF Restore, argVars, loopVars, MeasuredInv, RunsInv, TypeOK
  <2>2. PICK ok \in BOOLEAN : UseDatabase(ActiveDB, ok) /\ restored' = ok
    BY <1>19 DEF Restore
  <2>3. queries' = queries
    BY <1>5, <2>1
  <2>4. FreshInv'
    BY <1>2, <2>1, <2>2, <2>3 DEF FreshInv, UseDatabase
  <2>5. MountedInv'
    BY <1>2, <2>1, <2>2 DEF MountedInv, FreshInv, UseDatabase
  <2> QED
    BY <1>3, <2>1, <2>4, <2>5
<1>20. CASE Environment
  <2>1. UNCHANGED <<file, cold, i, run, results, restarted, restored, pc, flight>>
    BY <1>20 DEF Environment, clientVars, argVars, loopVars, restartVars, clockVars
  <2>2. queries' = queries /\ Measured' = Measured
    BY <1>5, <2>1
  <2>3. FreshInv' /\ MountedInv'
    BY <1>2, <1>20, <2>1, <2>2
    DEF Environment, Crashes, Boots, OrphanEnds, Gone, FreshInv, MountedInv
  <2> QED
    BY <1>1, <2>1, <2>2, <2>3 DEF MeasuredInv, AsMeant
<1>21. CASE UNCHANGED vars
  <2>1. UNCHANGED <<file, cold, i, run, results, restarted, restored, pc, flight>>
    BY <1>21 DEF vars, argVars, loopVars, restartVars, clockVars
  <2>2. queries' = queries /\ Measured' = Measured
    BY <1>5, <2>1
  <2>3. FreshInv' /\ MountedInv'
    BY <1>2, <1>21, <2>1, <2>2 DEF vars, serverVars, FreshInv, MountedInv
  <2> QED
    BY <1>1, <2>1, <2>2, <2>3 DEF MeasuredInv, AsMeant
<1> QED
  BY <1>6, <1>7, <1>8, <1>9, <1>10, <1>11, <1>13, <1>14, <1>15, <1>16, <1>17, <1>18, <1>19,
     <1>20, <1>21 DEF Next, Process

\* restartServer (executor.go) and the runs it is made for: whatever crashes,
\* times out or fails to start, a cold benchmark measures a query on a server
\* that has run no other since its restart, and any benchmark measures on the
\* database selected, as far as the restart command and \c did what they say.
THEOREM AlwaysMeasuredAsMeant == Spec => []MeasuredAsMeant
<1>1. MeasuredInv => MeasuredAsMeant
  BY DEF MeasuredInv, MeasuredAsMeant, AsMeant
<1> QED
  BY <1>1, MeasuredInit, MeasuredNext, PTL DEF Spec

-----------------------------------------------------------------------------
(* The report: counting and comparing at most five runs.                   *)

\* How often a run occurs in a set of runs.
In(S, k) == IF k \in S THEN 1 ELSE 0

\* One more run counts once, if it is in the set.
LEMMA OneMoreCounted ==
  ASSUME NEW S, NEW n \in Nat, IsFiniteSet(S \cap 1..n)
  PROVE  /\ IsFiniteSet(S \cap 1..n + 1)
         /\ Cardinality(S \cap 1..n + 1) = Cardinality(S \cap 1..n) + In(S, n + 1)
<1>1. \A k : k \in 1..n + 1 <=> k \in 1..n \/ k = n + 1
  OBVIOUS
<1>0. n + 1 \notin 1..n
  OBVIOUS
<1>2. CASE n + 1 \in S
  <2>1. S \cap 1..n + 1 = (S \cap 1..n) \cup {n + 1} /\ n + 1 \notin S \cap 1..n
    BY <1>0, <1>1, <1>2
  <2> DEFINE T == S \cap 1..n
  <2>2. /\ IsFiniteSet(T \cup {n + 1})
        /\ Cardinality(T \cup {n + 1}) =
             IF n + 1 \in T THEN Cardinality(T) ELSE Cardinality(T) + 1
    BY FS_AddElement
  <2>3. n + 1 \notin T /\ In(S, n + 1) = 1
    BY <1>2, <2>1 DEF In
  <2> QED
    BY <2>1, <2>2, <2>3
<1>3. CASE n + 1 \notin S
  <2>1. S \cap 1..n + 1 = S \cap 1..n
    BY <1>1, <1>3
  <2>2. Cardinality(S \cap 1..n) \in Nat
    BY FS_CardinalityType
  <2> QED
    BY <1>3, <2>1, <2>2 DEF In
<1> QED
  BY <1>2, <1>3

\* Five runs are counted one by one.
LEMMA RunsCounted ==
  ASSUME NEW S \in SUBSET (1..5)
  PROVE  /\ IsFiniteSet(S)
         /\ Cardinality(S) = In(S, 1) + In(S, 2) + In(S, 3) + In(S, 4) + In(S, 5)
<1>0. S \cap 1..0 = {} /\ S \cap 1..5 = S
  <2>1. S \subseteq 1..5 /\ \A k \in 1..0 : FALSE
    OBVIOUS
  <2> QED
    BY <2>1
<1>1. IsFiniteSet(S \cap 1..0) /\ Cardinality(S \cap 1..0) = 0
  BY <1>0, FS_EmptySet
<1>2. IsFiniteSet(S \cap 1..1) /\ Cardinality(S \cap 1..1) = In(S, 1)
  <2>1. /\ IsFiniteSet(S \cap 1..0 + 1)
        /\ Cardinality(S \cap 1..0 + 1) = Cardinality(S \cap 1..0) + In(S, 0 + 1)
    BY <1>1, OneMoreCounted
  <2> QED
    BY <1>1, <2>1 DEF In
<1>3. IsFiniteSet(S \cap 1..2) /\ Cardinality(S \cap 1..2) = In(S, 1) + In(S, 2)
  <2>1. /\ IsFiniteSet(S \cap 1..1 + 1)
        /\ Cardinality(S \cap 1..1 + 1) = Cardinality(S \cap 1..1) + In(S, 1 + 1)
    BY <1>2, OneMoreCounted
  <2> QED
    BY <1>2, <2>1 DEF In
<1>4. /\ IsFiniteSet(S \cap 1..3)
      /\ Cardinality(S \cap 1..3) = In(S, 1) + In(S, 2) + In(S, 3)
  <2>1. /\ IsFiniteSet(S \cap 1..2 + 1)
        /\ Cardinality(S \cap 1..2 + 1) = Cardinality(S \cap 1..2) + In(S, 2 + 1)
    BY <1>3, OneMoreCounted
  <2> QED
    BY <1>3, <2>1 DEF In
<1>5. /\ IsFiniteSet(S \cap 1..4)
      /\ Cardinality(S \cap 1..4) = In(S, 1) + In(S, 2) + In(S, 3) + In(S, 4)
  <2>1. /\ IsFiniteSet(S \cap 1..3 + 1)
        /\ Cardinality(S \cap 1..3 + 1) = Cardinality(S \cap 1..3) + In(S, 3 + 1)
    BY <1>4, OneMoreCounted
  <2> QED
    BY <1>4, <2>1 DEF In
<1>6. /\ IsFiniteSet(S \cap 1..5)
      /\ Cardinality(S \cap 1..5) = In(S, 1) + In(S, 2) + In(S, 3) + In(S, 4) + In(S, 5)
  <2>1. /\ IsFiniteSet(S \cap 1..4 + 1)
        /\ Cardinality(S \cap 1..4 + 1) = Cardinality(S \cap 1..4) + In(S, 4 + 1)
    BY <1>5, OneMoreCounted
  <2> QED
    BY <1>5, <2>1 DEF In
<1> QED
  BY <1>0, <1>6

\* The queries are lines of the file, and their times numbers.
LEMMA QueryTimes ==
  ASSUME file \in QueryFiles, NEW q \in 1..Len(queries)
  PROVE  RunTimes(queries[q]) \subseteq Nat
BY BenchmarkAssumption DEF queries

\* One more run, and there is a fastest and a slowest one still.
LEMMA OneMoreCompared ==
  ASSUME NEW S, NEW x, \A k \in S \cup {x} : results[k].time \in Nat,
         \/ S = {}
         \/ \E lo, hi \in S : \A k \in S : /\ results[lo].time <= results[k].time
                                           /\ results[k].time <= results[hi].time
  PROVE  \E lo, hi \in S \cup {x} :
           \A k \in S \cup {x} : /\ results[lo].time <= results[k].time
                                 /\ results[k].time <= results[hi].time
<1>1. CASE S = {}
  BY <1>1
<1>2. ASSUME NEW lo \in S, NEW hi \in S,
             \A k \in S : /\ results[lo].time <= results[k].time
                          /\ results[k].time <= results[hi].time
      PROVE  \E a, b \in S \cup {x} :
               \A k \in S \cup {x} : /\ results[a].time <= results[k].time
                                     /\ results[k].time <= results[b].time
  <2>1. PICK a \in {lo, x} : results[a].time <= results[lo].time
                             /\ results[a].time <= results[x].time
    BY <1>2
  <2>2. PICK b \in {hi, x} : results[hi].time <= results[b].time
                             /\ results[x].time <= results[b].time
    BY <1>2
  <2>3. \A k \in S \cup {x} : /\ results[a].time <= results[k].time
                              /\ results[k].time <= results[b].time
    BY <1>2, <2>1, <2>2
  <2> QED
    BY <2>1, <2>2, <2>3
<1> QED
  BY <1>1, <1>2

\* There is nothing between two runs.
LEMMA NextRunCompared ==
  ASSUME NEW S, \A k \in S : results[k].time \in Nat, NEW n \in Nat,
         \/ S \cap 1..n = {}
         \/ \E lo, hi \in S \cap 1..n : \A k \in S \cap 1..n :
              results[lo].time <= results[k].time /\ results[k].time <= results[hi].time
  PROVE  \/ S \cap 1..n + 1 = {}
         \/ \E lo, hi \in S \cap 1..n + 1 : \A k \in S \cap 1..n + 1 :
              results[lo].time <= results[k].time /\ results[k].time <= results[hi].time
<1>1. \A k : k \in 1..n + 1 <=> k \in 1..n \/ k = n + 1
  OBVIOUS
<1> DEFINE T == S \cap 1..n
<1>2. CASE n + 1 \in S
  <2>1. S \cap 1..n + 1 = T \cup {n + 1}
    BY <1>1, <1>2
  <2>2. \A k \in T \cup {n + 1} : results[k].time \in Nat
    BY <1>2
  <2>3. \/ T = {}
        \/ \E lo, hi \in T : \A k \in T :
             results[lo].time <= results[k].time /\ results[k].time <= results[hi].time
    OBVIOUS
  <2> HIDE DEF T
  <2>4. \E lo, hi \in T \cup {n + 1} :
           \A k \in T \cup {n + 1} : /\ results[lo].time <= results[k].time
                                     /\ results[k].time <= results[hi].time
    BY <2>2, <2>3, OneMoreCompared
  <2> QED
    BY <2>1, <2>4
<1>3. CASE n + 1 \notin S
  <2>1. S \cap 1..n + 1 = S \cap 1..n
    BY <1>1, <1>3
  <2> QED
    BY <2>1
<1> QED
  BY <1>2, <1>3

\* Of some runs, one is the fastest and one the slowest.
LEMMA RunsCompared ==
  ASSUME NEW S \in SUBSET (1..5), S # {}, \A k \in S : results[k].time \in Nat
  PROVE  /\ \E lo, hi \in S : \A k \in S : /\ results[lo].time <= results[k].time
                                           /\ results[k].time <= results[hi].time
         /\ Fastest(S) \in S /\ \A k \in S : results[Fastest(S)].time <= results[k].time
         /\ Slowest(S) \in S /\ \A k \in S : results[k].time <= results[Slowest(S)].time
<1> DEFINE Compared(n) ==
      \/ S \cap 1..n = {}
      \/ \E lo, hi \in S \cap 1..n : \A k \in S \cap 1..n :
           results[lo].time <= results[k].time /\ results[k].time <= results[hi].time
<1>0. Compared(0)
  <2>1. \A k \in 1..0 : FALSE
    OBVIOUS
  <2> QED
    BY <2>1
<1>1. \A n \in Nat : Compared(n) => Compared(n + 1)
  <2> SUFFICES ASSUME NEW n \in Nat, Compared(n) PROVE Compared(n + 1)
    OBVIOUS
  <2> QED
    BY NextRunCompared
<1> HIDE DEF Compared
<1>2. Compared(0 + 1) /\ Compared(1 + 1) /\ Compared(2 + 1) /\ Compared(3 + 1) /\ Compared(4 + 1)
  BY <1>0, <1>1
<1>3. Compared(5)
  BY <1>2
<1>4. S \cap 1..5 = S
  OBVIOUS
<1>5. \E lo, hi \in S : \A k \in S : /\ results[lo].time <= results[k].time
                                     /\ results[k].time <= results[hi].time
  BY <1>3, <1>4 DEF Compared
<1>6. Fastest(S) \in S /\ \A k \in S : results[Fastest(S)].time <= results[k].time
  BY <1>5 DEF Fastest
<1>7. Slowest(S) \in S /\ \A k \in S : results[k].time <= results[Slowest(S)].time
  BY <1>5 DEF Slowest
<1> QED
  BY <1>5, <1>6, <1>7

\* A number times a count of five is five times the number, counted.
LEMMA Distribute ==
  ASSUME NEW h \in Nat, NEW a \in {0, 1}, NEW b \in {0, 1}, NEW c \in {0, 1},
         NEW d \in {0, 1}, NEW e \in {0, 1}
  PROVE  h * (a + b + c + d + e) = h * a + h * b + h * c + h * d + h * e
OBVIOUS

\* The sum of some times lies between as many times the least and as many
\* times the greatest of them.
LEMMA SumEnclosed ==
  ASSUME NEW S \in SUBSET (1..5), NEW lo \in Nat, NEW hi \in Nat,
         \A k \in S : /\ results[k].time \in Nat
                      /\ lo <= results[k].time /\ results[k].time <= hi
  PROVE  lo * Cardinality(S) <= Total(S) /\ Total(S) <= hi * Cardinality(S)
<1> DEFINE t(k) == IF k \in S THEN results[k].time ELSE 0
<1>1. Cardinality(S) = In(S, 1) + In(S, 2) + In(S, 3) + In(S, 4) + In(S, 5)
  BY RunsCounted
<1>2. Total(S) = t(1) + t(2) + t(3) + t(4) + t(5)
  BY DEF Total
<1>3. ASSUME NEW k
      PROVE  /\ In(S, k) \in {0, 1} /\ t(k) \in Nat
             /\ lo * In(S, k) <= t(k) /\ t(k) <= hi * In(S, k)
             /\ lo * In(S, k) \in Nat /\ hi * In(S, k) \in Nat
  <2>1. CASE k \in S
    <3>1. In(S, k) = 1 /\ t(k) = results[k].time
      BY <2>1 DEF In
    <3> QED
      BY <2>1, <3>1
  <2>2. CASE k \notin S
    <3>1. In(S, k) = 0 /\ t(k) = 0
      BY <2>2 DEF In
    <3> QED
      BY <3>1
  <2> QED
    BY <2>1, <2>2
<1> HIDE DEF t
<1>4. /\ lo * Cardinality(S) = lo * In(S, 1) + lo * In(S, 2) + lo * In(S, 3)
                                 + lo * In(S, 4) + lo * In(S, 5)
      /\ hi * Cardinality(S) = hi * In(S, 1) + hi * In(S, 2) + hi * In(S, 3)
                                 + hi * In(S, 4) + hi * In(S, 5)
  <2> DEFINE Counted(h) == h * In(S, 1) + h * In(S, 2) + h * In(S, 3)
                             + h * In(S, 4) + h * In(S, 5)
  <2>1. /\ In(S, 1) \in {0, 1} /\ In(S, 2) \in {0, 1} /\ In(S, 3) \in {0, 1}
        /\ In(S, 4) \in {0, 1} /\ In(S, 5) \in {0, 1}
    BY <1>3
  <2>2. \A h \in Nat : h * (In(S, 1) + In(S, 2) + In(S, 3) + In(S, 4) + In(S, 5)) = Counted(h)
    BY <2>1, Distribute
  <2> HIDE DEF Counted
  <2>3. lo * Cardinality(S) = Counted(lo) /\ hi * Cardinality(S) = Counted(hi)
    BY <1>1, <2>2
  <2> QED
    BY <2>3 DEF Counted
<1>5. \A k \in 1..5 : /\ lo * In(S, k) <= t(k) /\ t(k) <= hi * In(S, k) /\ t(k) \in Nat
                      /\ lo * In(S, k) \in Nat /\ hi * In(S, k) \in Nat
  BY <1>3
<1> QED
  BY <1>2, <1>4, <1>5

\* Of five runs, any may be left out: there are four more.
LEMMA FourLeft ==
  ASSUME NEW S \in SUBSET (1..5), Cardinality(S) = 5, NEW k
  PROVE  S \ {k} # {} /\ S \ {k} \in SUBSET (1..5)
<1>0. S \ {k} \in SUBSET (1..5)
  OBVIOUS
<1>1. IsFiniteSet(S)
  BY RunsCounted
<1>2. Cardinality(S \ {k}) = IF k \in S THEN 5 - 1 ELSE 5
  BY <1>1, FS_RemoveElement
<1>3. Cardinality({}) = 0
  BY FS_EmptySet
<1>4. Cardinality(S \ {k}) # 0
  BY <1>2
<1> QED
  BY <1>0, <1>3, <1>4

\* What is kept lies between any run and any other: leaving out one run, even
\* the fastest or the slowest, leaves a fastest and a slowest that enclose it.
LEMMA KeptEnclosed ==
  ASSUME NEW S \in SUBSET (1..5), S # {}, \A k \in S : results[k].time \in Nat,
         NEW rest, rest = S \/ (Cardinality(S) = 5 /\ \E k \in S : rest = S \ {k})
  PROVE  \E lo, hi \in rest : \A k \in Kept(S) :
           results[lo].time <= results[k].time /\ results[k].time <= results[hi].time
<1>1. rest # {} /\ rest \in SUBSET (1..5) /\ rest \subseteq S
  BY FourLeft
<1>2. PICK lo, hi \in rest : \A k \in rest :
        results[lo].time <= results[k].time /\ results[k].time <= results[hi].time
  BY <1>1, RunsCompared
<1>3. CASE Cardinality(S) = 5
  <2> DEFINE f == Fastest(S)
             s == Slowest(S \ {f})
  <2>1. f \in S /\ \A k \in S : results[f].time <= results[k].time
    BY RunsCompared
  <2>2. S \ {f} # {} /\ S \ {f} \in SUBSET (1..5)
    BY <1>3, FourLeft
  <2>3. s \in S \ {f} /\ \A k \in S \ {f} : results[k].time <= results[s].time
    BY <2>2, RunsCompared
  <2>4. Kept(S) = S \ {f, s}
    BY <1>3 DEF Kept
  <2> HIDE DEF f, s
  <2>5. ASSUME NEW k \in Kept(S)
        PROVE  results[lo].time <= results[k].time /\ results[k].time <= results[hi].time
    <3>1. k \in S /\ k # f /\ k # s
      BY <2>4
    <3>2. CASE k \in rest
      BY <1>2, <3>2
    <3>3. CASE k \notin rest
      <4>1. rest = S \ {k}
        BY <3>1, <3>3
      <4>2. f \in rest /\ s \in rest
        BY <2>1, <2>3, <3>1, <4>1
      <4>3. results[lo].time <= results[f].time /\ results[s].time <= results[hi].time
        BY <1>2, <4>2
      <4>4. results[f].time <= results[k].time /\ results[k].time <= results[s].time
        BY <2>1, <2>3, <3>1
      <4>5. {results[lo].time, results[hi].time, results[f].time, results[s].time,
             results[k].time} \subseteq Nat
        BY <1>1, <2>1, <2>3, <3>1
      <4> QED
        BY <4>3, <4>4, <4>5
    <3> QED
      BY <3>2, <3>3
  <2> QED
    BY <2>5
<1>4. CASE Cardinality(S) # 5
  <2>1. rest = S /\ Kept(S) = S
    BY <1>4 DEF Kept
  <2> QED
    BY <1>2, <2>1
<1> QED
  BY <1>3, <1>4

\* The average encloses, and is enclosed by, times of the runs.
LEMMA AverageWithin ==
  ASSUME NEW S \in SUBSET (1..5), S # {}, \A k \in S : results[k].time \in Nat,
         NEW rest, rest = S \/ (Cardinality(S) = 5 /\ \E k \in S : rest = S \ {k}),
         NEW line, line.sum = Total(Kept(S)), line.of = Cardinality(Kept(S))
  PROVE  R!Within(line, rest)
<1>1. PICK lo, hi \in rest : \A k \in Kept(S) :
        results[lo].time <= results[k].time /\ results[k].time <= results[hi].time
  BY KeptEnclosed
<1>2. Kept(S) \in SUBSET (1..5) /\ Kept(S) \subseteq S /\ rest \subseteq S
  BY DEF Kept
<1>3. /\ results[lo].time \in Nat /\ results[hi].time \in Nat
      /\ \A k \in Kept(S) : results[k].time \in Nat
  BY <1>2
<1>4. /\ results[lo].time * Cardinality(Kept(S)) <= Total(Kept(S))
      /\ Total(Kept(S)) <= results[hi].time * Cardinality(Kept(S))
  BY <1>1, <1>2, <1>3, SumEnclosed
<1> QED
  BY <1>4 DEF R!Within

-----------------------------------------------------------------------------
(* The report: every step of a benchmark is one of module Report.          *)

\* While there is a final results file, it has a line for every query before
\* the one at hand.
ReportInv ==
  /\ RunsInv
  /\ ~fast => Len(finalFile) = i - 1

\* The runs of the query at hand and their times.
LEMMA RunsAtHand ==
  ASSUME RunsInv, i <= Len(queries)
  PROVE  /\ DOMAIN results \in SUBSET (1..5) /\ DOMAIN results = 1..Len(results)
         /\ Measured \in SUBSET (1..5)
         /\ \A k \in Measured : results[k].time \in Nat
         /\ R!Good = Measured /\ R!Bad = errors
         /\ \A k \in DOMAIN results : k \in Measured \/ k \in errors
<1>1. DOMAIN results = 1..Len(results) /\ Len(results) \in Nat
  BY DEF RunsInv, IsRow
<1>2. Len(results) <= run /\ run \in 1..5
  BY DEF RunsInv, TypeOK
<1>3. DOMAIN results \in SUBSET (1..5)
  BY <1>1, <1>2
<1>4. \A k \in DOMAIN results : RunOK(results[k], queries[i])
  BY ResultsOK DEF RunsInv
<1>5. RunTimes(queries[i]) \subseteq Nat
  <2>1. i \in 1..Len(queries) /\ file \in QueryFiles
    BY QueriesOfFile DEF RunsInv, TypeOK
  <2> QED
    BY <2>1, QueryTimes
<1>6. \A k \in Measured : results[k].time \in Nat
  BY <1>4, <1>5 DEF Measured, RunOK
<1>7. \A k \in DOMAIN results : k \in Measured \/ k \in errors
  BY <1>4 DEF Measured, errors, RunOK
<1> QED
  BY <1>1, <1>3, <1>6, <1>7 DEF Measured, errors, R!Good, R!Bad

\* The line of a query is an honest summary of its runs.
LEMMA LineIsHonest ==
  ASSUME RunsInv, i <= Len(queries)
  PROVE  R!Honest(Line) /\ Line.query = queries[i]
<1>1. CASE Measured # {}
  <2>1. /\ Line.query = queries[i] /\ Line.kind = "average"
        /\ Line.sum = Total(Kept(Measured)) /\ Line.of = Cardinality(Kept(Measured))
    BY <1>1 DEF Line
  <2>2. R!Within(Line, Measured)
    BY <1>1, <2>1, RunsAtHand, AverageWithin
  <2>3. ASSUME Cardinality(Measured) = 5, NEW k \in Measured
        PROVE  R!Within(Line, Measured \ {k})
    BY <1>1, <2>1, <2>3, RunsAtHand, AverageWithin
  <2>4. Cardinality(1..5) = 5
    <3>1. In(1..5, 1) = 1 /\ In(1..5, 2) = 1 /\ In(1..5, 3) = 1 /\ In(1..5, 4) = 1
          /\ In(1..5, 5) = 1
      BY DEF In
    <3>2. Cardinality(1..5) = 1 + 1 + 1 + 1 + 1
      BY <3>1, RunsCounted
    <3> QED
      BY <3>2
  <2> QED
    BY <1>1, <2>1, <2>2, <2>3, <2>4, RunsAtHand DEF R!Honest
<1>2. CASE Measured = {}
  <2>1. CASE errors = {}
    BY <1>2, <2>1, RunsAtHand DEF Line, Failed, R!Honest
  <2>2. CASE errors # {}
    <3>1. errors = 1..Len(results)
      BY <1>2, RunsAtHand DEF errors
    <3>2. Len(results) \in Nat
      BY DEF RunsInv, IsRow
    <3>3. 1 \in errors /\ \A k \in errors : 1 <= k
      BY <2>2, <3>1, <3>2
    <3>4. \A x \in errors : (\A y \in errors : x <= y) => x = 1
      BY <3>1, <3>2, <3>3
    <3>5. Min(errors) = 1
      BY <3>3, <3>4 DEF Min
    <3> QED
      BY <1>2, <2>2, <3>5, RunsAtHand DEF Line, Failed, R!Honest
  <2> QED
    BY <2>1, <2>2
<1> QED
  BY <1>1, <1>2

\* What a list was before something was appended to it.
LEMMA BeforeAppend ==
  ASSUME NEW s, IsRow(s), NEW x
  PROVE  SubSeq(Append(s, x), 1, Len(s)) = s
<1> DEFINE n == Len(s)
           t == Append(s, x)
           u == SubSeq(t, 1, n)
           S == {s[k] : k \in 1..n} \cup {x}
<1>1. s \in Seq(S) /\ x \in S /\ n \in Nat
  BY DEF IsRow
<1> HIDE DEF S
<1>2. t \in Seq(S) /\ Len(t) = n + 1 /\ \A k \in 1..n : t[k] = s[k]
  BY <1>1
<1>3. u \in Seq(S) /\ Len(u) = n /\ \A k \in 1..n : u[k] = t[k]
  <2> HIDE DEF t, n
  <2> QED
    BY <1>1, <1>2
<1> HIDE DEF t, u
<1>4. Len(s) = Len(u) /\ \A k \in 1..Len(s) : s[k] = u[k]
  BY <1>2, <1>3
<1>5. u = [k \in 1..Len(u) |-> u[k]] /\ s = [k \in 1..Len(s) |-> s[k]]
  BY <1>1, <1>3
<1>6. u = s
  BY <1>4, <1>5
<1> QED
  BY <1>6 DEF u, t

Ended == {"done", "failed", "panicked"}

\* What leaves the results, the lines and the query alone is no step of the
\* report.
LEMMA NothingReported ==
  ASSUME UNCHANGED <<file, fast, i, results, finalFile>>, pc \notin Ended, pc' \notin Ended
  PROVE  UNCHANGED R!vars
BY QueriesOfFile DEF R!vars, Ended

\* The end of a run that left something is one measurement more.
LEMMA RunReported ==
  ASSUME RunsInv, pc \in Measuring, pc' \notin Ended, NEW r, results' = Append(results, r),
         UNCHANGED <<file, fast, i, finalFile>>
  PROVE  R!Measure
<1>1. /\ queries' = queries /\ i <= Len(queries) /\ pc \notin Ended
      /\ Len(results) < run /\ run \in 1..5
  BY QueriesOfFile DEF RunsInv, TypeOK, Measuring, Ended
<1>2. Len(results) < 5
  <2>1. Len(results) \in Nat
    BY DEF RunsInv, IsRow
  <2> QED
    BY <1>1, <2>1
<1>3. Len(results') = Len(results) + 1 /\ SubSeq(results', 1, Len(results)) = results
  BY AppendToRow, BeforeAppend DEF RunsInv
<1> QED
  BY <1>1, <1>2, <1>3 DEF R!Measure, Ended

\* A line written before the next query concludes the one at hand.
LEMMA QueryReported ==
  ASSUME ReportInv, i <= Len(queries), pc \notin Ended, NEW line, WriteLine(line), NextQuery,
         UNCHANGED <<file, fast>>, R!Honest(line), line.query = queries[i]
  PROVE  R!Conclude /\ (~fast' => Len(finalFile') = i' - 1)
<1>1. /\ queries' = queries /\ i' = i + 1 /\ results' = <<>> /\ pc' = "query"
      /\ i \in Nat /\ IsRow(finalFile)
  BY QueriesOfFile DEF NextQuery, ReportInv, RunsInv, TypeOK
<1>2. CASE fast
  BY <1>1, <1>2 DEF WriteLine, R!Conclude, Ended
<1>3. CASE ~fast
  <2>1. finalFile' = Append(finalFile, line) /\ Len(finalFile) = i - 1
    BY <1>3 DEF WriteLine, ReportInv
  <2>2. /\ Len(finalFile') = Len(finalFile) + 1
        /\ SubSeq(finalFile', 1, Len(finalFile)) = finalFile
        /\ finalFile'[i] = line
    <3>1. Len(finalFile) + 1 = i
      BY <1>1, <2>1
    <3> QED
      BY <1>1, <2>1, <3>1, AppendToRow, BeforeAppend
  <2>3. Len(finalFile') = i' - 1
    BY <1>1, <2>1, <2>2
  <2> QED
    BY <1>1, <1>3, <2>2, <2>3 DEF R!Conclude, Ended
<1> QED
  BY <1>2, <1>3

\* A query whose server did not come back has run on none.
LEMMA RestartIsHonest ==
  ASSUME RunsInv, i <= Len(queries), results = <<>>
  PROVE  R!Honest(Failed("restart")) /\ Failed("restart").query = queries[i]
<1>1. R!Good = {} /\ R!Bad = {}
  BY DEF R!Good, R!Bad
<1> QED
  BY <1>1 DEF R!Honest, Failed

\* A benchmark begins with an empty report.
LEMMA ReportInit == Init => ReportInv /\ R!Init
<1> SUFFICES ASSUME Init PROVE ReportInv /\ R!Init
  OBVIOUS
<1>1. Len(finalFile) = i - 1
  BY DEF Init
<1> QED
  BY <1>1, RunsInit DEF ReportInv, R!Init, Init

\* A run ends, in any of five ways, and the queries go on.
LEMMA RunEndsReported ==
  ASSUME RunsInv, NEW c \in BOOLEAN, EndRun \/ EndRuns(c)
  PROVE  pc' \notin Ended
BY DEF EndRun, EndRuns, Ended

\* Every step of a benchmark is one of the report or none.
LEMMA ReportNext == ReportInv /\ [Next]_vars => [R!Next]_R!vars /\ ReportInv'
<1> SUFFICES ASSUME ReportInv, [Next]_vars PROVE [R!Next]_R!vars /\ ReportInv'
  OBVIOUS
<1>1. RunsInv /\ RunsInv' /\ (pc \in Restarting \cup Measuring \cup {"summary"} => i <= Len(queries))
  BY RunsNext DEF ReportInv, RunsInv
<1>2. ASSUME UNCHANGED <<fast, i, finalFile>>
      PROVE  ReportInv'
  BY <1>1, <1>2 DEF ReportInv
<1>3. ASSUME UNCHANGED <<file, fast, i, results, finalFile>>, pc \notin Ended, pc' \notin Ended
      PROVE  [R!Next]_R!vars /\ ReportInv'
  BY <1>2, <1>3, NothingReported
<1>4. ASSUME NEW line, WriteLine(line), NextQuery, UNCHANGED <<file, fast>>,
             R!Honest(line), line.query = queries[i], i <= Len(queries), pc \notin Ended
      PROVE  [R!Next]_R!vars /\ ReportInv'
  BY <1>1, <1>4, QueryReported DEF ReportInv, R!Next
<1>5. ASSUME UNCHANGED <<file, fast, i, results, finalFile>>, pc \notin Ended,
             pc' = "done", pc \in {"open", "query"}, i > Len(queries)
      PROVE  [R!Next]_R!vars /\ ReportInv'
  BY <1>2, <1>5, QueriesOfFile DEF R!Complete, R!Next, Ended
<1>6. ASSUME UNCHANGED <<file, fast, i, results, finalFile>>, pc \notin Ended,
             pc' \in {"failed", "panicked"}
      PROVE  [R!Next]_R!vars /\ ReportInv'
  BY <1>2, <1>6, QueriesOfFile DEF R!Abort, R!Next, Ended
<1>7. ASSUME NEW r, results' = Append(results, r), UNCHANGED <<file, fast, i, finalFile>>,
             pc \in Measuring, pc' \notin Ended
      PROVE  [R!Next]_R!vars /\ ReportInv'
  BY <1>1, <1>2, <1>7, RunReported DEF R!Next
<1>8. CASE Open
  <2>1. UNCHANGED <<file, fast, i, results, finalFile>> /\ pc \notin Ended
    BY <1>8 DEF Open, argVars, loopVars, Ended
  <2>2. queries = <<>> => i > Len(queries)
    <3>1. Len(<<>>) = 0 /\ i \in Nat /\ i >= 1
      BY <1>1, QueriesOfFile DEF RunsInv, TypeOK
    <3> QED
      BY <3>1
  <2>3. \/ pc' = "done" /\ queries = <<>>
        \/ pc' = "query"
        \/ pc' = "failed"
    BY <1>8 DEF Open
  <2>4. pc = "open" /\ "query" \notin Ended
    BY <1>8 DEF Open, Ended
  <2> QED
    BY <1>3, <1>5, <1>6, <2>1, <2>2, <2>3, <2>4
<1>9. CASE BeginQuery
  BY <1>3, <1>9 DEF BeginQuery, argVars, Ended
<1>10. CASE EndBenchmark
  BY <1>5, <1>10 DEF EndBenchmark, argVars, loopVars, Ended
<1>11. CASE Summarise
  BY <1>1, <1>4, <1>11, LineIsHonest DEF Summarise, argVars, Ended
<1>12. CASE GiveUp
  <2>1. CASE resume = "check"
    <3>1. results = <<>> /\ i <= Len(queries)
      BY <1>1, <1>12, <2>1 DEF GiveUp, RunsInv, Restarting
    <3> QED
      BY <1>1, <1>4, <1>12, <2>1, <3>1, RestartIsHonest DEF GiveUp, argVars, Ended
  <2>2. CASE resume # "check"
    BY <1>3, <1>12, <2>2 DEF GiveUp, argVars, loopVars, Ended
  <2> QED
    BY <2>1, <2>2
<1>13. CASE SendQuery
  BY <1>3, <1>13 DEF SendQuery, argVars, Ended
<1>14. ASSUME NEW message, RunFails(message), pc \in Measuring
       PROVE  [R!Next]_R!vars /\ ReportInv'
  <2> DEFINE err == Classify(message)
             r == [kind |-> "failed", err |-> err]
  <2>1. /\ results' = Append(results, r)
        /\ EndRun \/ EndRuns(err = "oom")
        /\ UNCHANGED <<file, fast, i, finalFile>>
    BY <1>14 DEF RunFails, argVars
  <2>2. (err = "oom") \in BOOLEAN
    OBVIOUS
  <2> HIDE DEF r, err
  <2>3. pc' \notin Ended
    BY <1>1, <2>1, <2>2, RunEndsReported
  <2> QED
    BY <1>7, <1>14, <2>1, <2>3
<1>15. CASE Unreachable \/ Refused \/ Broken \/ TimesOut
  BY <1>14, <1>15 DEF Unreachable, Refused, Broken, TimesOut, Measuring
<1>16. CASE RunSucceeds
  <2>1. PICK t \in RunTimes(queries[i]) :
          results' = Append(results, [kind |-> "ok", time |-> t, run |-> run, on |-> flight])
    BY <1>16 DEF RunSucceeds
  <2>2. /\ pc \in Measuring /\ EndRun /\ UNCHANGED <<file, fast, i, finalFile>>
    BY <1>16 DEF RunSucceeds, Measuring, argVars
  <2>3. pc' \notin Ended
    BY <1>1, <2>2, RunEndsReported
  <2> QED
    BY <1>7, <2>1, <2>2, <2>3
<1>17. CASE Garbled
  <2>1. /\ pc = "post" /\ EndRun /\ UNCHANGED <<file, fast, i, results, finalFile>>
    BY <1>17 DEF Garbled, argVars
  <2>2. pc' \notin Ended /\ pc \notin Ended
    BY <1>1, <2>1, RunEndsReported DEF Ended
  <2> QED
    BY <1>3, <2>1, <2>2
<1>18. CASE Panic
  BY <1>6, <1>18 DEF Panic, argVars, loopVars, Ended
<1>19. CASE CommandEnds \/ Tick \/ ProbeFails \/ ProbeSucceeds \/ Expire
  BY <1>3, <1>19
  DEF CommandEnds, Tick, ProbeFails, ProbeSucceeds, Expire, argVars, loopVars, Ended
<1>20. CASE Restore
  <2>1. resume \in {"check", "summary"}
    BY <1>1 DEF RunsInv, TypeOK
  <2> QED
    BY <1>3, <1>20, <2>1 DEF Restore, argVars, loopVars, Ended
<1>21. CASE Environment \/ UNCHANGED vars
  <2>1. UNCHANGED <<file, fast, pc, i, results, finalFile>>
    BY <1>21 DEF Environment, clientVars, vars, argVars, loopVars
  <2> QED
    BY <1>2, <2>1, QueriesOfFile DEF R!vars
<1> QED
  BY <1>8, <1>9, <1>10, <1>11, <1>12, <1>13, <1>15, <1>16, <1>17, <1>18, <1>19, <1>20, <1>21
  DEF Next, Process

\* runBenchmark (executor.go) implements module Report: whatever the server,
\* the restarts and the messages do, each query leaves one line, in order, and
\* the line is an honest summary of the runs of that query.
THEOREM BenchmarkImplementsReport == Spec => ReportSpec
<1>1. Init => R!Init
  BY ReportInit
<1> QED
  BY <1>1, ReportInit, ReportNext, PTL DEF Spec, ReportSpec, R!Spec
=============================================================================
