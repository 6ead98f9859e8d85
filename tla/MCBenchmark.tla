----------------------------- MODULE MCBenchmark -----------------------------
(***************************************************************************)
(* Two queries and a comment, or a query beyond the scanner's limit, and a *)
(* server whose messages may speak of memory, of time, of both or neither. *)
(***************************************************************************)
EXTENDS BenchmarkProperties

MCDatabases == {"db"}
MCWords == {"not reachable", "eof", "heap", "timeout"}
MCOomWords == {"not reachable", "eof", "heap"}
MCTimeoutWords == {"timeout"}
MCMessages == {{}, {"heap", "timeout"}}

MCQueryFiles == {<<"query", "ignored", "query">>, <<"ignored">>, <<"ignored", "query", "long", "query">>}
\* Only the query in the second line is fast and slow.
MCRunTimes(n) == IF n = 2 THEN {1, 5} ELSE {1}

AllOptions == BOOLEAN \X BOOLEAN
=============================================================================
