------------------------------ MODULE MCSession ------------------------------
(***************************************************************************)
(* For the server: three databases, of which it knows two, and a target of *)
(* each kind: a path, a port, host and port, a host without a number.      *)
(*                                                                         *)
(* For the disk: a root and another within it, and names that are one      *)
(* element, stay where they are, or climb, so that each database has       *)
(* several names, some of them that of a root.                             *)
(***************************************************************************)
EXTENDS Session

MCDatabases == {"a", "b"}
MCWords == {"not reachable", "eof", "timeout"}
MCOomWords == {"not reachable", "eof"}
MCTimeoutWords == {"timeout"}
MCMessages == {{}}
MCPorts == {"8080", "9090"}
MCPathTokens == {"./dbs", "/dbs/b/../a"}
MCElements == {"dbs", "a", "b", "c"}
MCExisting == {<<>>, <<"dbs">>}

ServerTargets == {<<"./dbs">>, <<"8080">>, <<"localhost", "9090">>, <<"localhost", "http">>}
ServerTargetPath == [t \in {<<"./dbs">>} |-> <<".", "dbs">>]
ServerNames == {"a", "b", "c"}
ServerNamePath == [name \in ServerNames |-> <<name>>]

NoDatabases == {}
RootTargets == {<<"./dbs">>, <<"/dbs/b/../a">>}
RootTargetPath ==
  [t \in RootTargets |->
     IF t = <<"./dbs">> THEN <<".", "dbs">> ELSE <<"", "dbs", "b", "..", "a">>]
RootNames == {"a", ".", "..", "../b"}
RootNamePath ==
  [name \in RootNames |-> IF name = "../b" THEN <<"..", "b">> ELSE <<name>>]

\* What the next command depends on.  Action properties are checked on every
\* step, so the latest command need not tell states apart.
DiskView == <<mode, activeDB, localRoot, disk>>
=============================================================================
