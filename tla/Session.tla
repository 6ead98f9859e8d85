------------------------------- MODULE Session -------------------------------
(***************************************************************************)
(* The shell around the loader and the client: Executor.Execute and        *)
(* handleMetaCommand (internal/repl/executor.go) with the session state of *)
(* internal/session/state.go, a disk with databases, and the server.  A    *)
(* step is one command, typed or given with -e: main.go goes on with the   *)
(* next one whatever became of the last.  \i and \benchmark are one step   *)
(* here; modules Ingest and Benchmark show what happens within them.       *)
(***************************************************************************)
EXTENDS Client, SequencesExt

CONSTANTS
  Targets,      \* what may be given to \connect, split at its colons
  PathTokens,   \* the pieces that hold a slash or a dot
  Ports,        \* the pieces that are numbers
  ServerPort,   \* where the server listens
  Names,        \* what may be given for the name of a database
  Elements,     \* the elements of a path that name a directory
  NamePath,     \* each name, split at its slashes
  TargetPath,   \* each target that is a path, split at its slashes, after the
                \* working directory if it does not begin with one
  Existing      \* the directories there are at first

Tokens == UNION {Range(t) : t \in Targets}
Dots == {"", ".", ".."}
Path == Seq(Elements \cup Dots)
Directory == Seq(Elements)

\* A path goes to local mode, and so does a word that is no number.
IsPath(t) ==
  \/ \E n \in DOMAIN t : t[n] \in PathTokens
  \/ Len(t) = 1 /\ t[1] \notin Ports

ASSUME SessionAssumption ==
  /\ Targets \subseteq Seq(Tokens) \ {<<>>}
  /\ PathTokens \cap Ports = {}
  /\ ServerPort \in Ports /\ "" \notin Ports
  /\ "" \notin Names /\ NoDB \notin Names
  /\ Databases \subseteq Names
  /\ Elements \cap Dots = {}
  /\ NamePath \in [Names -> Path]
  /\ TargetPath \in [{t \in Targets : IsPath(t)} -> Path]
  /\ Existing \subseteq Directory /\ <<>> \in Existing
  /\ \A p \in Existing : p # <<>> => Front(p) \in Existing

VARIABLES
  mode,          \* CurrentMode: "none", "local" or "remote"
  activeDB,      \* ActiveDB, "" for none
  localRoot,     \* LocalRoot, an absolute path
  remotePort,    \* the port of Client
  showResults,
  disk,          \* the directories, each with what it holds of a store
  command        \* the latest \create, \drop or \i, with its database

sessionVars == <<mode, activeDB, localRoot, remotePort, showResults>>
vars == <<sessionVars, disk, command, serverVars>>

\* "partial" is what a load or a removal that stopped has left, if anything.
Contents == {"empty", "partial", "loaded"}

\* Every directory lies in another, up to the root of the disk.
TypeOK ==
  /\ mode \in {"none", "local", "remote"}
  /\ activeDB \in Names \cup {""}
  /\ localRoot \in Directory
  /\ remotePort \in Ports \cup {""} /\ (mode = "remote" => remotePort # "")
  /\ showResults \in BOOLEAN
  /\ DOMAIN disk \subseteq Directory /\ <<>> \in DOMAIN disk
  /\ \A p \in DOMAIN disk : disk[p] \in Contents /\ (p # <<>> => Front(p) \in DOMAIN disk)
  /\ ServerTypeOK

NewState ==
  /\ mode = "none" /\ activeDB = "" /\ localRoot = <<>> /\ remotePort = ""
  /\ showResults = FALSE

Init ==
  /\ NewState
  /\ disk = [p \in Existing |-> "empty"]
  /\ command = <<"none", "">>
  /\ status = "up" /\ mounted = NoDB /\ warm = {} /\ orphan = FALSE

\* What GetPrompt shows: of the root only its last element.
Prompt ==
  [mode |-> mode,
   at |-> CASE mode = "none" -> <<>> [] mode = "remote" -> <<remotePort>>
            [] mode = "local" -> IF localRoot = <<>> THEN <<"/">> ELSE <<Last(localRoot)>>,
   db |-> IF activeDB = "" THEN NoDB ELSE activeDB]

-----------------------------------------------------------------------------
(* Paths, by their elements.                                               *)

\* filepath.Clean of an absolute path: "." and nothing stay where they are,
\* ".." takes the last element away, if there is one.
Step(path, element) ==
  IF element \in {"", "."} THEN path
  ELSE IF element = ".." THEN (IF path = <<>> THEN <<>> ELSE Front(path))
  ELSE Append(path, element)

Cleaned(path) ==
  LET after[n \in 0..Len(path)] == IF n = 0 THEN <<>> ELSE Step(after[n - 1], path[n])
  IN  after[Len(path)]

\* Variant: the name is taken from the root of the disk.
JoinBare(root, name) == Cleaned(NamePath[name])

\* filepath.Join(LocalRoot, name): any path, in the root or not.
Join(root, name) == Cleaned(root \o NamePath[name])
Place(name) == Join(localRoot, name)

-----------------------------------------------------------------------------
(* \connect.                                                               *)

\* filepath.Abs; the directory need not exist.
ConnectLocal(t) ==
  /\ IsPath(t)
  /\ mode' = "local" /\ localRoot' = Cleaned(TargetPath[t]) /\ activeDB' = ""
  /\ UNCHANGED remotePort

\* Variant: the mode is set before the port has been parsed.
ConnectUnparsed(t) ==
  /\ ~IsPath(t)
  /\ mode' = "remote" /\ activeDB' = ""
  /\ remotePort' = IF t[Len(t)] \in Ports THEN t[Len(t)] ELSE remotePort
  /\ UNCHANGED localRoot

\* Variant: the database selected before stays selected.
ConnectKeeping(t) ==
  /\ ~IsPath(t) /\ t[Len(t)] \in Ports
  /\ mode' = "remote" /\ remotePort' = t[Len(t)]
  /\ UNCHANGED <<localRoot, activeDB>>

\* The host before the colon is dropped: NewClient knows only localhost.
ConnectRemote(t) ==
  /\ ~IsPath(t) /\ t[Len(t)] \in Ports
  /\ mode' = "remote" /\ remotePort' = t[Len(t)] /\ activeDB' = ""
  /\ UNCHANGED localRoot

\* "invalid port" leaves everything as it was, and so does a relative path when
\* the working directory is gone.
Connect ==
  \E t \in Targets :
    /\ ConnectLocal(t) \/ ConnectRemote(t)
    /\ UNCHANGED <<showResults, disk, command, serverVars>>

-----------------------------------------------------------------------------
(* Selecting, in any mode; only a server is asked.                         *)

Listening == remotePort = ServerPort

Use ==
  \E db \in Names :
    /\ activeDB' = db
    /\ IF mode = "remote" THEN Listening /\ UseDatabase(db, TRUE)
                          ELSE UNCHANGED serverVars
    /\ UNCHANGED <<mode, localRoot, remotePort, showResults, disk, command>>

UseFails ==
  \E db \in Names :
    /\ mode = "remote"
    /\ IF Listening THEN UseDatabase(db, FALSE) ELSE UNCHANGED serverVars
    /\ UNCHANGED <<sessionVars, disk, command>>

-----------------------------------------------------------------------------
(* Local mode.                                                             *)

Holding(p, content) == [q \in DOMAIN disk \cup {p} |-> IF q = p THEN content ELSE disk[q]]

\* With the directories above it.
Made(p) == [q \in DOMAIN disk \cup Prefixes(p) |-> IF q \in DOMAIN disk THEN disk[q] ELSE "empty"]

\* MkdirAll leaves what exists, and may stop at an element that is refused.
CreateDB ==
  \E name \in Names : \E made \in Prefixes(Place(name)) :
    /\ mode = "local"
    /\ made = Place(name) \/ "create" \in Faults
    /\ disk' = Made(made)
    /\ command' = <<"create", name>>
    /\ UNCHANGED <<sessionVars, serverVars>>

Below(p) == {q \in DOMAIN disk : IsPrefix(p, q)}

\* What RemoveAll leaves of a directory and all below it: nothing, or what it
\* cannot remove, of which some of the files may be gone, and the directories
\* above that.  It never removes the root of the disk.
RemoveAll(p) ==
  \E kept \in SUBSET Below(p) : \E spoilt \in SUBSET {q \in kept : disk[q] = "loaded"} :
    /\ kept = Below(p) \cap {<<>>} \/ "remove" \in Faults
    /\ Below(p) \cap {<<>>} \subseteq kept
    /\ \A q \in kept : q = p \/ Front(q) \in kept
    /\ disk' = [q \in (DOMAIN disk \ Below(p)) \cup kept |->
                  IF q \in spoilt THEN "partial" ELSE disk[q]]

\* What is no directory may be a file of the store above.
RemoveFile(p) ==
  /\ p \notin DOMAIN disk /\ Front(p) \in DOMAIN disk /\ disk[Front(p)] # "empty"
  /\ disk' = Holding(Front(p), "partial")

\* ActiveDB and LocalRoot stay.
DropDB ==
  \E name \in Names :
    /\ mode = "local"
    /\ RemoveAll(Place(name)) \/ RemoveFile(Place(name))
    /\ command' = <<"drop", name>>
    /\ UNCHANGED <<sessionVars, serverVars>>

\* What \i leaves once its store is open: something or everything.  RocksDB
\* makes a missing directory, but none above it.  Before that \i changes
\* nothing.
IngestDB ==
  /\ mode = "local" /\ activeDB # ""
  /\ Place(activeDB) # <<>> => Front(Place(activeDB)) \in DOMAIN disk
  /\ \E content \in {"partial", "loaded"} : disk' = Holding(Place(activeDB), content)
  /\ command' = <<"ingest", activeDB>>
  /\ UNCHANGED <<sessionVars, serverVars>>

-----------------------------------------------------------------------------
(* Remote mode, and anywhere.                                              *)

Selected == mode = "remote" /\ activeDB # ""

\* The server has run the query, is still at it, or never saw it.
Query ==
  /\ Selected
  /\ \/ Listening /\ CheckStatus(TRUE) /\ Begin(0)
     \/ Listening /\ CheckStatus(TRUE) /\ "slow" \in Faults /\ Abandon
     \/ (Listening => CheckStatus(FALSE)) /\ UNCHANGED serverVars
  /\ UNCHANGED <<sessionVars, disk, command>>

\* Whether a query of a benchmark was given up and may go on.
Abandoned == IF "slow" \in Faults THEN {TRUE} ELSE {}

\* A benchmark runs queries, if it gets to any.  It may also restart the server,
\* which is then given the database again, or not, or does not come back.
RunBenchmark ==
  /\ Selected
  /\ \/ UNCHANGED serverVars
     \/ /\ Listening /\ CheckStatus(TRUE)
        /\ warm' = warm \cup {0} /\ orphan' \in {orphan} \cup Abandoned
        /\ UNCHANGED <<status, mounted>>
     \/ Listening /\ \E next \in {"starting", "down"} : Gone(next)
     \/ /\ Listening /\ status' = "up"
        /\ mounted' \in {NoDB} \cup ({activeDB} \cap Databases)
        /\ warm' \in SUBSET {0} /\ orphan' \in {FALSE} \cup Abandoned
  /\ UNCHANGED <<sessionVars, disk, command>>

ToggleResults ==
  /\ showResults' = ~showResults
  /\ UNCHANGED <<mode, activeDB, localRoot, remotePort, disk, command, serverVars>>

\* The process ends: \q, the end of the -e list, a query whose answer has no
\* metadata.  The next one starts anew, next to the same disk and server.
Quit ==
  /\ mode' = "none" /\ activeDB' = "" /\ localRoot' = <<>> /\ remotePort' = ""
  /\ showResults' = FALSE
  /\ UNCHANGED <<disk, command, serverVars>>

Environment ==
  /\ Crashes \/ Boots \/ OrphanEnds
  /\ UNCHANGED <<sessionVars, disk, command>>

Next ==
  \/ Connect \/ Use \/ UseFails
  \/ CreateDB \/ DropDB \/ IngestDB
  \/ Query \/ RunBenchmark \/ ToggleResults \/ Quit
  \/ Environment

Spec == Init /\ [][Next]_vars

-----------------------------------------------------------------------------
(* Properties.                                                             *)

\* The database in the prompt of a remote session is the one the server has
\* mounted, or the server has lost it in a restart: through any sequence of
\* connections, of failed and successful \c, in any mode, and of benchmarks.
\* Only an answer that got lost may leave the two apart.
PromptTellsServer ==
  Prompt.mode = "remote" /\ Prompt.db # NoDB /\ "lost" \notin Faults =>
    Listening /\ mounted \in {Prompt.db, NoDB}

\* A name that stays in the root, and one that is a single element.
Inward(name) == ".." \notin Range(NamePath[name])
Single(name) == NamePath[name] \in {<<e>> : e \in Elements}

Lost(p) == p \notin DOMAIN disk' \/ (disk[p] = "loaded" /\ disk'[p] # "loaded")

\* In whatever order roots are connected, one within another or not, databases
\* selected, created, loaded and dropped: a directory disappears, or its load is
\* touched, only by a \drop, or an \i into it while it is the active database.
\* Unless the name given climbs with "..", or the root is no directory, that
\* happens in the session's root only; and if the name is a single element, only
\* to the database of that name and what lies below it, or to the files of a
\* store that is the root itself.
DatabasesSurvive ==
  [][\A p \in DOMAIN disk : Lost(p) =>
       \E name \in Names :
         /\ mode = "local" /\ command' \in {<<"drop", name>>, <<"ingest", name>>}
         /\ command' = <<"ingest", name>> =>
              name = activeDB /\ p = Place(name) /\ p \in DOMAIN disk'
         /\ Inward(name) /\ localRoot \in DOMAIN disk => IsPrefix(localRoot, p)
         /\ Single(name) => \/ IsPrefix(localRoot \o NamePath[name], p)
                            \/ p = localRoot /\ p \in DOMAIN disk']_vars
=============================================================================
