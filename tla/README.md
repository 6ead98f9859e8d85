# gs-cli: a TLA+ model

`gs-cli` is an interactive shell for graph databases. In *local* mode it creates
databases and loads PGDF text files into RocksDB; in *remote* mode it sends
queries and benchmarks to a PathDB server. This directory specifies the program
in TLA+, checks the specification with TLC and proves its invariants and both
its refinements with TLAPS: the loader from the text of a file to the bytes in the store, the session
and its commands, the benchmark with the server restarts, and the way a command
line becomes commands.

## 1. The system

### Components

| Component | Code | State | Operations | Module |
|---|---|---|---|---|
| PGDF parser | `internal/parser/pgdf.go` | none | ParseHeader, FastSplit, ParseLine | `PGDF` |
| Validator | `internal/validator/validator.go` | `nodeIDs`, `edgeIDs`, the header in force | Validate | `Validator` |
| Ingestor | `internal/pipeline/ingestor.go` | write batch, its size, header, blobs pending per label | IngestNodes, IngestEdges | `Ingest` |
| Store wrapper | `internal/rocks/db.go` | RocksDB: memtables and table files of 7 column families | Open, Write, Close | `RocksStore` |
| Metadata | `internal/metastore/metadata.go` | counters, schemas, `metadata.json` | IncNode, IncEdge, Save, Load | `MetaStore` |
| Node cache | `internal/cache/node_cache.go` | encoded node by id | Put, Get, Clear | `NodeCache` |
| Encoding | `internal/storage/*.go` | none | keys, values, blobs, fat batches, MakeEdgeID | `Encoding`; as values in `Ingest` |
| Executor, `\i` | `internal/repl/executor.go` 236-308 | the running ingestion | ingest | `Ingest` |
| Executor, session | `executor.go`, `internal/session/state.go` | mode, active database, root, client | connect, `\c`, `\create`, `\drop`, `\results`, queries, `\q` | `Session` |
| Executor, benchmark | `executor.go` 359-635 | results of the runs, result files | runBenchmark, restartServer | `Benchmark` |
| Server client | `internal/server/client.go` | base URL, timeouts | CheckStatus, UseDatabase, Query | `Client` |
| Command line | `cmd/gs-cli/main.go`, parseArgs | none | `-e` splitting, quoting, options | `CommandLine` |
| `\l`, `\s`, `\d`, printing, completer, scripts, tests | | none | listing, formatting, suggestions | not modelled |

### How they interact

`\i -n nodes -e edges` runs on the caller's goroutine. It validates both files
(unless `--yolo`), opens the store, creates an empty `MetaStore` and
`NodeCache`, reads the nodes file, then the edges file, saves the metadata,
prints a success message and, in deferred calls, clears the cache and closes
the store. Every node row goes to the cache and, with its property index
entries, to the batch; every edge row goes to the batch with its source, target
and property entries, and its *mega blob* (the edge and copies of its two
endpoints, looked up in the cache, not in the store) to the list pending under
its label, which becomes one *fat batch* of the label index when it is large
enough or the file ends. The batch is written when it is large enough.

The text of `-e`, or a typed line, is split into commands and arguments; each
command reads or changes the session (mode, root, active database) and acts on
the disk or, after a health check, on the server, which is another process with
a state of its own: up or not, a database mounted or not, caches warm or not.
`\benchmark` sends every query of a file five times (once with `--fast`) and,
with `--cold`, runs a shell command that restarts the server before each query,
polls until it is back and mounts the database again. The program is sequential;
concurrency is between it and the server, RocksDB's flushes and the clock.

### What is hard

* **Batches, thresholds, leftovers.** Two independent thresholds reset two
  buffers, and both have a final flush whose errors return early.
* **Durability.** The write-ahead log is off, column families flush
  independently, the flush that makes a load durable is in a deferred Close
  without an error result, and comes after the success message.
* **Two readers of one format.** Validator and ingestor each decide what a
  header is, which of two equal columns counts and which rows are skipped.
* **Failing reads.** `bufio.Scanner` delivers the beginning of a line before it
  reports that a read failed; lines have different limits in the two readers.
* **Re-ingestion.** Records accumulate, metadata does not, fat batches have
  fresh keys, the cache starts empty.
* **A server that lives on its own.** It crashes, comes back without its
  database, goes on with a query whose client gave up, or answers too late; the
  program infers all this from words in error messages.
* **Polling with two ready channels.** A health check may outlast the tick and
  the 60 s of `restartServer`; which of the two is taken is then random.
* **Two memories of one fact.** The session's active database and the server's
  mounted one; directories on disk and the selection that names them.
* **Names that are paths.** `\create`, `\drop` and `\i` join a name to the root and
  clean the result, unchecked: `.`, `..` and `a/..` are names, and roots may lie
  within roots, so a directory goes by many names.
* **Lengths in lengths.** Node values in mega blobs in fat batches, each with its
  own field widths and a buffer size computed apart from the copying.
* **Text to commands.** Splitting, quoting and options are separate passes that
  know nothing of each other.

### What makes each component correct

* *Validator*: its verdict is the one the format's rules give (sound, complete),
  whatever the order of lines and headers; it returns.
* *Ingestor and store*: records and index entries never disagree; copies in the
  label index are the stored records; no pending blob is lost; a reported
  success stores every accepted row; an error leaves nothing a later run cannot
  repair; no edge dangles when the two readers agree.
* *Metadata*: exact for the files of the run, never complete before the data.
* *Encoding*: what is written reads back, layer by layer; different index
  entries have different keys, unless they hold the separator; generated ids keep apart what differs.
* *Session*: the prompt names the database the server uses, after any failure;
  no database is lost to a command that does not reach it.
* *Benchmark*: each run counted was made on the intended server state; the
  report has a line per query, in order, each an honest summary; it ends.
* *Command line*: what a user quotes arrives as meant; options may come in any
  order, with any values.

## 2. The modules

| Module | Role |
|---|---|
| `PGDF` | Files as sequences of lines, lines as sequences of trimmed cells; the parser; each reader's view of a file; the declarative rules `ValidFiles` |
| `Validator` | `PGDFValidator.Validate`, one step per line |
| `RocksStore`, `MetaStore`, `NodeCache` | State and operations of the three stores, used by `Ingest` |
| `Ingest` | `Executor.ingest` with the ingestor, one step per line, per flush, per step of saving |
| `IngestProperties` | What an ingestion promises |
| `GraphLoad` | What a load promises, with rows becoming visible in groups: the abstract specification of `Ingest` |
| `IngestRefinement` | `Ingest` implements `GraphLoad`: the mapping |
| `Encoding` | The bytes of `internal/storage`, as an ingestion builds them, and a reader of them |
| `Client` | The server, external, and the requests of `internal/server/client.go` |
| `Session` | The commands over session state, disk and server |
| `Benchmark`, `BenchmarkProperties` | runBenchmark and restartServer; what they promise |
| `Report` | What a results file promises: the abstract specification of `Benchmark` |
| `CommandLine` | The text of `-e` to commands, arguments and options |
| `IngestClaims` | What documentation and messages say of a load and the code does not do (for the benchmark, the last section of `BenchmarkProperties`) |
| `MCValidator`, `MCIngest`, `MCEncoding`, `MCSession`, `MCBenchmark`, `MCCommandLine` | Small instances for TLC |
| `PGDFProofs` | Lemmas about lines, rows, headers and what a line parses to |
| `ValidatorProofs`, `SessionProofs` | Theorems about these modules and their proofs |
| `IngestProofs`, `IntegrityProofs` | The same for `Ingest`: indexes, cache and types, what a success stores, and that `Ingest` implements `GraphLoad`, step by step; then the edges, the metadata and the label index |
| `EncodingProofs` | What is written reads back; keys and generated ids keep apart what differs |
| `BenchmarkProofs` | What is measured; `Benchmark` implements `Report` |
| `CommandLineProofs` | What is quoted arrives; options say the same in any order |

`Session` and `Benchmark` extend `Client`; in `Session` an ingestion and a
benchmark are one step each, with the outcomes that `Ingest` and `Benchmark`
show. `Ingest` works with values, `Encoding` with their bytes.
`Ingest` extends the three stores and composes their operations; it uses the
verdict of the validator in one step, which is what `Validator` and the theorems
about it justify. Definitions keep the names of the code.

### Correspondence

*A cell* is the text between two `|`, trimmed: both readers trim every cell, so
a cell is a token and a line is a non-empty sequence of tokens; a blank line is
`<<"">>`. `AtTokens` are those that start with `@`. A line over a scanner's
limit is one that holds a token of `LongTokens` (64 KB, validator) or
`GiantTokens` (10 MB, ingestor).

*Validator.* `phase` is the running loop or the result of `Validate`, `pos` the
scanner's position, `header` is `currentHeader`. `ReadNodeRow` and `ReadEdgeRow`
are the ends of the two loop bodies, `Refuse` all their early returns, `EndNodes`
and `EndEdges` the ends of the files. `"misread"` is the verdict on a line cut
short by a failing read: the program prints the same kind of message for it.

*Ingest.* `pc` says where `Executor.ingest` is: `nodes` and `edges` (the loops),
`save` and `writing` (inside `MetaStore.Save`, before and after the file is
truncated), `closing` (the deferred calls), `idle`. `batch` is the write batch
as the map it will leave; `pending` and `pendingSize` are
`labelToPendingMegaBlobs` and `labelToPendingSize`; `batchBytes` is
`currentBatchBytes`. `uuids` numbers what `uuid.New` returns: never the same
twice. `ending`, `lossy`, `ingests` are auxiliary: how the store was left last,
whether a memtable was ever lost, how often `\i` was run.

| Action | Code |
|---|---|
| `RejectIngest`, `OpenFails`, `BeginIngest` | executor.go 236-293 |
| `ReadHeader`, `SkipLine`, `PutNode` | ingestor.go 60-135 |
| `ReadHeader`, `SkipLine`, `PutEdge` | ingestor.go 170-285 |
| `FinishNodes`, `FinishEdges` | ingestor.go 137-144, 287-302 |
| `SaveTruncate`, `SaveWrite`, `SaveFails` | metadata.go 136-142, executor.go 302-307 |
| `CloseStore`, `CloseUnflushed` | executor.go 285-289, db.go 103-134 |
| `BackgroundFlush`, `Crash` | RocksDB with the options of db.go 35-76; the process dies |

*Client.* `status`, `mounted`, `warm` (the queries this server process has begun)
and `orphan` (a query it still runs for a client that gave up) are the server;
`CheckStatus`, `UseDatabase`, `Begin`, `Abandon` are the requests, `Classify` the
words looked for at executor.go 461-485. Restarting takes mount and caches away.

*Benchmark.* `pc` says where `runBenchmark` (`open`, `query`, `check`, `post`,
`summary`) or `restartServer` (`command`, `poll`, `probe`, `restore`) is; `i`,
`run`, `results` are its loop variables, `timer` the 60 s channel, `resume` which
of the two calls of `restartServer` is running. `results` keeps for each run how
it found the server; `Measured` and `errors` are the runs of a query that gave a
time and those that did not, `Kept` those whose times are averaged: where the
code sorts the times and drops the first and the last, `Kept` leaves out a
`Fastest` and a `Slowest` run. `restarted` and `restored` are auxiliary: whether the latest
restart command and the `\c` after it did what they are for.

| Action | Code |
|---|---|
| `Open`, `BeginQuery`, `EndBenchmark` | executor.go 369-438, 594-600 |
| `SendQuery`, `Unreachable`, `RunSucceeds`, `Refused`, `Garbled`, `Panic`, `Broken`, `TimesOut` | executor.go 454-535 with client.go 133-165 |
| `Summarise` | executor.go 537-592 |
| `CommandEnds`, `Tick`, `ProbeFails`, `ProbeSucceeds`, `Restore`, `Expire`, `GiveUp` | executor.go 602-635 |
| `Crashes`, `Boots`, `OrphanEnds` | the server |

*Session.* One action per command that changes something; a refused command and
`\validate` change nothing and are no step. A target of `\connect` is the sequence
of its pieces between colons. `disk` maps each directory to what it holds of a
store: `empty` (nothing), `partial` or `loaded`. A directory is the sequence of
its elements from the root of the disk, and a name or a path is what the user
gives, split at its slashes (`NamePath`, `TargetPath`), with `.`, `..` and nothing
among its elements: `Cleaned` is `filepath.Clean`, `Place` is
`filepath.Join(LocalRoot, name)`. `Made` is MkdirAll, with the directories above;
RocksDB makes the last one only. `RemoveAll` takes everything below, and where it
fails it leaves any part of it; `RemoveFile` is `\drop` of a name that is a file of
the store above. Symbolic links are left out. `command` is auxiliary: the latest
`\create`, `\drop` or `\i`, with the name it was about.

*CommandLine.* A character is one of the five the code looks at (blank, the two
quotes, backslash, semicolon) or a piece of text without them. `NextCommand` is
the split of main.go 27-35, then one action per branch of the loop of parseArgs
(executor.go 848-885); `OptionsOf` are the option loops, `Refused` the commands
that end in a usage or an error message for their words alone. After `\q` no text
is read, so it is not among the names. `meant` is auxiliary: the commands of which
the text is the quoted form.

*Encoding.* Each row put adds its bytes and, next to them, what they stand for:
`cache` and `nodes`, `pending` and `blobs`, `fat` and `batch`, `keys` and
`entries`. `Base` stands for 256, so that length fields overflow and carry at
small sizes; `order` is the order in which Go walks a map, which is arbitrary.
`MakeEdgeID` is kept on the lowest `Width` bits of its state (nothing passes from
higher bits to lower ones); the exclusive or and the decimal form of a number are
the constants `BitXor` and `FormatUint`, of which `HashAssumption` says only that
the one can be undone and that the other tells numbers apart. Texts are ASCII: a
byte is also a UTF-16 unit, and lower case has the length of the original; the NUL
that separates the parts of a key is one of them, and a name may be empty. The
loops over parts (`Joined`, `Total`, `Mixed`, `Texts`) are recursive functions on
`0..N`. `MaxRowBytes` is not in the code: it bounds what one row encodes to, and
with `FitsAssumption` says that no length is cut. A line of a validated file has
less than 64 KB, so its cells fit 16 bits and its row 32. The reader is the server,
external, and follows the comments node.go:9 and edge.go:10. TLC evaluates the
exclusive or with the module Bitwise.

*GraphLoad.* `IngestRefinement` maps the lines not yet scanned to `todo`, the
write batch to `held`, what a reader sees to `visible` and the table files to
`safe`, for the records of nodes and edges.

*Data that is abstracted in `Ingest`.* Byte sizes are drawn from `RecordBytes` and
`BlobBytes`: any mixture of full and non-full batches is explored, and it does
not matter which row had which size. `MakeEdgeID` is an arbitrary function
`HashID` of source, label and target; TLC's instance has collisions (`Encoding`
models the function itself). `Norm` is
an arbitrary function, so two spellings can share an entry. Encoded values are
records of what they contain; `Encoding` is about their bytes.

*Faults of `Ingest`.* `open` (the store does not open), `read` (a read fails at a line
boundary, or within a line: `Cuts` gives the texts that may be left of it, with
`Prefixes` for a cut token; an empty last cell is parsed like a missing one, so
it is not listed separately), `write` (a batch write fails: nothing of it is
written), `save`, `close` (some families are not flushed on Close), `crash` (at
any step: memtables are gone).

*Faults of the server and the benchmark.* `crash` (at any step), `slow` (a check
or a query times out), `use` (the server refuses a database), `lost` (the answer
to `\c` is lost), `garbled` (time or memory in an answer is no number), `nometa`
(an answer without metadata), `restart` (the restart command fails), `files` (a
results file cannot be made).

*Faults of the disk, in `Session`.* `create` (MkdirAll stops at an element), `remove`
(RemoveAll stops half-way).

## 3. What TLC checks

| Run | Question | Result |
|---|---|---|
| `validator` | Is the verdict the declarative one, and does it come? `TypeOK`, `ValidIsSound`, `InvalidIsJustified`, `Terminates` | holds |
| `ingest_faults` | One ingestion, every fault at every step: `TypeOK`, `CacheAgrees`, `EveryEdgeHasBlob`, `MetadataExact`, `ReferentialIntegrity`, `MetadataAfterData` | holds |
| `ingest_retry` | Two ingestions, failed, crashed or half-closed before: `IndexesConsistent`, `SuccessStoresAll`, `MetadataExact`, `LabelIndexComplete`; do they implement `GraphLoad`? `LoadSpec` | holds |
| `ingest_clean` | No faults, every kind of file: `CountsMatchStore`, `LabelIndexComplete`, `CleanIngestSucceeds` | holds |
| `encoding` | Do the bytes say what they stand for? `TypeOK`, `NodesReadable`, `FatBatchReadable`, `IndexKeysDistinct`, `OneCharacterTells` | holds |
| `command_line` | Does what is meant arrive? `TypeOK`, `CommandsArrive`, `OptionsInAnyOrder` | holds |
| `session` | Do prompt and server agree? `TypeOK`, `PromptTellsServer` | holds |
| `databases` | Which directories may a command touch, whatever names and roots are given? `DatabasesSurvive` | holds |
| `benchmark` | What is measured, reported, and does it end? `TypeOK`, `MeasuredAsMeant`, `ReportSpec`, `BenchmarkEnds` | holds |
| `claim_intact` | "Validate PGDF syntax and referential integrity before ingestion" (README.md:157): `ValidatedLoadIsIntact` | violated |
| `claim_durable` | "Ingestion completed successfully." (executor.go:307), with crashes and with closes that fail to flush: `SuccessIsDurable` | violated |
| `claim_cold` | "Restart the server before each query to measure performance without cache" (README.md:174), with restart commands that fail: `ColdMeasuresCold` | violated |

The conditions in the properties say where they stop being true in the code.
`ReferentialIntegrity` asks that the two readers see the same headers, that every
node row has a label and that no read failed within a line: without the second it is
`ValidatedLoadIsIntact`, which is violated. `IndexesConsistent` ends when a memtable
is lost, because a crash keeps any subset of the families. `LabelIndexComplete`
counts blobs after a first ingestion only: ingesting the same edges again duplicates
them. `CountsMatchStore`, too, speaks of a first ingestion only. `SuccessStoresAll`
asks for an orderly close: without it it is `SuccessIsDurable`, which a crash after
the message violates, and a close that fails to flush does too. `LoadSpec` leaves
out the fault `read`: a read that fails within a line stores a row no file holds.
`MeasuredAsMeant` says of cold runs only what a restart command that worked gives,
and of the database only while no `\c` after a restart has failed: both failures are
mere warnings in the code. `ColdMeasuresCold` is without these conditions, and
violated in two ways: where the command fails, and by the second run of a query
where it works. In a benchmark that is not cold a query may meet one that was given
up. `PromptTellsServer` leaves out `lost`: when the answer to `\c` is lost, the
server has switched and the session has not. `DatabasesSurvive` says where a `\drop`
or an `\i` may reach: anywhere, if its name climbs with `..`; else in the root,
which `.` names; and if the name is a single element, the directory of that name and
all below it, which may be another root. `IndexKeysDistinct` is about entries that
do not hold the separator: a NUL byte in a cell, which neither reader refuses, can
give two entries one key, and does in the run. `CommandsArrive` drops empty words,
as parseArgs does, and its texts have no semicolon in a word.

### Seen while modelling, without a run

The models below contain these, and the properties above are stated around them.

* "A header is a line where at least one field starts with @" (validator.go:181),
  but the ingestor asks that the line starts with `@` (ingestor.go:66, 176).
* `\d` displays "the node/edge counts" and "connection schemas" (README.md:162),
  but each ingestion starts a new count (executor.go:287), so that the counts are
  those of the latest files and not of the store, and every connection is counted
  between two empty labels (ingestor.go:275).
* "CRITICAL ERROR: Server crashed or is unreachable." (executor.go:494) is also
  what any message with the word memory or heap gives (executor.go:470).
* "Delete the selected database directory from disk" (README.md:156): `\drop .`
  deletes the root with every database in it, `\drop ..` what the root is in
  (executor.go:328).
* Loading the same edges again leaves two blobs for each in the label index
  (ingestor.go:239), and another value of a property an index entry of the old one.
* A file of queries is to be executed "sequentially" (README.md:172), but after a
  client timeout (executor.go:499) the server may still run the last one, and a
  query line of 64 KB ends the list without an error (executor.go:378).
* "Benchmark complete. Results saved." (executor.go:598) is printed whatever
  WriteString returned (executor.go:592); the model takes writes to succeed.
* "Connect to a server with \connect <host:port>" (executor.go:49): a host with a
  dot in it is taken for a path (executor.go:156), and any other host is dropped.
* `\validate` is listed under "Only available in Local Mode" (README.md:153) and
  asks for no mode (executor.go:213).
* `\create`: "Create a new empty database directory on disk" (README.md:155), but
  a directory that exists keeps its contents (executor.go:316).
* `--restart-cmd "<cmd>"` takes a shell command (README.md:175), but the text of
  `-e` is split at semicolons before quotes are looked at (main.go:28).
* An empty quoted argument is dropped (executor.go:868, 880), so `--restart-cmd ""`
  takes the next word, past the check of executor.go:145.
* `[u16 idLen]` (edge.go:10): the length is cut to 16 bits (edge.go:22), so an id
  of 64 KB, which only `--yolo` lets through, spoils its record.

### Bounds, and why they are enough

* **Files.** The validator runs over all files of at most `MaxLines` lines (3) from a pool with one line of each kind the code
  distinguishes. Three lines are a header, a row and a second row, or two
  headers and a row: every rule relates at most two rows and a header. The
  proofs remove the bound. The ingestion runs use chosen files that hold a row
  of each kind: repeated and overwritten ids, rows before a header, short rows,
  a second header, colliding hashes, reversed and defaulted directions, missing
  labels, lines over the limits.
* **Batches.** `MaxBatchSizeBytes` is 4 and a record has 1, 2 or 4 bytes: a batch
  holds one record, several, or is left partly filled at the end.
  `TargetMegaBlobSizeBytes` is 16, a fat batch has a header of 4 and a blob 4 and
  1, 2 or 8 bytes: in `ingest_clean` one blob of 8 fills a fat batch (4+4+8), two
  of 2 do in `ingest_faults`, two of 1 stay pending to the end in `ingest_retry`.
* **`MaxIngests`** is 1 or 2. Two suffice for what depends on earlier runs: the
  second meets a store that any prefix of the first has left.
* A cut token is explored for one token, which is an endpoint and an id.
* **Bytes.** `Base` is 4: a u16 counts to 15 and a u32 to 255, a text of four
  bytes needs two digits, values and blobs need two or three, and rows without
  properties, absent endpoints, an empty name, a NUL within an id, a name or a value
  and keys of different lengths all occur. `MaxPuts` is 3: two
  nodes and an edge, or three edges of one fat batch. `Width` is 4, with the low
  bits of the real constants; losing a bit would show in any width.
* **Queries.** Two queries with a comment between them, a list without a query and
  one cut short: what happens across queries relates two of them. Times are 1 and,
  for one query, 5, so that dropping the extremes matters.
* **Sessions.** For the server: three names, of which it knows two, two ports and one
  root. For the disk: a root and another within it, and the names `a`, `.`, `..` and
  `../b`, one of each kind: an element, one that stays, one that climbs, and one that
  climbs and goes down elsewhere. Sessions of any length. `databases` has a VIEW: states
  that differ only in the latest command, in the results toggle or in the server are
  one, since no command of these runs depends on them, and an action property is
  checked on every step that TLC generates, not on states.
* **Command lines.** Batches of one and two commands, every order of every set of
  options, words with each special character alone and next to others, both
  quotes, values that look like options, and texts that mean nothing (open
  quotes, a backslash at the end).
* No symmetry is used. Deadlock checking is off where the program stops: after
  the verdict, the last ingestion, the last command, the last put or the end of a
  benchmark. A session never stops.

### Fairness

`FairSpec` of `Validator` and of `Ingest` assume weak fairness of `Process`, the
loops and what follows them: they run on the caller's goroutine, start no other
and wait for nobody, so they go on until they return. Users, background flushes,
crashes and, in the validator, failing reads are under no obligation.

`FairSpec` of `Benchmark` assumes weak fairness of `Process`, as above: every
request has a timeout. It assumes weak fairness of `Expire` because time passes,
and strong fairness of `GiveUp`: when tick and timeout are both ready, Go's select
picks one at random, so a timeout that is ready again and again is taken. That
the restart command returns is an assumption: `CombinedOutput` has no timeout
(executor.go:605). The server is under no obligation: it may never boot.

## 4. What is proved

All theorems hold for every value of the constants that satisfies the named
assumptions (`TokensAssumption`, `FilesAssumption`, `IngestAssumption`,
`ClientAssumption`, `SessionAssumption`, `BenchmarkAssumption`,
`EncodingAssumption`, `HashAssumption`, `FitsAssumption`, `CommandLineAssumption`): any files,
thresholds, sizes, hash function and faults, any number of ingestions, sessions of
any length, any list of queries and any times, any byte base and any texts, any commands
in a batch with any words without a semicolon. TLC evaluates the assumptions in every run. They give the constants their types (a file is a sequence of non-empty
lines, thresholds and record sizes are positive, times are natural numbers) and
say which words the code looks for in an error and which tokens start with `@`.

### The validator (`ValidatorProofs`)

* `VerdictSound`, `VerdictComplete`: the verdict is that of `ValidFiles`. The
  properties speak of finished runs, so the inductive invariant `VerdictInv` says
  what each loop has established at line `pos`: the header in force is the latest
  header line before it, the id maps hold exactly the ids of the rows before it,
  and all lines before it are valid (`NodeLine`, `EdgeLine`: the loop's condition
  on a line is the rule for its position; `NodesAdvance`, `EdgesAdvance`: one more
  valid line).
* `ValidatorTypes`: type correctness.

### The ingestion

* `IndexesAlwaysConsistent` (`IngestProofs`, as all down to
  `MetadataAlwaysAfterData`): `IndexInv` adds that the batch is itself consistent.
  The heart is `LayerConsistent`: laying a consistent bundle over a consistent
  store is consistent, because keys are only ever added and a record's entries
  come with it; and `WriteView`, `FlushView`: writing changes the view by the
  batch, flushing not at all.
* `CacheAlwaysAgrees`: `CacheInv` relates the cache to the batch laid over the
  store, since rows reach the cache before they are written; no batch holds a
  node once the edges are read, so the store alone decides.
* `TypesAlwaysOK`: type correctness.
* `EveryEdgeAlwaysHasBlob`: `FlowInv` says what each phase means
  for the two buffers and the outcome. `BlobInv` says that every edge written or
  held has a blob among the fat batches written or the lists pending, and that
  the keys of fat batches are older than the next uuid: without it a fat batch
  could hide another.
* `SuccessAlwaysStoresAll`: `RowsInv` follows the scanner. At line `pos` the
  batch over the store holds the latest row of each id before `pos`, parsed with
  the header in force there; after the final flushes the store does, and after
  an orderly close the table files. A read cut short is outside of it, since
  from there on the run can only end in an error.
* `MetadataAlwaysAfterData`: an action property, from `FlowInv`: the buffers are
  empty in every phase in which the metadata is written.
* `EdgesAlwaysAttached` (`IntegrityProofs`): `RefInv` says that no edge of a first,
  validated ingestion dangles, in the store or in the batch over it. The step of
  the edges loop takes the rules of `ValidFiles` to the ingestor's rows
  (`AcceptedEdgeIsValid`), which is where the readers must agree, and finds both
  endpoints among the rows that `RowsInv` says are stored.
* `MetadataAlwaysExact`: `MetaInv` says that the counters are those of the rows
  before the scanner. `CountGrows` is the step: one more row adds one to the
  total, one to its label's count and its properties to the schema.
* `CountsAlwaysMatch`: `StoredInv` adds the converse of `RowsInv`, that nothing
  but rows is stored. With distinct ids, which the validator guarantees
  (`DistinctIds`), rows and records are as many (`CountDistinct`).
* `LabelIndexAlwaysComplete`: `LabelInv` says that each edge row before the
  scanner has its blob, with the copies of its endpoints, in a fat batch or a
  pending list of its label, and that in a first ingestion there are as many
  blobs as edge rows. `CachedInv` says what the copies are: the cache holds the
  latest node row of each id. `SlotsAdd`, `SlotsOfLists` and `ListsWritten` count
  blobs while they move from lists to batches.
* `IngestImplementsGraphLoad`, `WithoutReadFaults` (`IngestProofs`): every
  behaviour of `Ingest` in which no read fails within a line is one of
  `GraphLoad`, under the mapping of `IngestRefinement`. The hypothesis is
  `[]~readErr`, and follows where `"read"` is no fault, as in the run. There is a
  lemma for each action that says which step of `GraphLoad` it is. What the
  mapping turns on is that the lines left are those from `pos` on
  (`LinesFrom`, `LinesLeft`) and that records of layers are layers of records
  (`RecordsOfLayer`).

### The bytes (`EncodingProofs`)

Round trips are inductions over the bytes and over the lists they are made of.
They are done without an induction rule: `Climb` says, from the smallest
counterexample, that a set of numbers that holds 0 and with each number the next
holds all of `0..N`; `Loop` builds from it a function with one value per turn of a
loop, and `JoinedParts`, `TotalSizes`, `TextsTurns`, `MixedTurns` apply it to the
recursive functions of the model.

* `EncodingTypes`: no encoder panics. The buffer is sized by one loop over the map
  and filled by another, in the same order (`PropsLength`, `JoinedLengths`,
  `Exact`).
* `NodesAlwaysReadable`, `FatBatchAlwaysReadable`: `IInv` says of every cached
  value, every pending blob and the latest fat batch that reading it gives what it
  stands for, and bounds their lengths, since a value is read back only if its
  length fits the field of the next layer. `ReadU16` and `ReadU32` read back a
  number that fits (`TwoDigits`), `ReadField` a text, `ReadFields` texts in a row,
  `ReadProps` a map in whatever order it was walked, `NodeValue`, `EdgeValue`,
  `MegaBlob` and `FatBatch` a layer each.
* `IndexKeysAlwaysDistinct`: texts may hold any bytes, the separator among them, and
  names of properties may be empty. Where a text without it is followed by the
  separator, a sequence of bytes splits in one way only (`Split`, `SameSplit`), from
  either end. So a pair or a triple whose parts hold none is told from any other
  (`PairsApart`, `TriplesApart`), and of triples whose ends hold none the middle may
  hold anything (`EndsApart`). What remains is a NUL in an id or the name of a
  property, which neither reader refuses: such an entry may share its key.
* `OneCharacterAlwaysTells`: multiplying by an odd number modulo a power of 2
  loses nothing (`NoZeroProduct` takes the factors 2 out one at a time), nor does
  an exclusive or; so states that differ stay different while the rest of the
  text is the same (`OneCharacter`). It holds for any odd multiplier and any
  seed; the multiplier of the code is odd.

`FitsAssumption` is what the `validate` step gives; with `--yolo` a longer line is
possible, and the record is then spoilt (see section 3).

### Session and benchmark

* `PromptIsTrue` (`SessionProofs`), for any sequence of commands and any targets,
  names and databases. `SessionInv` adds to the types `Selection`: whatever is
  selected in a remote session was mounted by the server it is connected to, or
  has been lost in a restart. It is needed because `\c` selects in any mode, so
  the prompt is only true if every way into remote mode clears the selection.
* `DatabasesAlwaysSurvive`: an action property, for any names and roots, given as
  sequences of any elements, `.`, `..` and nothing among them. Cleaning is a
  recursive function over these: without `..` a cleaned path only grows from the
  root it is joined to (`CleanedLeads`, `JoinFacts`), and a single element adds
  itself. `DropLoses` and `IngestTouches` are about the two commands that can lose
  something, with removals that stop half-way (`RemoveAllLeaves`); that `\drop` takes
  no more than that does not mean that it takes little: `.` is the root.
* `SessionTypes`: type correctness of `Session`.
* `BenchmarkTypes` (`BenchmarkProofs`): with `RunsInv`, which bounds the loop
  counters: a query has at most one result for each run that ended.
* `AlwaysMeasuredAsMeant`: `MeasuredInv` adds what a restart that worked gives
  until its runs are over: the server has begun the query at hand and no other
  (`FreshInv`), and has the database or is down (`MountedInv`), although it may
  crash at any moment, because nothing but `restartServer` boots it.
* `BenchmarkImplementsReport`: every behaviour of `Benchmark` is one of `Report`.
  `ReportInv` says that the results file has a line for each query before the one
  at hand. The step that matters is the summary: a fastest and a slowest run
  exist (`RunsCompared`), leaving them out keeps one fewer and one fewer again
  (`RunsCounted`), and the average of the rest lies within their extremes
  (`KeptEnclosed`, `SumEnclosed`), rounding included.

### The command line (`CommandLineProofs`)

* `CommandLineTypes`: parseArgs stays within its text, for any text whatever.
* `CommandsAlwaysArrive`: the text is written by one loop, of quotes, escapes,
  blanks and semicolons, and read by two others, which keep no record of how it was
  written. `IInv` puts it back: if commands are meant, then for one of the quotes
  `Ahead` holds. Between commands, the text left is what the commands not yet done
  are written as. Within one, there are a word and a place in it such that `args` is
  what is heard of the words before, `current` the word up to that place, and what
  is left of `runes` the rest of the line, as written from that place on
  (`Position`: before the opening quote, in quotes, after them). Each action moves
  that place by one character; `UnquotedNext`, `UnopenedNext`, `InsideNext`
  and `AfterNext` say which character the writer has put there, so that the guard of
  every other action fails. `TextSplits` is the step of main: no line holds a
  semicolon and none begins or ends with a blank that was not meant, so the first
  piece, trimmed, is the first line. An empty word is the one thing lost (`KeptNext`).
* `OptionsAlwaysInAnyOrder`: an induction over the options. After some turns of the
  loop the settings are what the first `j` options say and the words left are those
  of the others (`ReadUpTo`); one turn more reads a flag (`ReadFlag`), two an option
  and its value (`ReadValue`), which is not looked at as an option. That the
  settings say what the options say in any order rests on no name being that of two
  options (`NamesApart`) and on `Complete`: no value is empty or given twice.

### Only model-checked

* **Liveness**: `Terminates`, `CleanIngestSucceeds`, `BenchmarkEnds`. It rests on fairness and on ENABLED, for which the provers have
  no rule.
* **The three claims**, which do not hold.

## 5. What is not modelled

* `\l`, `\s` and `\d`: they list databases, statistics and metadata and change
  nothing; with them `GetProperty`, the read-only open, `ListDatabases`,
  `DescribeDatabase`. What `\d` can read at all is `MetaStore`'s `Loadable`.
* All printing: tables of results, progress output, colours, usage texts.
* The raw results file, written next to the final one, and write errors of both.
* The completer (a fixed list), shell scripts, query lists, the tests.
* The mutexes of cache and metadata (one goroutine uses them), and the prompt
  library that reads typed lines.
* A file that changes between its validation and its ingestion: this amounts to
  `--yolo`, which the runs include.
* `EncodeNodeKey` and `EncodeEdgeKey`, a fixed prefix before an id in a family of
  its own. `IncEdge` joins the two labels of a connection with `|`, so labels that
  hold one could collide; the ingestor only passes empty labels, and the model
  keeps the pair.

## 6. Plan

The code that changes state is modelled, every safety property that a run checks is
a theorem, and so are both refinements. What would add most from here:

1. A file that changes between its validation and its ingestion, as an action of its
   own between the two, with the properties that then still hold.
2. The listing commands (`\l`, `\s`, `\d`), once they do more than print.
3. `\c` whose answer is lost: the prompt then names another database than the
   server has mounted, which `Session` leaves out.

## 7. Running

In this directory: `tlc -config MCIngestFaults.cfg MCIngest` and likewise for the
other configurations: `MCIngest*.cfg`, `ClaimIntact.cfg` and `ClaimDurable.cfg` go with `MCIngest`,
`ClaimCold.cfg` with `MCBenchmark`, `MCDatabases.cfg` with `MCSession`, the others with
the module of their name; `tlapm IngestProofs.tla` and likewise for the other modules whose names
end in `Proofs`. `PROJECT.json` lists runs, theorems, findings, hazards, the source lines
of every definition, and for each property a changed definition (named *Variant*
in the modules) under which it fails.
