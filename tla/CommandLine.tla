----------------------------- MODULE CommandLine -----------------------------
(***************************************************************************)
(* From the text of -e (cmd/gs-cli/main.go) to the arguments and options   *)
(* of its commands: the split at semicolons, parseArgs, one step per turn  *)
(* of its loop, and the option loops of \i, \validate and \benchmark       *)
(* (internal/repl/executor.go).                                            *)
(*                                                                         *)
(* A character of the text is one of the five that the code looks at, or a *)
(* piece of text without any of them, as "-n" or "--cold": nothing tells   *)
(* its characters apart.                                                   *)
(***************************************************************************)
EXTENDS Naturals, Sequences, FiniteSetsExt, Functions

CONSTANTS
  Plain,      \* the pieces without a special character
  Meta,       \* those that begin with a backslash, outside quotes; not "\q",
              \* after which no text is read
  Intended,   \* the lists of commands a user may mean, see Words
  Quotings,   \* the quotes a user may put around a word
  Broken      \* texts a user may give that mean nothing, as an open quote

Blank == " "
Quotes == {"'", "\""}
Special == {Blank, "\\", ";"} \cup Quotes
Runes == Plain \cup Meta \cup Special

\* The last n parts, put together.
Ending(parts, n) ==
  LET joined[k \in 0..Len(parts)] ==
        IF k = 0 THEN <<>> ELSE parts[Len(parts) + 1 - k] \o joined[k - 1]
  IN  joined[n]

Joined(parts) == Ending(parts, Len(parts))

\* A command that a user means: its name, its file, and options in some order,
\* each with its value if it has one.  No word holds a semicolon, at which the
\* text is split before quotes are looked at.
Word == Seq((Plain \cup Special) \ {";"})
Command == [name : {<<m>> : m \in Meta}, file : Seq(Word), options : Seq(Seq(Word))]
Words(command) == <<command.name>> \o command.file \o Joined(command.options)

ASSUME CommandLineAssumption ==
  /\ (Plain \cup Meta) \cap Special = {} /\ Plain \cap Meta = {} /\ "\\q" \notin Meta
  /\ Quotings \subseteq Quotes
  /\ Broken \subseteq Seq(Runes)
  /\ Intended \subseteq Seq(Command)

VARIABLES
  meant,     \* the commands the user means
  batch,     \* what is left of the text
  runes,     \* the command that is being split, <<>> between two of them
  i, args, current, quote,   \* quote is Blank outside quotes
  done       \* the commands split so far

parser == <<runes, i, args, current, quote>>
vars == <<meant, batch, parser, done>>

-----------------------------------------------------------------------------
(* How a user writes what is meant, as README.md does: a word that holds a *)
(* special character, or none at all, goes into quotes.                    *)

Escapes(word, q) ==
  [n \in DOMAIN word |-> IF word[n] \in {q, "\\"} THEN <<"\\", word[n]>> ELSE <<word[n]>>]

IsPlain(word) == word # <<>> /\ Range(word) \cap Special = {}

Written(word, q) ==
  IF IsPlain(word) THEN word ELSE <<q>> \o (Joined(Escapes(word, q)) \o <<q>>)

Spaced(words, q) ==
  [n \in DOMAIN words |->
     Written(words[n], q) \o (IF n = Len(words) THEN <<>> ELSE <<Blank>>)]

Line(command, q) == Joined(Spaced(Words(command), q))

Parted(commands, q) ==
  [n \in DOMAIN commands |->
     (IF n = 1 THEN <<>> ELSE <<Blank>>)
       \o (Line(commands[n], q) \o (IF n = Len(commands) THEN <<>> ELSE <<";">>))]

Text(commands, q) == Joined(Parted(commands, q))

-----------------------------------------------------------------------------
(* The options.                                                            *)

Nothing == "nothing"
NoOptions ==
  [fast |-> FALSE, cold |-> FALSE, yolo |-> FALSE, pending |-> Nothing,
   cmd |-> <<>>, name |-> <<>>, nodes |-> <<>>, edges |-> <<>>]

FlagOf(command, arg) ==
  CASE command = <<"\\benchmark">> /\ arg \in {<<"--fast">>, <<"-fast">>} -> "fast"
    [] command = <<"\\benchmark">> /\ arg \in {<<"--cold">>, <<"-cold">>} -> "cold"
    [] command = <<"\\i">> /\ arg \in {<<"--yolo">>, <<"-yolo">>} -> "yolo"
    [] OTHER -> Nothing

ValueOf(command, arg) ==
  CASE command = <<"\\benchmark">> /\ arg \in {<<"--restart-cmd">>, <<"-restart-cmd">>} -> "cmd"
    [] command = <<"\\benchmark">> /\ arg \in {<<"--name">>, <<"-name">>} -> "name"
    [] command # <<"\\benchmark">> /\ arg = <<"-n">> -> "nodes"
    [] command # <<"\\benchmark">> /\ arg = <<"-e">> -> "edges"
    [] OTHER -> Nothing

\* Variant: the value of an option is looked at again (no i++).
ReadAgain(command, options, arg) ==
  LET o == IF options.pending = Nothing THEN options
           ELSE [options EXCEPT ![options.pending] = arg, !.pending = Nothing]
  IN  IF FlagOf(command, arg) # Nothing THEN [o EXCEPT ![FlagOf(command, arg)] = TRUE]
      ELSE [o EXCEPT !.pending = ValueOf(command, arg)]

\* An option without its value, the last word, is passed over, as is any other
\* word.
ReadOption(command, options, arg) ==
  IF options.pending # Nothing
  THEN [options EXCEPT ![options.pending] = arg, !.pending = Nothing]
  ELSE IF FlagOf(command, arg) # Nothing
  THEN [options EXCEPT ![FlagOf(command, arg)] = TRUE]
  ELSE [options EXCEPT !.pending = ValueOf(command, arg)]

\* The loop over words, for a command of that name.
OptionsIn(command, words) ==
  LET read[n \in 0..Len(words)] ==
        IF n = 0 THEN NoOptions ELSE ReadOption(command, read[n - 1], words[n])
  IN  [read[Len(words)] EXCEPT !.pending = Nothing]

OptionsOf(words) ==
  LET first == IF words[1] = <<"\\benchmark">> THEN 3 ELSE 2
  IN  OptionsIn(words[1], SubSeq(words, first, Len(words)))

\* Names of commands that need a word after them, and of those that do not.
Naming == {<<"\\connect">>, <<"\\c">>, <<"\\create">>, <<"\\drop">>}
Bare == {<<"\\q">>, <<"\\l">>, <<"\\s">>, <<"\\d">>, <<"\\results">>}

\* A usage or an error message instead of the command, for its words alone: an
\* unknown name, or something missing.
Refused(words) ==
  LET options == OptionsOf(words)
  IN  CASE words[1] = <<"\\benchmark">> ->
             Len(words) < 2 \/ (options.cold /\ options.cmd = <<>>)
        [] words[1] \in {<<"\\i">>, <<"\\validate">>} ->
             options.nodes = <<>> \/ options.edges = <<>>
        [] words[1] \in Naming -> Len(words) < 2
        [] OTHER -> words[1] \notin Bare

-----------------------------------------------------------------------------

Init ==
  /\ \/ \E commands \in Intended, q \in Quotings :
          meant = commands /\ batch = Text(commands, q)
     \/ meant = <<>> /\ batch \in Broken
  /\ runes = <<>> /\ i = 1 /\ args = <<>> /\ current = <<>> /\ quote = Blank
  /\ done = <<>>

Trimmed(text) ==
  LET solid == {n \in DOMAIN text : text[n] # Blank}
  IN  IF solid = {} THEN <<>> ELSE SubSeq(text, Min(solid), Max(solid))

\* The loop of main: the text up to the next semicolon.  What does not begin
\* with a backslash is a query, as it stands.
NextCommand ==
  LET end == Min({n \in DOMAIN batch : batch[n] = ";"} \cup {Len(batch) + 1})
      piece == Trimmed(SubSeq(batch, 1, end - 1))
  IN  /\ runes = <<>> /\ batch # <<>>
      /\ batch' = SubSeq(batch, end + 1, Len(batch))
      /\ IF piece = <<>> THEN UNCHANGED <<runes, done>>
         ELSE IF piece[1] \in Meta \cup {"\\"} THEN runes' = piece /\ UNCHANGED done
         ELSE done' = Append(done, [query |-> piece]) /\ UNCHANGED runes
      /\ UNCHANGED <<meant, i, args, current, quote>>

Reading == i <= Len(runes)
Rest == <<meant, batch, runes, done>>

CloseQuote ==
  /\ Reading /\ quote # Blank /\ runes[i] = quote
  /\ quote' = Blank /\ i' = i + 1
  /\ UNCHANGED <<args, current, Rest>>

\* Variant: it is there, whatever comes before it.
EscapeKept ==
  /\ Reading /\ quote # Blank /\ runes[i] = "\\" /\ i + 1 <= Len(runes)
  /\ current' = current \o <<"\\", runes[i + 1]>> /\ i' = i + 2
  /\ UNCHANGED <<args, quote, Rest>>

\* Variant: no look at the end of the text.
EscapeAtEnd ==
  /\ Reading /\ quote # Blank /\ runes[i] = "\\"
  /\ current' = IF i < Len(runes) THEN Append(current, runes[i + 1]) ELSE current
  /\ i' = i + 2
  /\ UNCHANGED <<args, quote, Rest>>

Escape ==
  /\ Reading /\ quote # Blank /\ runes[i] = "\\" /\ i + 1 <= Len(runes)
  /\ current' = Append(current, runes[i + 1]) /\ i' = i + 2
  /\ UNCHANGED <<args, quote, Rest>>

QuotedRune ==
  /\ Reading /\ quote # Blank /\ runes[i] # quote
  /\ runes[i] = "\\" => i = Len(runes)
  /\ current' = Append(current, runes[i]) /\ i' = i + 1
  /\ UNCHANGED <<args, quote, Rest>>

\* An empty word is no word, quoted or not.
Flushed == IF current = <<>> THEN args ELSE Append(args, current)

EndWord ==
  /\ Reading /\ quote = Blank /\ runes[i] = Blank
  /\ args' = Flushed /\ current' = <<>> /\ i' = i + 1
  /\ UNCHANGED <<quote, Rest>>

OpenQuote ==
  /\ Reading /\ quote = Blank /\ runes[i] \in Quotes
  /\ quote' = runes[i] /\ i' = i + 1
  /\ UNCHANGED <<args, current, Rest>>

PlainRune ==
  /\ Reading /\ quote = Blank /\ runes[i] \notin Quotes \cup {Blank}
  /\ current' = Append(current, runes[i]) /\ i' = i + 1
  /\ UNCHANGED <<args, quote, Rest>>

\* parseArgs returns and its command runs.  A quote may still be open.
EndCommand ==
  /\ runes # <<>> /\ ~Reading
  /\ done' = Append(done, [args |-> Flushed, options |-> OptionsOf(Flushed),
                           refused |-> Refused(Flushed)])
  /\ runes' = <<>> /\ i' = 1 /\ args' = <<>> /\ current' = <<>> /\ quote' = Blank
  /\ UNCHANGED <<meant, batch>>

Next ==
  \/ NextCommand \/ CloseQuote \/ Escape \/ QuotedRune
  \/ EndWord \/ OpenQuote \/ PlainRune \/ EndCommand

Spec == Init /\ [][Next]_vars

-----------------------------------------------------------------------------
(* Properties.                                                             *)

\* The parser stays within its text: parseArgs never reads past the end.
TypeOK ==
  /\ batch \in Seq(Runes) /\ runes \in Seq(Runes) /\ current \in Seq(Runes)
  /\ args \in Seq(Seq(Runes) \ {<<>>})
  /\ i \in 1..(Len(runes) + 1)
  /\ quote \in Quotes \cup {Blank}

\* The words that are not empty: parseArgs drops those that are.
Heard(words) ==
  Joined([n \in DOMAIN words |-> IF words[n] = <<>> THEN <<>> ELSE <<words[n]>>])

\* parseArgs undoes quoting: every command of the batch, whichever quote its
\* user took, whatever blanks, quotes and backslashes its words hold, runs with
\* those words, and no command runs that was not meant.
CommandsArrive ==
  meant # <<>> =>
    /\ \A n \in DOMAIN done :
         n \in DOMAIN meant /\ "args" \in DOMAIN done[n]
         /\ done[n].args = Heard(Words(meant[n]))
    /\ batch = <<>> /\ runes = <<>> => Len(done) = Len(meant)

\* What the first options of a command say, how many there are, in whatever
\* order they stand and whatever their values look like.
Said(command, many) ==
  LET has(names) == \E n \in 1..many : command.options[n][1] \in names
      value(names) ==
        IF has(names)
        THEN command.options[CHOOSE n \in 1..many : command.options[n][1] \in names][2]
        ELSE <<>>
      bench == command.name = <<"\\benchmark">>
  IN  [fast |-> bench /\ has({<<"--fast">>, <<"-fast">>}),
       cold |-> bench /\ has({<<"--cold">>, <<"-cold">>}),
       yolo |-> ~bench /\ has({<<"--yolo">>, <<"-yolo">>}),
       pending |-> Nothing,
       cmd |-> value({<<"--restart-cmd">>, <<"-restart-cmd">>}),
       name |-> value({<<"--name">>, <<"-name">>}),
       nodes |-> value({<<"-n">>}), edges |-> value({<<"-e">>})]

\* The options are some of the command's, none of their values is empty or given
\* twice, and a benchmark has its file.
Complete(command) ==
  /\ Len(command.file) = (IF command.name = <<"\\benchmark">> THEN 1 ELSE 0)
  /\ \A n \in DOMAIN command.file : command.file[n] # <<>>
  /\ \A n \in DOMAIN command.options :
       LET o == command.options[n]
           option(m) == ValueOf(command.name, command.options[m][1])
       IN  \/ Len(o) = 1 /\ FlagOf(command.name, o[1]) # Nothing
           \/ /\ Len(o) = 2 /\ o[2] # <<>> /\ option(n) # Nothing
              /\ \A m \in DOMAIN command.options \ {n} : option(m) # option(n)

\* A command runs with the options that its user gave.
OptionsInAnyOrder ==
  \A n \in DOMAIN done \cap DOMAIN meant :
    Complete(meant[n]) => done[n].options = Said(meant[n], Len(meant[n].options))
=============================================================================
