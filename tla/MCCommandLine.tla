---------------------------- MODULE MCCommandLine ----------------------------
(***************************************************************************)
(* Two commands in a batch; words with each special character, alone and   *)
(* next to others; options in every order, with values that look like      *)
(* options.                                                                *)
(***************************************************************************)
EXTENDS CommandLine, SequencesExt

MCMeta == {"\\benchmark", "\\i", "\\validate", "\\drop", "\\l"}
MCPlain == {"a", "b", "-n", "-e", "-yolo", "--yolo", "--fast", "-cold", "--restart-cmd", "-name"}

Values == {<<"a">>, <<"a", " ", "b">>, <<"\\">>, <<"'", "\"">>, <<"\\", "a", "\\">>}

Orders(name, files, optionSets) ==
  {[name |-> name, file |-> files, options |-> o] :
     o \in UNION {SetToAllKPermutations(options) : options \in optionSets}}

Benchmarks(values) ==
  Orders(<<"\\benchmark">>, <<<<"a">>>>,
    {{<<<<"--fast">>>>, <<<<"-cold">>>>, <<<<"--restart-cmd">>, c>>, <<<<"-name">>, n>>} :
       c \in values, n \in {<<"b">>, <<"--fast">>}})

Loads(values) ==
  LET files == {{<<<<"-n">>, n>>, <<<<"-e">>, e>>} : n \in values, e \in {<<"b">>, <<"-n">>}}
  IN  Orders(<<"\\validate">>, <<>>, files)
      \cup Orders(<<"\\i">>, <<>>, {f \cup {<<<<"--yolo">>>>} : f \in files})

MCIntended ==
  LET bench == {c \in Benchmarks(Values) : Len(c.options) = 4}
      short == {c \in Benchmarks({<<"a", " ", "b">>}) : Len(c.options) < 2}
      loads == {c \in Loads(Values) : Len(c.options) >= 2}
  IN  {<<c>> : c \in bench \cup short \cup loads}
      \cup {<<c, d>> : c \in short, d \in {l \in loads : l.name = <<"\\i">> /\ Len(l.options) = 3}}

MCQuotings == Quotes

MCBroken ==
  {<<"a", " ", "b">>, <<" ", ";", " ">>, <<"\\i", " ", "\"", "a", "\\">>,
   <<"\\i", " ", "-n", " ", "'", "a", " ">>, <<"\\", "a">>,
   <<"\\benchmark", " ", "a", " ", "-name">>,
   <<"\\drop", " ", ";", "\\drop", " ", "a", ";", "\\l">>}
=============================================================================
