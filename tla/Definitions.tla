---------------------------- MODULE Definitions ----------------------------
(***************************************************************************)
(* What the systemd unit says and what is read from it (service/           *)
(* definitions.go): the command line is quoted, read by systemd, and read  *)
(* back by Status.                                                         *)
(*                                                                         *)
(* A text is a sequence of pieces: the characters that mean something to   *)
(* one of the three, and runs of ordinary ones.                            *)
(***************************************************************************)
EXTENDS Naturals, Sequences

CONSTANTS
  MaxProgram,  \* bound: pieces of the path of the executable
  MaxConfig    \* bound: pieces of the path of the configuration

ASSUME TextAssumption == MaxProgram \in Nat /\ MaxConfig \in Nat

VARIABLES executable, cfgPath

Piece == {"x", "n", "%", "$", "quote", "backslash", "space", "newline", "-config", "-config="}
Texts(n) == UNION {[1 .. m -> Piece] : m \in 1 .. n}

\* What systemd may make of a piece.
Meaning == Piece \cup {"specifier", "variable"}

DefinitionInputs == executable \in Texts(MaxProgram) /\ cfgPath \in Texts(MaxConfig)
NoDefinition     == executable = <<"x">> /\ cfgPath = <<"x">>

\* The command of the service; what follows the configuration is always the same.
Arguments == <<executable, <<"-config">>, cfgPath, <<"x">>>>

\* From start on through the items; step says what each item makes of what is there.
Scan(step, start, items) ==
  LET acc[n \in 0 .. Len(items)] == IF n = 0 THEN start ELSE step[items[n]][acc[n - 1]]
  IN  acc[Len(items)]

-----------------------------------------------------------------------------
\* Mutant: the path is only quoted.
EscapeForGo(p) ==
  CASE p \in {"quote", "backslash"} -> <<"backslash", p>>
    [] p = "newline"                -> <<"backslash", "n">>
    [] OTHER                        -> <<p>>

\* quoteSystemdArgument: systemd's substitutions first, then strconv.Quote.
Escape(p) ==
  CASE p \in {"%", "$"}             -> <<p, p>>
    [] p \in {"quote", "backslash"} -> <<"backslash", p>>
    [] p = "newline"                -> <<"backslash", "n">>
    [] OTHER                        -> <<p>>

EscapeStep  == [p \in Piece |-> [out \in Seq(Piece) |-> out \o Escape(p)]]
Quote(text) == <<"quote">> \o Scan(EscapeStep, <<>>, text) \o <<"quote">>

\* renderSystemdUnit: the ExecStart line and the next.
CommandLine ==
  LET More(i) == <<"space">> \o Quote(Arguments[i])
  IN  Quote(Arguments[1]) \o More(2) \o More(3) \o More(4)
Rendered == CommandLine \o <<"newline", "x">>

\* parseSystemdExecStart: the line ends at the first newline.
ExecStart ==
  LET ends == {n \in DOMAIN Rendered : Rendered[n] = "newline"}
      end  == CHOOSE n \in ends : \A m \in ends : n <= m
  IN  SubSeq(Rendered, 1, end - 1)

-----------------------------------------------------------------------------
\* parseSystemdArguments reads quoted words with their escapes, and the bare ones of
\* older versions; systemd reads the line the same way.
ReadState == [words : Seq([text : Seq(Piece), quoted : BOOLEAN]), word : Seq(Piece),
              at : {"between", "bare", "quoted", "escape", "closed", "error"}]
Nothing   == [words |-> <<>>, word |-> <<>>, at |-> "between"]

Word(acc, isQuoted) == Append(acc.words, [text |-> acc.word, quoted |-> isQuoted])
Unescape(p)         == IF p = "n" THEN "newline" ELSE p

Read(acc, p) ==
  CASE acc.at = "between" /\ p = "space" -> acc
    [] acc.at = "between" /\ p = "quote" -> [acc EXCEPT !.at = "quoted"]
    [] acc.at = "between" /\ p \notin {"space", "quote"} -> [acc EXCEPT !.at = "bare", !.word = <<p>>]
    [] acc.at = "bare" /\ p = "space" -> [words |-> Word(acc, FALSE), word |-> <<>>, at |-> "between"]
    [] acc.at = "bare" /\ p # "space" -> [acc EXCEPT !.word = Append(@, p)]
    [] acc.at = "quoted" /\ p = "quote" -> [words |-> Word(acc, TRUE), word |-> <<>>, at |-> "closed"]
    [] acc.at = "quoted" /\ p = "backslash" -> [acc EXCEPT !.at = "escape"]
    [] acc.at = "quoted" /\ p \notin {"quote", "backslash"} -> [acc EXCEPT !.word = Append(@, p)]
    [] acc.at = "escape" /\ p \in {"n", "quote", "backslash"} ->
         [acc EXCEPT !.at = "quoted", !.word = Append(@, Unescape(p))]
    [] acc.at = "closed" /\ p = "space" -> [acc EXCEPT !.at = "between"]
    [] OTHER -> [acc EXCEPT !.at = "error"]

ReadStep == [p \in Piece |-> [acc \in ReadState |-> Read(acc, p)]]

Words(line) ==
  LET end == Scan(ReadStep, Nothing, line)
  IN  CASE end.at = "bare"                  -> Word(end, FALSE)
        [] end.at \in {"between", "closed"} -> end.words
        [] end.at \in {"quoted", "escape", "error"} -> <<>>

\* Doubled signs stand for one; single has what is made of a single one.
UndoubleStep(single) ==
  [p \in Meaning |-> [acc \in [out : Seq(Meaning), half : DOMAIN single \cup {"none"}] |->
     CASE acc.half = p -> [out |-> Append(acc.out, p), half |-> "none"]
       [] acc.half = "none" /\ p \in DOMAIN single -> [acc EXCEPT !.half = p]
       [] acc.half = "none" /\ p \notin DOMAIN single -> [acc EXCEPT !.out = Append(@, p)]
       [] acc.half \notin {"none", p} ->
            LET out == Append(acc.out, single[acc.half])
            IN  IF p \in DOMAIN single THEN [out |-> out, half |-> p]
                                       ELSE [out |-> Append(out, p), half |-> "none"]]]

Undouble(text, single) ==
  LET end == Scan(UndoubleStep(single), [out |-> <<>>, half |-> "none"], text)
  IN  IF end.half = "none" THEN end.out ELSE Append(end.out, single[end.half])

\* The end of parseSystemdArguments: both signs at once, single ones kept.
Restore(text) == Undouble(text, [sign \in {"%", "$"} |-> sign])

StatusArguments ==
  LET words == Words(ExecStart)
  IN  [i \in DOMAIN words |-> IF words[i].quoted THEN Restore(words[i].text) ELSE words[i].text]

\* systemd replaces specifiers in every word, variables only in the arguments.
Specified(text) == Undouble(text, [sign \in {"%"} |-> "specifier"])
Expand(text)    == Undouble(Specified(text), [sign \in {"$"} |-> "variable"])

\* What systemd refuses in the path of a program.
Special == {"quote", "backslash", "newline"}

\* The program that systemd runs, nothing when it refuses the command, and its
\* arguments.
SystemdProgram ==
  LET path == Specified(Words(ExecStart)[1].text)
  IN  IF \E n \in DOMAIN path : path[n] \in Special THEN <<>> ELSE path

SystemdArguments ==
  LET words == Words(ExecStart) IN [i \in 2 .. Len(words) |-> Expand(words[i].text)]

-----------------------------------------------------------------------------
Assigns(arg) == arg # <<>> /\ Head(arg) = "-config="
Searched     == [path : Seq(Meaning), value : BOOLEAN]

\* Mutant: the value of -config is looked at as an argument of its own.
ConfigStepAny ==
  [arg \in Seq(Meaning) |-> [acc \in Searched |->
     [path  |-> IF Assigns(arg) THEN Tail(arg) ELSE IF acc.value THEN arg ELSE acc.path,
      value |-> arg = <<"-config">>]]]

\* configArgument: the last -config and its value, or -config=value.
ConfigStep ==
  [arg \in Seq(Meaning) |-> [acc \in Searched |->
     CASE acc.value                          -> [path |-> arg, value |-> FALSE]
       [] ~acc.value /\ arg = <<"-config">>  -> [acc EXCEPT !.value = TRUE]
       [] ~acc.value /\ Assigns(arg)         -> [acc EXCEPT !.path = Tail(arg)]
       [] ~acc.value /\ arg # <<"-config">> /\ ~Assigns(arg) -> acc]]

ConfigArgument(args) ==
  Scan(ConfigStep, [path |-> <<>>, value |-> FALSE], SubSeq(args, 2, Len(args))).path

-----------------------------------------------------------------------------
\* A path that systemd runs as it was installed: the $ that quoteSystemdArgument doubles
\* stays doubled in a program's path.
Runnable(text) == \A n \in DOMAIN text : text[n] \notin Special \cup {"$"}

\* Status tells the command that was installed, and systemd hands its arguments over,
\* whatever the two paths contain; systemd runs the installed program if its path is
\* Runnable, and no other path survives.
CommandSurvives ==
  /\ StatusArguments = Arguments
  /\ SystemdArguments = [i \in 2 .. Len(Arguments) |-> Arguments[i]]
  /\ SystemdProgram = executable <=> Runnable(executable)

\* Status finds the configuration the service uses, also one that is named like an
\* option.
ConfigFound == ConfigArgument(StatusArguments) = cfgPath
=============================================================================
