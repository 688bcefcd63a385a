----------------------------- MODULE CommandLine -----------------------------
(***************************************************************************)
(* The command line of the agent (orchestrator/extensions/command_line):   *)
(* a line is taken apart into its commands (tree_sitter_extractor.py,      *)
(* utils.py), which are checked against what is allowed, what is           *)
(* disallowed and the validators of some commands (validators/); then it   *)
(* is run by a shell (runner.py).                                          *)
(*                                                                         *)
(* A token is a model value or a string; FormOf says of a token how it     *)
(* reads as an argument.  What the grammar of Bash makes of a line is      *)
(* given with the line: a node for every command, of typed children.       *)
(***************************************************************************)
EXTENDS Naturals, Sequences, FiniteSets, SequencesExt

CONSTANTS
  CommandLines,         \* [nodes, words, first]: the nodes, Absent if the parser
                        \* fails; the words without heredocs, Absent if they cannot
                        \* be split; the first word, Absent if there is none
  AllowedCommands, DisallowedCommands,   \* sets of sequences of tokens
  PathTokens,           \* tokens that begin with / or ./, or are a dot
  FormOf,               \* token -> [kind, options, valued]
  OptionsWithArgs,      \* command -> options that take an argument
  DisallowedOptions,    \* command -> options its validator refuses
  MaxFiles,             \* command -> how many file names its validator accepts
  Absent

\* How a token reads: a long option has one name, a group of short ones at least one
\* and no value.  A node's children have a type and a text.
ASSUME FormsAssumption ==
  /\ Absent \notin STRING
  /\ \A token \in DOMAIN FormOf :
       LET form == FormOf[token]
       IN  /\ form \in [kind : {"plain", "end", "long", "short"}, options : Seq(STRING),
                        valued : BOOLEAN]
           /\ form.kind = "long" => Len(form.options) = 1
           /\ form.kind = "short" => Len(form.options) > 0 /\ ~form.valued
  /\ \A line \in CommandLines :
       line.nodes # Absent => line.nodes \in Seq(Seq([type : STRING, text : DOMAIN FormOf]))

VARIABLES
  ran,                  \* history variable: the last line that was run
  lastCommand,          \* _last_command
  commandAnswer         \* of the last call: "success", "failure", or why not

commandVars == <<ran, lastCommand, commandAnswer>>

-----------------------------------------------------------------------------
\* From a line to its commands.

Words == {"word", "string", "raw_string", "simple_expansion", "expansion",
          "concatenation", "command_substitution", "number"}
Stops == {"file_redirect", "heredoc_redirect", "herestring_redirect"}

\* _extract_command_tokens: the name and the words up to the first redirection.
TokensOf(node) ==
  LET upto[k \in 0..Len(node)] ==
        IF k = 0 THEN <<>>
        ELSE IF /\ node[k].type \in Words \cup {"command_name"}
                /\ \A j \in 1..k : node[j].type \notin Stops
             THEN Append(upto[k - 1], node[k].text)
             ELSE upto[k - 1]
  IN  upto[Len(node)]

\* The commands of a line are a set: each is looked at on its own.
NonEmpty(commands) == commands \ {<<>>}

\* fallback_extract_commands: words between separators.
Separators == {"&&", "||", ";", "|"}

Split(words) ==
  LET upto[k \in 0..Len(words)] ==
        IF k = 0 THEN <<<<>>>>
        ELSE LET done == upto[k - 1]
             IN  IF words[k] \in Separators THEN Append(done, <<>>)
                 ELSE [done EXCEPT ![Len(done)] = Append(@, words[k])]
  IN  NonEmpty(ToSet(upto[Len(words)]))

FirstOf(line) == IF line.first = Absent THEN {} ELSE {<<line.first>>}

FallbackCommands(line) ==
  IF Split(line.words) = {} THEN FirstOf(line) ELSE Split(line.words)

\* get_command_tokens_from_bash; Absent if neither way gives commands.
CommandsOf(line) ==
  LET parsed == IF line.nodes = Absent THEN {}
                ELSE NonEmpty({TokensOf(line.nodes[i]) : i \in DOMAIN line.nodes})
      usable == line.words # Absent
  IN  IF parsed # {} THEN parsed
      ELSE IF ~usable THEN Absent
      ELSE IF line.nodes = Absent /\ FallbackCommands(line) = {} THEN Absent
      ELSE FallbackCommands(line)

-----------------------------------------------------------------------------
\* What may be run.

\* _command_matches_allowed_command
Matches(command, pattern) == IsPrefix(pattern, command)

ExplicitlyDisallowed(command) == \E d \in DisallowedCommands : Matches(command, d)

\* _validate_command: what is disallowed is refused, whatever else is allowed; a
\* script of one's own may always be run.
CommandAllowed(command) ==
  \/ \E a \in AllowedCommands : Matches(command, a)
  \/ command[1] \in PathTokens

\* Mutant: what follows the end of the options is passed over.
ParsedArgToEnd(withArgs, st, arg) ==
  LET form    == FormOf[arg]
      flushed == IF st.current = Absent THEN st
                 ELSE [st EXCEPT !.options = @ \cup {st.current}, !.current = Absent]
  IN  CASE st.ended -> st
        [] ~st.ended /\ form.kind = "end" -> [st EXCEPT !.ended = TRUE]
        [] ~st.ended /\ form.kind = "long" ->
             IF ~form.valued /\ form.options[1] \in withArgs
             THEN [flushed EXCEPT !.current = form.options[1]]
             ELSE [flushed EXCEPT !.options = @ \cup {form.options[1]}]
        [] ~st.ended /\ form.kind = "short" ->
             IF Last(form.options) \in withArgs
             THEN [flushed EXCEPT !.options = @ \cup ToSet(Front(form.options)),
                                  !.current = Last(form.options)]
             ELSE [flushed EXCEPT !.options = @ \cup ToSet(form.options)]
        [] ~st.ended /\ form.kind = "plain" ->      \* a lone dash is one too
             IF st.current # Absent THEN flushed
             ELSE [st EXCEPT !.positional = @ + 1]

\* parse_posix_args, one argument after the other: the options it has seen, and how
\* many arguments were not options.
ParsedArg(withArgs, st, arg) ==
  LET form    == FormOf[arg]
      flushed == IF st.current = Absent THEN st
                 ELSE [st EXCEPT !.options = @ \cup {st.current}, !.current = Absent]
  IN  CASE st.ended -> [st EXCEPT !.positional = @ + 1]
        [] ~st.ended /\ form.kind = "end" -> [st EXCEPT !.ended = TRUE]
        [] ~st.ended /\ form.kind = "long" ->
             IF ~form.valued /\ form.options[1] \in withArgs
             THEN [flushed EXCEPT !.current = form.options[1]]
             ELSE [flushed EXCEPT !.options = @ \cup {form.options[1]}]
        [] ~st.ended /\ form.kind = "short" ->
             IF Last(form.options) \in withArgs
             THEN [flushed EXCEPT !.options = @ \cup ToSet(Front(form.options)),
                                  !.current = Last(form.options)]
             ELSE [flushed EXCEPT !.options = @ \cup ToSet(form.options)]
        [] ~st.ended /\ form.kind = "plain" ->      \* a lone dash is one too
             IF st.current # Absent THEN flushed
             ELSE [st EXCEPT !.positional = @ + 1]

\* What the first k arguments are.
ParsedUpto(withArgs, args) ==
  LET upto[k \in 0..Len(args)] ==
        IF k = 0 THEN [options |-> {}, positional |-> 0, current |-> Absent, ended |-> FALSE]
        ELSE ParsedArg(withArgs, upto[k - 1], args[k])
  IN  upto

ParsedArgs(withArgs, args) ==
  LET st == ParsedUpto(withArgs, args)[Len(args)]
  IN  [options |-> st.options \cup ({st.current} \ {Absent}), positional |-> st.positional]

\* _check_command_specific_validators
ArgsOf(command) == ParsedArgs(OptionsWithArgs[command[1]], Tail(command))

\* AwkValidator, SortValidator
OptionsAccepted(command) ==
  ArgsOf(command).options \cap DisallowedOptions[command[1]] = {}

\* UniqValidator
FilesAccepted(command) == ArgsOf(command).positional <= MaxFiles[command[1]]

Validated(command) ==
  command[1] \in DOMAIN OptionsWithArgs => OptionsAccepted(command) /\ FilesAccepted(command)

Refusal(line) ==
  LET commands == CommandsOf(line)
      Some(P(_)) == \E command \in commands : P(command)
  IN  IF commands = Absent THEN "unparsable"
      ELSE IF Some(ExplicitlyDisallowed) THEN "disallowed"
      ELSE IF Some(LAMBDA command : ~CommandAllowed(command)) THEN "not allowed"
      ELSE IF Some(LAMBDA command : ~Validated(command)) THEN "invalid"
      ELSE "none"

-----------------------------------------------------------------------------
\* on_command, of the tool and of the tag.
RunCommand(line) ==
  IF Refusal(line) # "none"
  THEN commandAnswer' = Refusal(line) /\ UNCHANGED <<ran, lastCommand>>
  ELSE /\ ran' = line
       /\ commandAnswer' \in {"success", "failure", "raises"}
       /\ UNCHANGED lastCommand

\* _get_bash_input_command with restart: nothing ever sets _last_command.
Restart ==
  IF lastCommand = Absent
  THEN commandAnswer' = "nothing to restart" /\ UNCHANGED <<ran, lastCommand>>
  ELSE RunCommand(lastCommand)

CommandInit ==
  /\ ran = Absent
  /\ lastCommand = Absent
  /\ commandAnswer = "none"

CommandNext == Restart \/ \E line \in CommandLines : RunCommand(line)

-----------------------------------------------------------------------------
\* How often a command names a file, from its arguments as they stand: all after
\* the end of the options, before it the plain ones that are no option's argument.
Takes(withArgs, arg) ==
  /\ FormOf[arg].kind \in {"long", "short"} /\ ~FormOf[arg].valued
  /\ Last(FormOf[arg].options) \in withArgs

Ended(args, i) == \E j \in 1..i : FormOf[args[j]].kind = "end"

NamesFile(withArgs, args, i) ==
  \/ Ended(args, i - 1)
  \/ /\ ~Ended(args, i) /\ FormOf[args[i]].kind = "plain"
     /\ ~(i > 1 /\ Takes(withArgs, args[i - 1]))

FilesNamed(withArgs, args) == Cardinality({i \in DOMAIN args : NamesFile(withArgs, args, i)})

\* A line is run only if every command in it may be, however they are combined, and
\* whatever is disallowed was looked for in all of them before anything is allowed;
\* a command with a validator has no option it refuses and no file too many
\* (base.py, _validate_command; validators/cli_command_validator.py).
OnlyAllowedRun ==
  ran # Absent /\ ran.nodes # Absent =>
    \A i \in DOMAIN ran.nodes :
      LET command == TokensOf(ran.nodes[i])
      IN  command # <<>> =>
            /\ ~ExplicitlyDisallowed(command) /\ CommandAllowed(command)
            /\ command[1] \in DOMAIN OptionsWithArgs =>
                 /\ FilesNamed(OptionsWithArgs[command[1]], Tail(command))
                      <= MaxFiles[command[1]]
                 /\ \A j \in 2..Len(command) :
                      FormOf[command[j]].kind \in {"long", "short"} =>
                        \/ ToSet(FormOf[command[j]].options)
                             \cap DisallowedOptions[command[1]] = {}
                        \/ Ended(Tail(command), j - 2)
=============================================================================
