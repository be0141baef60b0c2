------------------------------ MODULE CliParse ------------------------------
(***************************************************************************)
(* Parsing of a command line (src/cli.rs, parse_args): response files are  *)
(* expanded, the arguments are read from left to right, options that were  *)
(* not given take their value from the environment or from the default,    *)
(* and the relations between options are checked.  A parser is configured  *)
(* first, option by option; a subcommand parses the rest of the arguments  *)
(* with a parser of its own.                                               *)
(***************************************************************************)
EXTENDS Naturals, Sequences, SequencesExt, FiniteSets

CONSTANTS
  Options,       \* names of options; a flag and its short form share a name
  Lines,         \* command lines: sequences of arguments
  Files,         \* [paths -> contents of response files, sequences of arguments]
  Environment,   \* options whose variable is set in the environment
  MaxSettings,   \* bound: settings made before parsing
  MaxDepth,      \* MAX_RESPONSE_DEPTH
  MaxArguments   \* MAX_RESPONSE_ARGUMENTS

VARIABLES conf, settings, stage, level, todo, budget, args, index, ended, values, words, parent
vars == <<conf, settings, stage, level, todo, budget, args, index, ended, values, words, parent>>

\* An argument is [k, a]: "--", a long option without or with a value of its own, a
\* cluster of short options, a word, a response file or its escaped form.
Arg(k, a) == [k |-> k, a |-> a]
Word(w) == Arg("word", <<w>>)

Plain == [takes |-> FALSE, required |-> FALSE, env |-> FALSE, default |-> FALSE, multiple |-> FALSE,
          conflicts |-> {}, requires |-> {}]
None == [o \in {} |-> <<>>]

\* add_option has declared the options; the subcommand "sub" knows one of them.
Init ==
  /\ \E takes \in [Options -> BOOLEAN] :
       conf = <<[options |-> [o \in Options |-> [Plain EXCEPT !.takes = takes[o]]], files |-> FALSE, words |-> FALSE],
                [options |-> [o \in {CHOOSE x \in Options : TRUE} |-> Plain], files |-> FALSE, words |-> FALSE]>>
  /\ settings = 0 /\ stage = "configure" /\ level = 1 /\ todo = <<>> /\ budget = MaxArguments
  /\ args = <<>> /\ index = 1 /\ ended = FALSE /\ values = None /\ words = <<>> /\ parent = <<>>

(***************************************************************************)
(* Configuration.                                                          *)
(***************************************************************************)
parse_state == <<stage, level, todo, budget, args, index, ended, values, words, parent>>

Set(new) ==
  /\ stage = "configure" /\ settings < MaxSettings /\ settings' = settings + 1
  /\ conf' = new /\ UNCHANGED parse_state

set_option_required(o) == Set([conf EXCEPT ![1].options[o].required = TRUE])
set_option_env(o) == Set([conf EXCEPT ![1].options[o].env = TRUE])
set_option_default(o) == Set([conf EXCEPT ![1].options[o].default = TRUE])
set_option_multiple(o) == Set([conf EXCEPT ![1].options[o].multiple = TRUE])
set_option_conflicts(o, p) == o # p /\ Set([conf EXCEPT ![1].options[o].conflicts = @ \cup {p}])
set_option_requires(o, p) == o # p /\ Set([conf EXCEPT ![1].options[o].requires = @ \cup {p}])

set_response_files(l) == Set([conf EXCEPT ![l].files = TRUE])
add_positional == Set([conf EXCEPT ![1].words = TRUE])

Fail == stage' = "error" /\ UNCHANGED <<conf, settings, level, todo, budget, args, index, ended, values, words, parent>>

\* parse_args, for the parser of the level: what is to be expanded is a stack of
\* sequences, one for each response file being read.
Enter(l, line) ==
  /\ level' = l /\ index' = 1 /\ ended' = FALSE /\ values' = None /\ words' = <<>>
  /\ budget' = MaxArguments
  /\ IF conf[l].files THEN stage' = "expand" /\ todo' = <<line>> /\ args' = <<>>
     ELSE stage' = "args" /\ args' = line /\ todo' = <<>>

mux_cli_parser_parse ==
  /\ stage = "configure" /\ \E line \in Lines : Enter(1, line)
  /\ UNCHANGED <<conf, settings, parent>>

(***************************************************************************)
(* expand_response_files_with_budget.                                      *)
(***************************************************************************)
Top == todo[Len(todo)]
Rest == [todo EXCEPT ![Len(todo)] = Tail(@)]

consume_argument(arg) ==
  IF budget = 0 THEN Fail
  ELSE /\ budget' = budget - 1 /\ args' = Append(args, arg) /\ todo' = Rest
       /\ UNCHANGED <<conf, settings, stage, level, index, ended, values, words, parent>>

ExpandArgument ==
  /\ stage = "expand" /\ todo # <<>> /\ Top # <<>> /\ Head(Top).k # "file"
  /\ consume_argument(IF Head(Top).k = "escaped" THEN Arg("file", Head(Top).a) ELSE Head(Top))

\* A response file: missing, or read and expanded one level down.
ExpandFile ==
  /\ stage = "expand" /\ todo # <<>> /\ Top # <<>> /\ Head(Top).k = "file"
  /\ LET path == Head(Top).a[1] IN
     IF path \notin DOMAIN Files \/ Len(todo) > MaxDepth THEN Fail
     ELSE /\ todo' = Append(Rest, Files[path])
          /\ UNCHANGED <<conf, settings, stage, level, budget, args, index, ended, values, words, parent>>

ExpandEnds ==
  /\ stage = "expand" /\ todo # <<>> /\ Top = <<>>
  /\ todo' = Front(todo) /\ stage' = IF Len(todo) = 1 THEN "args" ELSE "expand"
  /\ UNCHANGED <<conf, settings, level, budget, args, index, ended, values, words, parent>>

(***************************************************************************)
(* parse_argument_list.                                                    *)
(***************************************************************************)
Known == conf[level].options
Current == args[index]
Reading == stage = "args" /\ index <= Len(args)
Keep == UNCHANGED <<conf, settings, level, todo, budget, args, parent>>

EndOfOptions ==
  /\ Reading /\ ~ended /\ Current.k = "end"
  /\ ended' = TRUE /\ index' = index + 1 /\ UNCHANGED <<stage, values, words>> /\ Keep

Push(vs, o, v) == [p \in DOMAIN vs \cup {o} |->
  IF p # o THEN vs[p] ELSE IF o \in DOMAIN vs THEN Append(vs[o], v) ELSE <<v>>]

\* record_option, and the steps to the next argument: a value may have been taken.
record_option(vs, o, v, steps) ==
  IF ~Known[o].multiple /\ o \in DOMAIN vs THEN Fail
  ELSE values' = Push(vs, o, v) /\ index' = index + steps /\ UNCHANGED <<stage, ended, words>> /\ Keep

True == Arg("true", <<>>)
next_option_value(vs, o) ==
  IF index = Len(args) THEN Fail ELSE record_option(vs, o, args[index + 1], 2)

parse_long_option ==
  /\ Reading /\ ~ended /\ Current.k \in {"long", "inline"}
  /\ LET o == Current.a[1] IN
     IF o \notin DOMAIN Known THEN Fail
     ELSE CASE Known[o].takes /\ Current.k = "inline" -> record_option(values, o, Arg("value", <<>>), 1)
            [] Known[o].takes /\ Current.k = "long" -> next_option_value(values, o)
            [] ~Known[o].takes /\ Current.k = "inline" -> Fail
            [] OTHER -> record_option(values, o, True, 1)

\* A cluster: flags are pushed as they come, without the check for a second value, up to
\* the last character or to the option that takes the rest, or the next argument.
Takers(c) == {i \in 1..Len(c) : c[i] \in DOMAIN Known /\ Known[c[i]].takes}
LastOf(c) == IF Takers(c) = {} THEN Len(c) ELSE CHOOSE i \in Takers(c) : \A j \in Takers(c) : i <= j
Flags(c, vs) == [o \in DOMAIN vs \cup {c[i] : i \in 1..(LastOf(c) - 1)} |->
  (IF o \in DOMAIN vs THEN vs[o] ELSE <<>>)
  \o [i \in 1..Cardinality({j \in 1..(LastOf(c) - 1) : c[j] = o}) |-> True]]

parse_short_options ==
  /\ Reading /\ ~ended /\ Current.k = "short"
  /\ LET c == Current.a  last == LastOf(c) IN
     IF \E i \in 1..last : c[i] \notin DOMAIN Known THEN Fail
     ELSE CASE ~Known[c[last]].takes -> record_option(Flags(c, values), c[last], True, 1)
            [] Known[c[last]].takes /\ last < Len(c) -> record_option(Flags(c, values), c[last], Arg("value", <<>>), 1)
            [] OTHER -> next_option_value(Flags(c, values), c[last])

Positional == ended \/ Current.k \in {"word", "file", "escaped"}

\* The first word may be a subcommand, which parses what follows.
parse_positional ==
  /\ Reading /\ Positional
  /\ IF level = 1 /\ words = <<>> /\ Current = Word("sub")
     THEN /\ parent' = <<[args |-> args, index |-> index, values |-> values, ended |-> ended]>>
          /\ Enter(2, SubSeq(args, index + 1, Len(args))) /\ UNCHANGED <<conf, settings>>
     ELSE /\ words' = Append(words, Current) /\ index' = index + 1
          /\ UNCHANGED <<stage, ended, values>> /\ Keep

(***************************************************************************)
(* The rest of parse_args, for the parser of the level.                    *)
(***************************************************************************)
FromEnv(o) == Known[o].env /\ o \in Environment

Fallback_defaultFirst(o) ==
  IF Known[o].default THEN <<Arg("default", <<>>)>> ELSE <<Arg("env", <<>>)>>

\* The environment comes before the default.
Fallback(o) ==
  IF FromEnv(o) THEN <<Arg("env", <<>>)>> ELSE <<Arg("default", <<>>)>>

Filled == [o \in DOMAIN values \cup {p \in DOMAIN Known : FromEnv(p) \/ Known[p].default} |->
  IF o \in DOMAIN values THEN values[o] ELSE Fallback(o)]

apply_option_defaults ==
  /\ stage = "args" /\ index > Len(args)
  /\ IF \E o \in DOMAIN Known : Known[o].required /\ o \notin DOMAIN Filled THEN Fail
     ELSE values' = Filled /\ stage' = "validate" /\ UNCHANGED <<index, ended, words>> /\ Keep

Related_onlyGiven == \A o \in DOMAIN values : Known[o].requires \subseteq DOMAIN values

Related == \A o \in DOMAIN values :
  Known[o].conflicts \cap DOMAIN values = {} /\ Known[o].requires \subseteq DOMAIN values

\* A subcommand that parsed returns to its parent, which reads no further argument.
validate_option_relationships ==
  /\ stage = "validate"
  /\ IF ~Related \/ (conf[level].words /\ words = <<>>) THEN Fail
     ELSE /\ IF level = 1 THEN stage' = "done" /\ UNCHANGED <<level, index, ended, values, words, args>>
             ELSE /\ stage' = "args" /\ level' = 1 /\ words' = <<>> /\ ended' = parent[1].ended
                  /\ args' = parent[1].args /\ index' = Len(parent[1].args) + 1 /\ values' = parent[1].values
          /\ UNCHANGED <<conf, settings, todo, budget, parent>>

Next ==
  \/ \E o \in Options :
       \/ set_option_required(o) \/ set_option_env(o) \/ set_option_default(o) \/ set_option_multiple(o)
       \/ \E p \in Options : set_option_conflicts(o, p) \/ set_option_requires(o, p)
  \/ add_positional \/ \E l \in 1..2 : set_response_files(l)
  \/ mux_cli_parser_parse \/ ExpandArgument \/ ExpandFile \/ ExpandEnds
  \/ EndOfOptions \/ parse_long_option \/ parse_short_options \/ parse_positional
  \/ apply_option_defaults \/ validate_option_relationships

Spec == Init /\ [][Next]_vars

(***************************************************************************)
(* Properties                                                              *)
(***************************************************************************)

\* The reference: what each argument of the first parser is, up to the subcommand.
LastRead == IF parent = <<>> THEN Len(args) ELSE parent[1].index
Ref == conf[1].options
Role[i \in 1..(Len(args) + 1)] ==
  IF i = 1 THEN "any" ELSE
  LET b == args[i - 1] IN
  CASE Role[i - 1] = "words" -> "words"
    [] Role[i - 1] = "value" -> "any"
    [] b.k = "end" -> "words"
    [] b.k = "long" /\ Ref[b.a[1]].takes -> "value"
    [] b.k = "short" /\ Ref[b.a[Len(b.a)]].takes
         /\ \A j \in 1..(Len(b.a) - 1) : ~Ref[b.a[j]].takes -> "value"
    [] OTHER -> "any"
Given == {o \in Options : \E i \in 1..LastRead :
  /\ Role[i] = "any" /\ args[i].k \in {"long", "inline", "short"}
  /\ \E j \in 1..Len(args[i].a) : args[i].a[j] = o /\ \A h \in 1..(j - 1) : ~Ref[args[i].a[h]].takes}

\* Command-line values win over environment values, which win over defaults: the options
\* of an accepted command line are those that were given, in the environment or with a
\* default, each with the value of the first of these, and what they require is there
\* and what they conflict with is not.
AcceptedIsConsistent ==
  stage = "done" =>
    /\ DOMAIN values = Given \cup {o \in Options : Ref[o].default \/ (Ref[o].env /\ o \in Environment)}
    /\ \A o \in DOMAIN values \ Given :
         values[o] = <<Arg(IF Ref[o].env /\ o \in Environment THEN "env" ELSE "default", <<>>)>>
    /\ \A o \in Given : \A i \in 1..Len(values[o]) : values[o][i].k \notin {"env", "default"}
    /\ \A o \in DOMAIN values :
         Ref[o].conflicts \cap DOMAIN values = {} /\ Ref[o].requires \subseteq DOMAIN values
    /\ \A o \in Options : Ref[o].required => o \in DOMAIN values

\* However response files include one another, themselves included, what they expand to
\* is bounded, and no file is read below the deepest level.
ExpansionBounded ==
  /\ Len(todo) <= MaxDepth + 1
  /\ conf[level].files => Len(args) <= MaxArguments
=============================================================================
