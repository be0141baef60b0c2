-------------------------------- MODULE Cli ---------------------------------
(***************************************************************************)
(* The registries behind CliParser and CliMatches (src/cli.rs): parsers    *)
(* are entries of one table behind one mutex, counted by the values that   *)
(* name them and by the parent a subcommand hangs from; parsing works on   *)
(* copies of the entries and keeps the option callbacks alive meanwhile.   *)
(* What parsing computes is in CliParse; here an option is its name, its   *)
(* aliases and its callback.                                               *)
(***************************************************************************)
EXTENDS Naturals, FiniteSets, FiniteSetsExt

CONSTANTS
  Threads,    \* threads that use the parsers
  Ids,        \* numbers next_id hands out, 1..n
  Values,     \* the Mux values that may name an entry
  Names,      \* names of options, aliases and subcommands
  Callbacks,  \* closures that normalize an option's value
  MaxCalls    \* bound: calls made

VARIABLES parsers, matches, val, next, refs, lock, pc, calls
vars == <<parsers, matches, val, next, refs, lock, pc, calls>>

\* val[v]: what a value names, and the id it holds, 0 when the entry was gone already.
Init ==
  /\ parsers = <<>> /\ matches = <<>>
  /\ val = [v \in Values |-> [of |-> "none", id |-> 0]]
  /\ next = 1 /\ refs = [k \in Callbacks |-> 0] /\ lock = "free"
  /\ pc = [t \in Threads |-> [at |-> "idle", clones |-> <<>>, kids |-> {}]] /\ calls = 0

Idle == [at |-> "idle", clones |-> <<>>, kids |-> {}]
Free == {v \in Values : val[v].of = "none"}
Slot == CHOOSE v \in Free : TRUE
Name(of, i) == val' = [val EXCEPT ![Slot] = [of |-> of, id |-> i]]
With(map, i, e) == [j \in DOMAIN map \cup {i} |-> IF j = i THEN e ELSE map[j]]
Without(map, S) == [j \in DOMAIN map \ S |-> map[j]]

\* The options of an entry: [name, aliases, callback], callback "none" when there is none.
Option(n) == [name |-> n, aliases |-> {}, callback |-> "none"]
Owned(options, k) == Cardinality({o \in options : o.callback = k})
Retain(options) == refs' = [k \in Callbacks |-> refs[k] + Owned(options, k)]
OwnedBy(map, k) == MapThenSumSet(LAMBDA i : Owned(map[i], k), DOMAIN map)
Release(map) == refs' = [k \in Callbacks |-> refs[k] - OwnedBy(map, k)]

Call(t) == pc[t].at = "idle" /\ lock = "free" /\ calls < MaxCalls /\ calls' = calls + 1
Parser(v) == val[v].of = "parser"
Live(v) == Parser(v) /\ val[v].id \in DOMAIN parsers

\* mux_cli_parser_new: the default entry, which no name counts.
mux_cli_parser_new(t) ==
  /\ Call(t) /\ Free # {} /\ next \in Ids
  /\ parsers' = With(parsers, next, [names |-> 0, options |-> {}, positionals |-> {}, children |-> {}])
  /\ Name("parser", next)
  /\ next' = next + 1 /\ UNCHANGED <<matches, refs, lock, pc>>

\* mutate_parser: one entry, under the lock.
mutate_parser(t, v, entry, ok) ==
  /\ Call(t) /\ Live(v)
  /\ parsers' = IF ok THEN [parsers EXCEPT ![val[v].id] = entry] ELSE parsers
  /\ UNCHANGED <<matches, val, next, lock, pc>>
Entry(v) == parsers[val[v].id]
OptionNames(v) == {o.name : o \in Entry(v).options}
Named(v, n) == CHOOSE o \in Entry(v).options : o.name = n
Replace(v, o, new) == [Entry(v) EXCEPT !.options = (@ \ {o}) \cup {new}]

mux_cli_parser_add_option(t, v, n) ==
  /\ Live(v)
  /\ mutate_parser(t, v, [Entry(v) EXCEPT !.options = @ \cup {Option(n)}], n \notin OptionNames(v))
  /\ UNCHANGED refs

mux_cli_parser_add_positional(t, v, n) ==
  /\ Live(v)
  /\ mutate_parser(t, v, [Entry(v) EXCEPT !.positionals = @ \cup {n}], n \notin Entry(v).positionals)
  /\ UNCHANGED refs

\* An alias may be neither a name nor an alias of an option that is there already.
mux_cli_parser_set_option_alias(t, v, n, alias) ==
  /\ Live(v) /\ n \in OptionNames(v)
  /\ mutate_parser(t, v, Replace(v, Named(v, n), [Named(v, n) EXCEPT !.aliases = @ \cup {alias}]),
       \A o \in Entry(v).options : alias # o.name /\ alias \notin o.aliases)
  /\ UNCHANGED refs

\* The callback is retained for the entry, and the one it replaces is released.
mux_cli_parser_set_option_parser(t, v, n, k) ==
  /\ Live(v) /\ n \in OptionNames(v)
  /\ mutate_parser(t, v, Replace(v, Named(v, n), [Named(v, n) EXCEPT !.callback = k]), TRUE)
  /\ refs' = [c \in Callbacks |->
       refs[c] + (IF c = k THEN 1 ELSE 0) - (IF c = Named(v, n).callback THEN 1 ELSE 0)]

\* A subcommand is a parser that its parent names, and that the value returned names.
mux_cli_parser_add_subcommand(t, v, n) ==
  /\ Call(t) /\ Live(v) /\ Free # {} /\ next \in Ids
  /\ next' = next + 1
  /\ IF \E c \in Entry(v).children : c.name = n
     THEN UNCHANGED <<parsers, val>>
     ELSE /\ parsers' = With([parsers EXCEPT ![val[v].id].children = @ \cup {[name |-> n, id |-> next]}],
                             next, [names |-> 2, options |-> {}, positionals |-> {}, children |-> {}])
          /\ Name("parser", next)
  /\ UNCHANGED <<matches, refs, lock, pc>>

\* copy_handle: another value for the same entry, or for none when it is gone.
copy_parser(t, v) ==
  /\ Call(t) /\ Parser(v) /\ Free # {}
  /\ IF Live(v)
     THEN /\ parsers' = [parsers EXCEPT ![val[v].id].names = @ + 1]
          /\ Name("parser", val[v].id)
     ELSE Name("parser", 0) /\ UNCHANGED parsers
  /\ UNCHANGED <<matches, next, refs, lock, pc>>

\* release_parser_reference: the entries that go with the reference of entry i, its
\* children's references released with it.  A parser has one parent.
Gone[i \in Nat] ==
  IF i \notin DOMAIN parsers \/ (i \in DOMAIN parsers /\ parsers[i].names > 1) THEN {}
  ELSE {i} \cup UNION {Gone[c.id] : c \in parsers[i].children}
Touched(i) == {i} \cup UNION {{c.id : c \in parsers[j].children} : j \in Gone[i]}

drop_parser(t, v) ==
  /\ Call(t) /\ Parser(v)
  /\ val' = [val EXCEPT ![v] = [of |-> "none", id |-> 0]]
  /\ IF Live(v)
     THEN LET gone == Gone[val[v].id] IN
          /\ parsers' = [j \in DOMAIN parsers \ gone |->
               IF j \in Touched(val[v].id) THEN [parsers[j] EXCEPT !.names = @ - 1] ELSE parsers[j]]
          /\ Release([j \in gone |-> parsers[j].options])
     ELSE UNCHANGED <<parsers, refs>>
  /\ UNCHANGED <<matches, next, lock, pc>>

(***************************************************************************)
(* Parsing: a copy of the entry, taken under the lock, and a copy of the   *)
(* subcommand's entry when the arguments name one.                         *)
(***************************************************************************)
Take_borrowed(t, options, kids) ==
  pc' = [pc EXCEPT ![t] = [at |-> "parse", clones |-> With(@.clones, Cardinality(DOMAIN @.clones) + 1, options), kids |-> kids]] /\ UNCHANGED refs

\* CloneForParse: the options are copied with a reference to every callback.
Take(t, options, kids) ==
  pc' = [pc EXCEPT ![t] = [at |-> "parse", clones |-> With(@.clones, Cardinality(DOMAIN @.clones) + 1, options), kids |-> kids]] /\ Retain(options)

mux_cli_parser_parse(t, v) ==
  /\ Call(t) /\ Live(v) /\ Take(t, Entry(v).options, Entry(v).children)
  /\ UNCHANGED <<parsers, matches, val, next, lock>>

\* parse_positional meets a subcommand: its entry may be gone.
Descend(t) ==
  /\ pc[t].at = "parse" /\ lock = "free"
  /\ \E c \in pc[t].kids :
       /\ c.id \in DOMAIN parsers
       /\ Take(t, parsers[c.id].options, parsers[c.id].children)
  /\ UNCHANGED <<parsers, matches, val, next, lock, calls>>

\* The copies go; a parse that succeeded leaves matches behind.
ParseEnds(t) ==
  /\ pc[t].at = "parse" /\ Release(pc[t].clones) /\ pc' = [pc EXCEPT ![t] = Idle]
  /\ \/ UNCHANGED <<matches, val, next>>
     \/ /\ Free # {} /\ next \in Ids /\ next' = next + 1
        /\ matches' = With(matches, next, [names |-> 1, sub |-> DOMAIN pc[t].clones # {1}])
        /\ Name("matches", next)
  /\ UNCHANGED <<parsers, lock, calls>>

\* help and completion only read, under the lock or from a copy.  The manual page is
\* written under the lock, and takes it again for the description of each subcommand.
mux_cli_parser_manpage(t, v) ==
  /\ Call(t) /\ Live(v)
  /\ pc' = [pc EXCEPT ![t] = [at |-> "manpage", clones |-> <<>>, kids |-> Entry(v).children]]
  /\ UNCHANGED <<parsers, matches, val, next, refs, lock>>

manpage_text(t) ==
  /\ pc[t].at = "manpage" /\ lock = "free"
  /\ IF pc[t].kids = {} THEN pc' = [pc EXCEPT ![t] = Idle] /\ UNCHANGED lock
     ELSE lock' = t /\ UNCHANGED pc
  /\ UNCHANGED <<parsers, matches, val, next, refs, calls>>

(***************************************************************************)
(* Matches.                                                                *)
(***************************************************************************)
Matched(v) == val[v].of = "matches" /\ val[v].id \in DOMAIN matches

copy_matches(t, v) ==
  /\ Call(t) /\ Matched(v) /\ Free # {}
  /\ matches' = [matches EXCEPT ![val[v].id].names = @ + 1]
  /\ Name("matches", val[v].id)
  /\ UNCHANGED <<parsers, next, refs, lock, pc>>

drop_matches(t, v) ==
  /\ Call(t) /\ Matched(v)
  /\ matches' = IF matches[val[v].id].names = 1 THEN Without(matches, {val[v].id})
                ELSE [matches EXCEPT ![val[v].id].names = @ - 1]
  /\ val' = [val EXCEPT ![v] = [of |-> "none", id |-> 0]]
  /\ UNCHANGED <<parsers, next, refs, lock, pc>>

\* The matches of the subcommand become an entry of their own.
mux_cli_matches_subcommand_matches(t, v) ==
  /\ Call(t) /\ Matched(v) /\ matches[val[v].id].sub /\ Free # {} /\ next \in Ids
  /\ next' = next + 1
  /\ matches' = With(matches, next, [names |-> 1, sub |-> FALSE])
  /\ Name("matches", next)
  /\ UNCHANGED <<parsers, refs, lock, pc>>

Next == \E t \in Threads :
  \/ mux_cli_parser_new(t) \/ Descend(t) \/ ParseEnds(t) \/ manpage_text(t)
  \/ \E v \in Values :
       \/ drop_parser(t, v) \/ mux_cli_parser_parse(t, v) \/ mux_cli_parser_manpage(t, v)
       \/ drop_matches(t, v) \/ mux_cli_matches_subcommand_matches(t, v)
       \/ copy_parser(t, v) \/ copy_matches(t, v)
       \/ \E n \in Names :
            \/ mux_cli_parser_add_option(t, v, n) \/ mux_cli_parser_add_positional(t, v, n)
            \/ mux_cli_parser_add_subcommand(t, v, n)
            \/ \E alias \in Names : mux_cli_parser_set_option_alias(t, v, n, alias)
            \/ \E k \in Callbacks : mux_cli_parser_set_option_parser(t, v, n, k)

Spec == Init /\ [][Next]_vars
FairSpec == Spec /\ \A t \in Threads : WF_vars(Descend(t) \/ ParseEnds(t) \/ manpage_text(t))

(***************************************************************************)
(* Properties                                                              *)
(***************************************************************************)
TypeOK ==
  /\ DOMAIN parsers \subseteq Ids /\ DOMAIN matches \subseteq Ids
  /\ \A i \in DOMAIN parsers : parsers[i].names \in 0..(Cardinality(Values) + 1)
  /\ \A k \in Callbacks : refs[k] \in Nat
  /\ lock \in Threads \cup {"free"}

\* A callback has one reference for every option that holds it, in a parser or in the
\* copy a running parse works on: none is released while a parse may still call it, and
\* none is left when the last parser and the last copy are gone.
CallbackRefsExact ==
  \A k \in Callbacks : refs[k] =
    OwnedBy([i \in DOMAIN parsers |-> parsers[i].options], k)
    + MapThenSumSet(LAMBDA t : OwnedBy(pc[t].clones, k), Threads)

\* A parent keeps its subcommands alive, and a subcommand that lost its parent and its
\* last value is gone.
SubcommandsFollowParent ==
  /\ \A i \in DOMAIN parsers : \A c \in parsers[i].children : c.id \in DOMAIN parsers
  /\ \A i \in DOMAIN parsers : parsers[i].names > 0 =>
       \/ \E v \in Values : val[v] = [of |-> "parser", id |-> i]
       \/ \E j \in DOMAIN parsers : \E c \in parsers[j].children : c.id = i
=============================================================================
