------------------------------ MODULE MCTools -------------------------------
(***************************************************************************)
(* Streams, processes, the command line, routes, logging, typed errors and *)
(* JSON patches: each is checked by itself, with the bounds below.  Init   *)
(* picks the component and only that one moves; x1, x2, ... are its        *)
(* variables.                                                              *)
(***************************************************************************)
EXTENDS ProcessPool, Integers, Sequences

CONSTANTS t1, t2, w1, w2, c1, c2, c3
VARIABLES part, x1, x2, x3, x4, x5, x6, x7, x8, x9, x10, x11, x12, x13, x14, x15, x16, x17,
          x18, x19, x20

\* Command lines of at most two arguments, with response files that refer to each other.
Arg(k, a) == [k |-> k, a |-> a]
Args == {Arg("end", <<>>), Arg("long", <<"a">>), Arg("inline", <<"b">>), Arg("short", <<"a">>),
         Arg("short", <<"a", "b">>), Arg("word", <<"sub">>), Arg("file", <<"f">>), Arg("file", <<"h">>), Arg("escaped", <<"f">>)}
Lines == UNION {[1..n -> Args] : n \in 0..2}
Files == [f |-> <<Arg("short", <<"b">>), Arg("file", <<"g">>)>>,
          g |-> <<Arg("word", <<"sub">>), Arg("word", <<"x">>)>>, h |-> <<Arg("file", <<"h">>)>>]

\* Routes that overlap in every way, and two that are refused.
Lit(n) == [k |-> "literal", n |-> n]
Par(n) == [k |-> "parameter", n |-> n]
Rest(n) == [k |-> "rest", n |-> n]
Patterns ==
  {<<>>, <<Lit("a")>>, <<Par("x")>>, <<Par("y")>>, <<Rest("x")>>, <<Lit("a"), Par("x")>>,
   <<Par("x"), Lit("a")>>, <<Par("x"), Rest("y")>>, <<Par("x"), Par("x")>>, <<Rest("x"), Lit("a")>>}

\* The error types.
Types == {"Json", "Csv", "Byte", "Bytes", "Cli", "Crypto", "Regex", "Log", "Env", "Fs", "Io", "Net", "Url", "Uuid",
          "Math", "Process", "Tls", "DateTime", "Random", "Sync"}

\* JSON documents, and paths that lead to, beside and past what they contain.
Num(n) == [t |-> "num", n |-> n, f |-> <<>>]
Arr(s) == [t |-> "arr", n |-> 0, f |-> s]
Obj(f) == [t |-> "obj", n |-> 0, f |-> f]
Null == [t |-> "null", n |-> 0, f |-> <<>>]
Key(k) == [k |-> k, i |-> -1]
Index(i) == [k |-> <<"0", "1", "2", "3">>[i + 1], i |-> i]
Documents == {Obj([a |-> Arr(<<Num(1), Num(2)>>), b |-> Obj([a |-> Num(1)])]), Arr(<<Num(1), Arr(<<>>), Num(2)>>)}
Paths == {<<>>, <<Key("a")>>, <<Key("b")>>, <<Key("a"), Index(0)>>, <<Key("a"), Key("-")>>, <<Key("b"), Key("a")>>,
          <<Index(0)>>, <<Index(1), Index(0)>>, <<Index(1), Key("-")>>, <<Index(3)>>}
Operands == {Num(2), Obj([a |-> Null]), Obj([b |-> Obj([b |-> Null])])}

H == INSTANCE StreamHandles
  WITH Threads <- {t1, t2}, MaxNames <- 2, reg <- x1, refs <- x2, names <- x3, lease <- x4,
       wraps <- x5, pc <- x6, using <- x7
StreamsInit ==
  /\ part = "streams" /\ H!Init /\ ProcessInit /\ x8 = 0 /\ x9 = 0 /\ x10 = 0 /\ x11 = 0
  /\ x12 = 0 /\ x13 = 0 /\ x14 = 0 /\ x15 = 0 /\ x16 = 0 /\ x17 = 0 /\ x18 = 0 /\ x19 = 0
  /\ x20 = 0
StreamsNext ==
  /\ part = "streams" /\ H!Next
  /\ UNCHANGED <<part, processVars, x8, x9, x10, x11, x12, x13, x14, x15, x16, x17, x18, x19,
                x20>>

D == INSTANCE StreamData
  WITH Threads <- {t1, t2}, SourceSize <- 3, Newlines <- {2}, MaxAsk <- 2, MaxStreamBytes <- 2,
       MaxWritten <- 3, MaxCalls <- 2, Chunk <- 1, source <- x1, position <- x2,
       remaining_limit <- x3, tee_writer <- x4, target <- x5, wposition <- x6, data <- x7,
       file <- x8, fposition <- x9, broken <- x10, op <- x11, want <- x12, got <- x13,
       buf <- x14, pc <- x15, returned <- x16, lost <- x17, allowed <- x18, sought <- x19,
       begun <- x20
DataInit ==
  /\ part = "data" /\ D!Init /\ ProcessInit
DataNext ==
  /\ part = "data" /\ D!Next
  /\ UNCHANGED <<part, processVars>>

O == INSTANCE ChildProcess
  WITH Threads <- {t1, t2}, Programs <- {"quiet", "reader", "writer"}, PipeSize <- 1,
       Nobody <- Nobody, program <- x1, cmd <- x2, os <- x3, stray <- x4, pipe <- x5,
       stdin <- x6, mutex <- x7, names <- x8, entry <- x9, pc <- x10
ChildInit ==
  /\ part = "child" /\ O!Init /\ ProcessInit /\ x11 = 0 /\ x12 = 0 /\ x13 = 0 /\ x14 = 0
  /\ x15 = 0 /\ x16 = 0 /\ x17 = 0 /\ x18 = 0 /\ x19 = 0 /\ x20 = 0
ChildNext ==
  /\ part = "child" /\ O!Next
  /\ UNCHANGED <<part, processVars, x11, x12, x13, x14, x15, x16, x17, x18, x19, x20>>

K == INSTANCE Capture
  WITH PipeSize <- 2, MAX_PROCESS_IO_BYTES <- 3, child <- x1, stray <- x2, endless <- x3,
       inPipe <- x4, wrote <- x5, reader <- x6, output <- x7, overflow <- x8, abort <- x9,
       parent <- x10, status <- x11, answer <- x12
CaptureInit ==
  /\ part = "capture" /\ K!Init /\ ProcessInit /\ x13 = 0 /\ x14 = 0 /\ x15 = 0 /\ x16 = 0
  /\ x17 = 0 /\ x18 = 0 /\ x19 = 0 /\ x20 = 0
CaptureNext ==
  /\ part = "capture" /\ K!Next
  /\ UNCHANGED <<part, processVars, x13, x14, x15, x16, x17, x18, x19, x20>>

C == INSTANCE Cli
  WITH Threads <- {"t1", "t2"}, Ids <- 1..4, Values <- {"v1", "v2", "v3", "v4"},
       Names <- {"a", "b"}, Callbacks <- {"k"}, MaxCalls <- 4, parsers <- x1, matches <- x2,
       val <- x3, next <- x4, refs <- x5, lock <- x6, pc <- x7, calls <- x8
CliInit ==
  /\ part = "cli" /\ C!Init /\ ProcessInit /\ x9 = 0 /\ x10 = 0 /\ x11 = 0 /\ x12 = 0
  /\ x13 = 0 /\ x14 = 0 /\ x15 = 0 /\ x16 = 0 /\ x17 = 0 /\ x18 = 0 /\ x19 = 0 /\ x20 = 0
CliNext ==
  /\ part = "cli" /\ C!Next
  /\ UNCHANGED <<part, processVars, x9, x10, x11, x12, x13, x14, x15, x16, x17, x18, x19, x20>>

A == INSTANCE CliParse
  WITH Options <- {"a", "b"}, Lines <- Lines, Files <- Files, Environment <- {"a"},
       MaxSettings <- 2, MaxDepth <- 2, MaxArguments <- 3, conf <- x1, settings <- x2,
       stage <- x3, level <- x4, todo <- x5, budget <- x6, args <- x7, index <- x8,
       ended <- x9, values <- x10, words <- x11, parent <- x12
ArgumentsInit ==
  /\ part = "arguments" /\ A!Init /\ ProcessInit /\ x13 = 0 /\ x14 = 0 /\ x15 = 0 /\ x16 = 0
  /\ x17 = 0 /\ x18 = 0 /\ x19 = 0 /\ x20 = 0
ArgumentsNext ==
  /\ part = "arguments" /\ A!Next
  /\ UNCHANGED <<part, processVars, x13, x14, x15, x16, x17, x18, x19, x20>>

R == INSTANCE HttpRouter
  WITH Paths <- {<<>>, <<"a">>, <<"a", "a">>, <<"b", "a">>}, Patterns <- Patterns,
       MaxRoutes <- 2, MaxMiddleware <- 1, MaxNames <- 2, MaxCalls <- 2, routes <- x1,
       middleware <- x2, names <- x3, held <- x4, nexts <- x5, retained <- x6, pc <- x7,
       stage <- x8, stack <- x9, match <- x10, seen <- x11, bound <- x12, url <- x13,
       captures <- x14, rewritten <- x15, calls <- x16
RouterInit ==
  /\ part = "router" /\ R!Init /\ ProcessInit /\ x17 = 0 /\ x18 = 0 /\ x19 = 0 /\ x20 = 0
RouterNext ==
  /\ part = "router" /\ R!Next
  /\ UNCHANGED <<part, processVars, x17, x18, x19, x20>>

G == INSTANCE Log
  WITH Threads <- {t1, t2}, Setters <- {t1}, Writers <- {w1}, MaxHandle <- 3, MaxCalls <- 4,
       loggers <- x1, default <- x2, next <- x3, vals <- x4, wrefs <- x5, owned <- x6,
       call <- x7, calls <- x8
LogInit ==
  /\ part = "log" /\ G!Init /\ ProcessInit /\ x9 = 0 /\ x10 = 0 /\ x11 = 0 /\ x12 = 0
  /\ x13 = 0 /\ x14 = 0 /\ x15 = 0 /\ x16 = 0 /\ x17 = 0 /\ x18 = 0 /\ x19 = 0 /\ x20 = 0
LogNext ==
  /\ part = "log" /\ G!Next
  /\ UNCHANGED <<part, processVars, x9, x10, x11, x12, x13, x14, x15, x16, x17, x18, x19, x20>>

E == INSTANCE TypedErrors
  WITH Threads <- {t1, t2}, Types <- Types, Reported <- {"invalid", "overflow"},
       MaxErrors <- 3, MaxRefs <- 2, type <- x1, next <- x2, errors <- x3, object <- x4,
       pc <- x5
ErrorsInit ==
  /\ part = "errors" /\ E!Init /\ ProcessInit /\ x6 = 0 /\ x7 = 0 /\ x8 = 0 /\ x9 = 0
  /\ x10 = 0 /\ x11 = 0 /\ x12 = 0 /\ x13 = 0 /\ x14 = 0 /\ x15 = 0 /\ x16 = 0 /\ x17 = 0
  /\ x18 = 0 /\ x19 = 0 /\ x20 = 0
ErrorsNext ==
  /\ part = "errors" /\ E!Next
  /\ UNCHANGED <<part, processVars, x6, x7, x8, x9, x10, x11, x12, x13, x14, x15, x16, x17,
                x18, x19, x20>>

J == INSTANCE JsonPatch
  WITH Documents <- Documents, Paths <- Paths, Operands <- Operands,
       Kinds <- {"add", "remove", "replace", "copy", "move", "test"}, MaxOps <- 2, doc <- x1,
       candidate <- x2, before <- x3, op <- x4, count <- x5, call <- x6, outcome <- x7
PatchInit ==
  /\ part = "patch" /\ J!Init /\ ProcessInit /\ x8 = 0 /\ x9 = 0 /\ x10 = 0 /\ x11 = 0
  /\ x12 = 0 /\ x13 = 0 /\ x14 = 0 /\ x15 = 0 /\ x16 = 0 /\ x17 = 0 /\ x18 = 0 /\ x19 = 0
  /\ x20 = 0
PatchNext ==
  /\ part = "patch" /\ J!Next
  /\ UNCHANGED <<part, processVars, x8, x9, x10, x11, x12, x13, x14, x15, x16, x17, x18, x19,
                x20>>

PoolInit ==
  /\ part = "pool" /\ ProcessInit /\ x1 = 0 /\ x2 = 0 /\ x3 = 0 /\ x4 = 0 /\ x5 = 0 /\ x6 = 0
  /\ x7 = 0 /\ x8 = 0 /\ x9 = 0 /\ x10 = 0 /\ x11 = 0 /\ x12 = 0 /\ x13 = 0 /\ x14 = 0
  /\ x15 = 0 /\ x16 = 0 /\ x17 = 0 /\ x18 = 0 /\ x19 = 0 /\ x20 = 0
PoolNext ==
  /\ part = "pool" /\ ProcessNext
  /\ UNCHANGED <<part, x1, x2, x3, x4, x5, x6, x7, x8, x9, x10, x11, x12, x13, x14, x15, x16,
                x17, x18, x19, x20>>

SuiteInit == PoolInit \/ StreamsInit \/ DataInit \/ ChildInit \/ CaptureInit \/ CliInit
  \/ ArgumentsInit \/ RouterInit \/ LogInit \/ ErrorsInit \/ PatchInit
SuiteNext == PoolNext \/ StreamsNext \/ DataNext \/ ChildNext \/ CaptureNext \/ CliNext
  \/ ArgumentsNext \/ RouterNext \/ LogNext \/ ErrorsNext \/ PatchNext
suiteVars == <<part, processVars, x1, x2, x3, x4, x5, x6, x7, x8, x9, x10, x11, x12, x13, x14,
               x15, x16, x17, x18, x19, x20>>
SuiteSpec == SuiteInit /\ [][SuiteNext]_suiteVars

\* Whatever counts references counts the ones there are: the ends of a stream, the
\* callbacks and children of a parser, a logger and its writer; a child is reaped with its
\* last name; an error that exists has its entry, under the category it was reported with,
\* and no other entry is left.
RefsExact ==
  /\ part = "streams" => H!TypeOK /\ H!StreamRefsExact
  /\ part = "child" => O!NoProcessLeft
  /\ part = "cli" => C!TypeOK /\ C!CallbackRefsExact /\ C!SubcommandsFollowParent
  /\ part = "log" => G!WriterRefsExact /\ G!LoggerHandlesLive
  /\ part = "errors" => E!EntriesExact

\* No byte is lost, repeated or let past a limit: by a reader and its tee, by a writer that
\* is captured, and by the output a command returns.
BytesExact ==
  /\ part = "data" => D!EachByteOnce /\ D!LimitHolds /\ D!CaptureMirrorsFile
  /\ part = "capture" => K!OutputComplete

\* A command line that is accepted satisfies every rule of its parser, and response files
\* do not grow without bound.
AcceptedIsConsistent == part = "arguments" => A!AcceptedIsConsistent /\ A!ExpansionBounded

\* A path has one most specific route, and the handler that runs and its captures are
\* that route's.
RoutedRight == part = "router" => R!OneBestRoute /\ R!CapturesFollowRoute

\* A patch applies as a whole or not at all, and each operation does what it says.
PatchAtomic == part = "patch" => J!PatchAtomic /\ J!OperationsRight
=============================================================================
