------------------------------- MODULE MCSql --------------------------------
(***************************************************************************)
(* The parts of the SQL runtime: the connection pool and migrations, which *)
(* are extended because their assumptions and theorems are about the same  *)
(* constants, and the handles of one thread, queries with a limit and the  *)
(* statement scanner.  Init picks the part that moves; the others rest in  *)
(* their initial states; x1, x2, ... are the variables of one of the last. *)
(***************************************************************************)
EXTENDS SqlPool, Migrator, Sequences

CONSTANTS c1, c2, c3, t1, t2, t3, t4, r1, r2, p1, none
VARIABLES part, x1, x2, x3, x4, x5, x6, x7, x8, x9, x10, x11, x12, x13, x14, x15

MCClients == {c1, c2, c3}
MCTimed == {c1}

\* Migration files: four processes that see the same, fewer, changed or incomplete files.
File(v, d, n) == [version |-> v, name |-> "m", dir |-> d, sql |-> n]
Both(v, n) == {File(v, "up", n), File(v, "down", 1)}
MCDirectories ==
  [a |-> Both(1, 1) \cup Both(2, 1),
   b |-> Both(1, 1) \cup Both(2, 1) \cup Both(3, 1),
   c |-> Both(1, 1) \cup Both(2, 2) \cup Both(3, 1),
   d |-> Both(1, 1) \cup {File(2, "up", 1)}]

\* Statements, symbol by symbol: every short text over the symbols a scanner tells apart.
UpTo(A, k) == UNION {[1..n -> A] : n \in 0..k}
Texts ==
  [positional |-> UpTo({"?", "-", "/", "*", "n", "$", "1"}, 4),
   named |-> UpTo({":", "a", "?", "-", "n"}, 4),
   batch |-> UpTo({";", "/", "*", "-", "n"}, 4) \cup UpTo({";", "'", "a"}, 3)]

H == INSTANCE SqlHandles
  WITH Conns <- {c1}, Txs <- {t1, t2, t3, t4}, Sets <- {r1, r2}, Preps <- {p1}, None <- none,
       opened <- x1, conns <- x2, txs <- x3, base <- x4, rs <- x5, prepared <- x6,
       cleases <- x7, tleases <- x8, cpending <- x9, tpending <- x10, orefs <- x11,
       named <- x12, zeroed <- x13, overlap <- x14, stack <- x15
HandlesInit ==
  /\ part = "handles" /\ H!Init /\ Init /\ names = Clients /\ MigratorInit
HandlesNext ==
  /\ part = "handles" /\ H!Next
  /\ UNCHANGED <<part, vars, migratorVars>>

Q == INSTANCE SqlQueries
  WITH Backends <- {"sqlite", "postgres", "mysql", "sqlserver"},
       Owners <- {"connection", "prepared", "transaction", "pool"}, MaxCalls <- 3,
       backend <- x1, owner <- x2, pc <- x3, call <- x4, session <- x5, helper <- x6,
       stop <- x7, token <- x8, answer <- x9
QueriesInit ==
  /\ part = "queries" /\ Q!Init /\ Init /\ names = Clients /\ MigratorInit /\ x10 = 0
  /\ x11 = 0 /\ x12 = 0 /\ x13 = 0 /\ x14 = 0 /\ x15 = 0
QueriesNext ==
  /\ part = "queries" /\ Q!Next
  /\ UNCHANGED <<part, vars, migratorVars, x10, x11, x12, x13, x14, x15>>

X == INSTANCE SqlText
  WITH Texts <- Texts, Expected <- {0, 1, 2}, use <- x1, sql <- x2, index <- x3, quote <- x4,
       marks <- x5, used <- x6, status <- x7, params <- x8
TextInit ==
  /\ part = "text" /\ X!Init /\ Init /\ names = Clients /\ MigratorInit /\ x9 = 0 /\ x10 = 0
  /\ x11 = 0 /\ x12 = 0 /\ x13 = 0 /\ x14 = 0 /\ x15 = 0
TextNext ==
  /\ part = "text" /\ X!Next
  /\ UNCHANGED <<part, vars, migratorVars, x9, x10, x11, x12, x13, x14, x15>>

ConnectionsInit ==
  /\ part = "connections" /\ Init /\ MigratorInit /\ x1 = 0 /\ x2 = 0 /\ x3 = 0 /\ x4 = 0
  /\ x5 = 0 /\ x6 = 0 /\ x7 = 0 /\ x8 = 0 /\ x9 = 0 /\ x10 = 0 /\ x11 = 0 /\ x12 = 0 /\ x13 = 0
  /\ x14 = 0 /\ x15 = 0
ConnectionsNext ==
  /\ part = "connections" /\ Next
  /\ UNCHANGED <<part, migratorVars, x1, x2, x3, x4, x5, x6, x7, x8, x9, x10, x11, x12, x13,
                x14, x15>>

MigrationsInit ==
  /\ part = "migrations" /\ MigratorInit /\ Init /\ names = Clients /\ x1 = 0 /\ x2 = 0
  /\ x3 = 0 /\ x4 = 0 /\ x5 = 0 /\ x6 = 0 /\ x7 = 0 /\ x8 = 0 /\ x9 = 0 /\ x10 = 0 /\ x11 = 0
  /\ x12 = 0 /\ x13 = 0 /\ x14 = 0 /\ x15 = 0
MigrationsNext ==
  /\ part = "migrations" /\ MigratorNext
  /\ UNCHANGED <<part, vars, x1, x2, x3, x4, x5, x6, x7, x8, x9, x10, x11, x12, x13, x14, x15>>

SuiteInit == ConnectionsInit \/ MigrationsInit \/ HandlesInit \/ QueriesInit \/ TextInit
SuiteNext == ConnectionsNext \/ MigrationsNext \/ HandlesNext \/ QueriesNext \/ TextNext
suiteVars == <<part, vars, migratorVars, x1, x2, x3, x4, x5, x6, x7, x8, x9, x10, x11, x12,
               x13, x14, x15>>
SuiteSpec ==
  /\ SuiteInit /\ [][SuiteNext]_suiteVars
  /\ \A c \in Clients : /\ WF_vars(part = "connections" /\ Continue(c))
                        /\ WF_vars(part = "connections" /\ ResultSetEnds(c))

\* A session serves one statement at a time and carries nothing from one to the next:
\* leases count the cursors that are open, each connection is in one place only and a leased
\* one is not used by another statement; a limit stops its own query only, is reported only
\* when it was reached, and leaves no answer for the next query to read.  Nothing is left
\* behind when handles go in any order: a parent transaction gets its connection back,
\* owners are balanced, and no statement outlives its connection.
SessionsSound ==
  /\ part = "handles" =>
       /\ H!TypeOK /\ H!LeasesExact /\ H!ConnectionInOnePlace /\ H!LeaseExclusive
       /\ H!NoStuckParent /\ H!OwnersBalanced /\ H!NoStaleStatements
  /\ part = "queries" => Q!QueriesSound

\* Placeholders and statement ends are found where a database finds them.
LiteralsOpaque == part = "text" => X!LiteralsOpaque
=============================================================================
