------------------------------ MODULE SqlHandles ------------------------------
(***************************************************************************)
(* The handles of std.sql on one thread: connections, transactions nested  *)
(* in savepoints, result sets whose cursors lease a connection or a        *)
(* transaction, and prepared statements.  All registries are thread-local, *)
(* so every call is one step; what makes them hard is that a close or a    *)
(* drop of something leased is put off until the lease ends, and that the  *)
(* end of one object can end its owner.                                    *)
(*                                                                         *)
(* A handle is never reused: c names a connection object, its entry in     *)
(* SQL_CONNECTIONS and the connection to the database behind both.         *)
(***************************************************************************)
EXTENDS Naturals, Sequences, FiniteSets, FiniteSetsExt, SequencesExt

CONSTANTS
  Conns, Txs, Sets, Preps,  \* handles of each kind
  None

VARIABLES
  opened,     \* connections made by mux_sql_connect
  conns,      \* keys of SQL_CONNECTIONS
  txs,        \* SQL_TRANSACTIONS: who has the connection, and the parent
  base,       \* SqlTransaction.connection_handle, kept after its end
  rs,         \* SQL_RESULTSETS: "absent", "closed" or what it leases
  prepared,   \* SQL_PREPARED: the connection of a statement
  cleases,    \* SQL_CONNECTION_LEASES
  tleases,    \* SQL_TRANSACTION_LEASES
  cpending,   \* SQL_CONNECTION_CLOSE_PENDING
  tpending,   \* SQL_TRANSACTION_CLOSE_PENDING
  orefs,      \* references to an object held as some transaction's owner
  named,      \* objects the program has a name for
  zeroed,     \* connection objects whose handle was set to 0 by close
  overlap,    \* history: connections of a transaction begun next to an open
              \* result set
  stack       \* at the database: the open transaction and its savepoints

vars == <<opened, conns, txs, base, rs, prepared, cleases, tleases, cpending,
          tpending, orefs, named, zeroed, overlap, stack>>

(* Every variable has its type. *)
TypeOK ==
  /\ opened \subseteq Conns /\ conns \subseteq opened
  /\ txs \in [Txs -> [has : BOOLEAN, parent : Txs \cup {None}] \cup {None}]
  /\ base \in [Txs -> Conns \cup {None}]
  /\ rs \in [Sets -> {"absent", "closed"} \cup Conns \cup Txs]
  /\ prepared \in [Preps -> Conns \cup {None}]
  /\ cleases \in [Conns -> 0..Cardinality(Sets)]
  /\ tleases \in [Txs -> 0..Cardinality(Sets)]
  /\ cpending \subseteq Conns /\ tpending \subseteq Txs
  /\ orefs \in [Conns \cup Txs -> 0..Cardinality(Txs)]
  /\ named \subseteq Conns \cup Txs \cup Sets \cup Preps
  /\ zeroed \subseteq Conns /\ overlap \subseteq Conns
  /\ \A c \in Conns : stack[c] \in Seq(Txs)

-----------------------------------------------------------------------------
(* What the drop and finish functions do, as functions of the registries.    *)
(* `ok` says whether the database accepts the ROLLBACK they send.            *)

S == [conns |-> conns, txs |-> txs, prepared |-> prepared, rs |-> rs,
      cleases |-> cleases, tleases |-> tleases, cpending |-> cpending,
      tpending |-> tpending, orefs |-> orefs, named |-> named, stack |-> stack]

Become(s) ==
  /\ conns' = s.conns /\ txs' = s.txs /\ prepared' = s.prepared /\ rs' = s.rs
  /\ cleases' = s.cleases /\ tleases' = s.tleases
  /\ cpending' = s.cpending /\ tpending' = s.tpending
  /\ orefs' = s.orefs /\ named' = s.named /\ stack' = s.stack

(* Mutant: the prepared statements stay. *)
RemoveConnection_only(s, c) == [s EXCEPT !.conns = @ \ {c}]

RemoveConnection(s, c) ==
  [s EXCEPT !.conns = @ \ {c},
            !.prepared = [p \in Preps |-> IF @[p] = c THEN None ELSE @[p]]]

(* drop_connection_handle *)
DropConnection(s, c) ==
  IF c \in zeroed THEN s
  ELSE IF s.cleases[c] > 0 THEN [s EXCEPT !.cpending = @ \cup {c}]
  ELSE RemoveConnection(s, c)

(* Mutant: the parent does not get its connection back. *)
Restore_lost(s, t, parent) ==
  IF parent = None THEN [s EXCEPT !.conns = @ \cup {base[t]}] ELSE s

(* restore_transaction_connection; with the parent gone the connection is    *)
(* dropped.                                                                  *)
Restore(s, t, parent) ==
  IF parent = None THEN [s EXCEPT !.conns = @ \cup {base[t]}]
  ELSE IF s.txs[parent] = None THEN s
  ELSE [s EXCEPT !.txs[parent].has = TRUE]

Live(s, c) == {t \in Txs : s.txs[t] # None /\ base[t] = c}
Owner(s, t) == IF s.txs[t].parent = None THEN base[t] ELSE s.txs[t].parent

RECURSIVE EndTx(_, _, _), DecOwner(_, _, _)

(* Mutant: a leased transaction is rolled back under its result set. *)
DropTx_now(s, t, ok) == EndTx(s, t, ok)

(* drop_transaction_handle *)
DropTx(s, t, ok) ==
  IF s.tleases[t] > 0 THEN [s EXCEPT !.tpending = @ \cup {t}] ELSE EndTx(s, t, ok)

(* Mutant: the reference on the owner is given back only if all went well. *)
(* mux_rc_dec(tx.owner): the last reference drops the object. *)
DecOwner(s, o, ok) ==
  LET d == [s EXCEPT !.orefs[o] = @ - 1]
  IN  IF d.orefs[o] > 0 \/ o \in d.named THEN d
      ELSE IF o \in Txs THEN DropTx(d, o, ok) ELSE DropConnection(d, o)

(* remove_transaction_for_connection: leased ones later, the others now;     *)
(* the connection one of them has goes with it.                              *)
RemoveForConnection(s, c, ok) ==
  LET leased == {t \in Live(s, c) : s.tleases[t] > 0}
      gone == Live(s, c) \ leased
      d == [s EXCEPT !.tpending = @ \cup leased,
                     !.txs = [t \in Txs |-> IF t \in gone THEN None ELSE @[t]],
                     !.stack[c] = IF \E t \in gone : s.txs[t].has THEN <<>> ELSE @]
  IN  FoldLeft(LAMBDA u, t : DecOwner(u, Owner(s, t), ok), d, SetToSeq(gone))

(* Mutant: the connection is given back without a rollback. *)
(* take_transaction and its rollback, as finish_deferred_transaction and     *)
(* drop_transaction_handle do it.                                            *)
EndTx(s, t, ok) ==
  LET d == [s EXCEPT !.tpending = @ \ {t}, !.txs[t] = None]
      tx == s.txs[t]
      e == IF ~tx.has THEN d
           ELSE IF ok
           THEN Restore([d EXCEPT !.stack[base[t]] = Front(@)], t, tx.parent)
           ELSE RemoveForConnection([d EXCEPT !.stack[base[t]] = <<>>], base[t], ok)
  IN  IF tx = None THEN [s EXCEPT !.tpending = @ \ {t}]
      ELSE DecOwner(e, Owner(s, t), ok)

(* Mutant: the end of the last lease does not look for a pending close. *)
Release_forgets(s, of, ok) ==
  IF of \in Conns
  THEN [s EXCEPT !.cleases[of] = @ - 1]
  ELSE [s EXCEPT !.tleases[of] = @ - 1]

(* release_connection_lease, release_transaction_lease *)
Release(s, of, ok) ==
  IF of \in Conns
  THEN LET d == [s EXCEPT !.cleases[of] = @ - 1]
       IN  IF d.cleases[of] = 0 /\ of \in d.cpending
           THEN RemoveConnection([d EXCEPT !.cpending = @ \ {of}], of)
           ELSE d
  ELSE LET d == [s EXCEPT !.tleases[of] = @ - 1]
       IN  IF d.tleases[of] = 0 /\ of \in d.tpending THEN EndTx(d, of, ok) ELSE d

-----------------------------------------------------------------------------
(* Connections *)

Usable(c) == c \in named /\ c \notin zeroed

Connect(c) ==
  /\ c \notin opened
  /\ opened' = opened \cup {c} /\ conns' = conns \cup {c} /\ named' = named \cup {c}
  /\ UNCHANGED <<txs, base, overlap, rs, prepared, cleases, tleases, cpending, tpending,
                 orefs, zeroed, stack>>

(* mux_sql_connection_close *)
Close(c, ok) ==
  /\ Usable(c)
  /\ IF cleases[c] > 0
     THEN Become([S EXCEPT !.cpending = @ \cup {c}])
     ELSE Become(RemoveConnection(RemoveForConnection(S, c, ok), c))
  /\ zeroed' = zeroed \cup {c}
  /\ UNCHANGED <<opened, base, overlap>>

Prepare(c, p) ==
  /\ Usable(c) /\ cleases[c] = 0
  /\ prepared[p] = None /\ p \notin named
  /\ prepared' = [prepared EXCEPT ![p] = c]
  /\ named' = named \cup {p}
  /\ UNCHANGED <<opened, conns, txs, base, overlap, rs, cleases, tleases, cpending,
                 tpending, orefs, zeroed, stack>>

(* mux_sql_prepared_close and the drop of a statement *)
EndPrepared(p) ==
  /\ p \in named
  /\ prepared' = [prepared EXCEPT ![p] = None]
  /\ named' = named \ {p}
  /\ UNCHANGED <<opened, conns, txs, base, overlap, rs, cleases, tleases, cpending,
                 tpending, orefs, zeroed, stack>>

(* A statement of its own or a prepared one may use the connection c.        *)
MayUse(c) == c \in conns /\ cleases[c] = 0

NewSet(r, of) ==
  /\ rs[r] = "absent" /\ r \notin named
  /\ rs' = [rs EXCEPT ![r] = of]
  /\ named' = named \cup {r}

(* connection_query_with_params, also from a prepared statement *)
Query(c, r) ==
  /\ Usable(c) \/ \E p \in named \cap Preps : prepared[p] = c
  /\ MayUse(c)
  /\ NewSet(r, c)
  /\ cleases' = [cleases EXCEPT ![c] = @ + 1]
  /\ UNCHANGED <<opened, conns, txs, base, overlap, prepared, tleases, cpending, tpending,
                 orefs, zeroed, stack>>

-----------------------------------------------------------------------------
(* Transactions *)

NewTx(t, c, parent, owner) ==
  /\ base[t] = None
  /\ base' = [base EXCEPT ![t] = c]
  /\ txs' = [u \in Txs |->
       IF u = t THEN [has |-> TRUE, parent |-> parent]
       ELSE IF u = parent THEN [txs[u] EXCEPT !.has = FALSE] ELSE txs[u]]
  /\ orefs' = [orefs EXCEPT ![owner] = @ + 1]
  /\ named' = named \cup {t}
  /\ stack' = [stack EXCEPT ![c] = Append(@, t)]
  /\ UNCHANGED <<opened, rs, prepared, cleases, tleases, cpending, tpending, zeroed>>

(* begin_transaction looks for an active transaction, not for a lease *)
BeginTransaction(c, t) ==
  /\ Usable(c) /\ c \in conns
  /\ \A u \in Txs : txs[u] # None => base[u] # c
  /\ NewTx(t, c, None, c)
  /\ conns' = conns \ {c}
  /\ overlap' = IF cleases[c] = 0 THEN overlap ELSE overlap \cup {c}

(* mux_sql_transaction_begin_transaction suspends the parent *)
BeginNested(parent, t) ==
  /\ parent \in named /\ txs[parent] # None
  /\ tleases[parent] = 0 /\ txs[parent].has
  /\ NewTx(t, base[parent], parent, parent)
  /\ UNCHANGED <<conns, overlap>>

TransactionQuery(t, r) ==
  /\ t \in named /\ txs[t] # None
  /\ tleases[t] = 0 /\ txs[t].has
  /\ NewSet(r, t)
  /\ tleases' = [tleases EXCEPT ![t] = @ + 1]
  /\ UNCHANGED <<opened, conns, txs, base, overlap, prepared, cleases, cpending, tpending,
                 orefs, zeroed, stack>>

(* Mutant: the reference on the owner is given back twice. *)
(* finish_transaction: commit or rollback; when the database refuses, the    *)
(* transaction keeps its connection.                                         *)
Finish(t) ==
  /\ t \in named /\ txs[t] # None
  /\ tleases[t] = 0 /\ txs[t].has
  /\ LET d == [S EXCEPT !.txs[t] = None, !.stack[base[t]] = Front(@)]
     IN  Become(DecOwner(Restore(d, t, txs[t].parent), Owner(S, t), TRUE))
  /\ UNCHANGED <<opened, base, overlap, zeroed>>

-----------------------------------------------------------------------------
(* Result sets, and the drop of the last name of an object *)

(* finish_resultset takes the leases out and drops the cursor *)
FinishSet(s, r) == [s EXCEPT !.rs[r] = "closed"]

(* mux_sql_resultset_close, the end of the rows, or an error while reading *)
EndOfRows(r, ok) ==
  /\ r \in named /\ rs[r] \notin {"absent", "closed"}
  /\ Become(Release(FinishSet(S, r), rs[r], ok))
  /\ UNCHANGED <<opened, base, overlap, zeroed>>

(* drop_resultset_handle *)
DropSet(r, ok) ==
  /\ r \in named
  /\ LET d == [S EXCEPT !.rs[r] = "absent", !.named = @ \ {r}]
     IN  Become(IF rs[r] = "closed" THEN d ELSE Release(d, rs[r], ok))
  /\ UNCHANGED <<opened, base, overlap, zeroed>>

DropName(o, ok) ==
  /\ o \in named
  /\ LET d == [S EXCEPT !.named = @ \ {o}]
     IN  Become(IF orefs[o] > 0 THEN d
                ELSE IF o \in Txs THEN DropTx(d, o, ok) ELSE DropConnection(d, o))
  /\ UNCHANGED <<opened, base, overlap, zeroed>>

-----------------------------------------------------------------------------
Init ==
  /\ opened = {} /\ conns = {}
  /\ txs = [t \in Txs |-> None] /\ base = [t \in Txs |-> None]
  /\ rs = [r \in Sets |-> "absent"]
  /\ prepared = [p \in Preps |-> None]
  /\ cleases = [c \in Conns |-> 0] /\ tleases = [t \in Txs |-> 0]
  /\ cpending = {} /\ tpending = {}
  /\ orefs = [o \in Conns \cup Txs |-> 0]
  /\ named = {} /\ zeroed = {} /\ overlap = {}
  /\ stack = [c \in Conns |-> <<>>]

Next ==
  \/ \E c \in Conns : Connect(c)
  \/ \E c \in Conns, ok \in BOOLEAN : Close(c, ok)
  \/ \E c \in Conns, p \in Preps : Prepare(c, p)
  \/ \E p \in Preps : EndPrepared(p)
  \/ \E c \in Conns, r \in Sets : Query(c, r)
  \/ \E c \in Conns, t \in Txs : BeginTransaction(c, t)
  \/ \E parent, t \in Txs : BeginNested(parent, t)
  \/ \E t \in Txs, r \in Sets : TransactionQuery(t, r)
  \/ \E t \in Txs : Finish(t)
  \/ \E r \in Sets, ok \in BOOLEAN : EndOfRows(r, ok) \/ DropSet(r, ok)
  \/ \E o \in Conns \cup Txs, ok \in BOOLEAN : DropName(o, ok)

Spec == Init /\ [][Next]_vars

-----------------------------------------------------------------------------
OpenSets == {r \in Sets : rs[r] \notin {"absent", "closed"}}
LeasesOf(o) == Cardinality({r \in OpenSets : rs[r] = o})

(* The counters of leases are exact, and a close that was put off waits for  *)
(* a lease that is really there: it is neither lost nor done twice.          *)
LeasesExact ==
  /\ \A c \in Conns : cleases[c] = LeasesOf(c)
  /\ \A t \in Txs : tleases[t] = LeasesOf(t)
  /\ \A c \in cpending : cleases[c] > 0
  /\ \A t \in tpending : tleases[t] > 0 /\ txs[t] # None

(* A connection is in one place: in the registry or in one transaction; in   *)
(* the registry no transaction is open on it at the database, and a          *)
(* transaction that has it is the innermost one there.                       *)
ConnectionInOnePlace ==
  \A c \in Conns :
    LET holders == {t \in Live(S, c) : txs[t].has}
    IN  /\ Cardinality(holders) <= 1
        /\ c \in conns => holders = {} /\ stack[c] = <<>>
        /\ \A t \in holders : stack[c] # <<>> /\ Last(stack[c]) = t

(* A suspended transaction waits for a nested one that is alive, so that it  *)
(* can always be finished some day.                                          *)
NoStuckParent ==
  \A t \in Txs : (txs[t] # None /\ ~txs[t].has)
     => \E u \in Txs : txs[u] # None /\ txs[u].parent = t

(* A transaction keeps its owner, parent or connection object, alive, and    *)
(* gives it back once: no transaction whose last name is gone survives,      *)
(* unless a result set or a nested transaction still needs it.               *)
OwnersBalanced ==
  /\ \A o \in Conns \cup Txs :
       orefs[o] = Cardinality({t \in Txs : txs[t] # None /\ Owner(S, t) = o})
  /\ \A t \in Txs : txs[t] # None => t \in named \/ orefs[t] > 0 \/ t \in tpending

(* Closing a connection invalidates its prepared statements, also when the   *)
(* close was put off behind a result set.                                    *)
NoStaleStatements ==
  \A p \in Preps : prepared[p] # None =>
    LET c == prepared[p]
    IN  c \in cpending \/ (c \notin zeroed /\ (c \in named \/ orefs[c] > 0))

Physical(r) == IF rs[r] \in Conns THEN rs[r] ELSE base[rs[r]]

(* The connection under r exists, and no statement can get at it.            *)
Exclusive(r) ==
  LET c == Physical(r)
  IN  /\ ~MayUse(c)
      /\ \A t \in Txs : ~(txs[t] # None /\ base[t] = c /\ txs[t].has /\ tleases[t] = 0)
      /\ c \in conns \/ \E t \in Txs : txs[t] # None /\ base[t] = c /\ txs[t].has

(* A lease keeps every other operation away from the connection under an     *)
(* open cursor, through closes, drops, ends and nesting, as long as no       *)
(* transaction was begun next to an open result set.                         *)
LeaseExclusive == \A r \in OpenSets : Physical(r) \notin overlap => Exclusive(r)

(* "The result-set lease prevents this connection entry from being used or   *)
(* dropped until the iterator is finalized."                                 *)
CursorExclusive == \A r \in OpenSets : Exclusive(r)
=============================================================================
