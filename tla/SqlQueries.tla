----------------------------- MODULE SqlQueries -----------------------------
(***************************************************************************)
(* Queries with a deadline or a cancellation token (src/sql.rs).  Each     *)
(* provider has its own way to stop a statement: SQLite asks a hook while  *)
(* it runs; for PostgreSQL and MySQL a helper thread watches the limit and *)
(* asks the server, over another connection, to stop whatever the session  *)
(* runs at that moment; for SQL Server the wait is given up, which leaves  *)
(* an answer on the wire.  The session serves one query after another, so  *)
(* what one of them leaves behind is the next one's trouble.               *)
(***************************************************************************)
EXTENDS Naturals

CONSTANTS
  Backends,   \* of "sqlite", "postgres", "mysql", "sqlserver"
  Owners,     \* of "connection", "prepared", "transaction", "pool"
  MaxCalls

VARIABLES
  backend, owner,
  pc,        \* where the calling thread is
  call,      \* its call: number, limit, whether the deadline has passed
  session,   \* the statement it runs, what interrupted it, the hook, what is left over
  helper,    \* the watching thread: where it is, for which call, what it noted
  stop,      \* the flag that ends it
  token,     \* the cancellation token is set
  answer
vars == <<backend, owner, pc, call, session, helper, stop, token, answer>>

Limits == {"none", "timeout", "token"}
Fresh == [runs |-> "none", by |-> 0, hook |-> [limit |-> "none", n |-> 0], unread |-> FALSE, poisoned |-> FALSE]
NoHelper == [at |-> "none", n |-> 0, limit |-> "none", fired |-> FALSE, error |-> FALSE]

Init ==
  /\ backend \in Backends /\ owner \in Owners /\ pc = "idle"
  /\ call = [n |-> 0, limit |-> "none", late |-> FALSE]
  /\ session = Fresh /\ helper = NoHelper /\ stop = FALSE /\ token = FALSE /\ answer = "none"

\* The limit of call n is reached: for the present call the clock says so, an earlier
\* one's deadline may pass at any time.
Reached(limit, n) ==
  \/ limit = "timeout" /\ (n = call.n => call.late)
  \/ limit = "token" /\ token

(***************************************************************************)
(* The end of a call.  A pool replaces the connection of a failed query,   *)
(* and one that is not reusable.                                           *)
(***************************************************************************)
pool_connection_is_reusable(s) == backend = "sqlserver" => ~s.poisoned

Released(s, discard) == IF owner = "pool" /\ (discard \/ ~pool_connection_is_reusable(s)) THEN Fresh ELSE s

\* store_pool_query_result discards the lease when the query fails.
Fail(s, a) == answer' = a /\ pc' = "idle" /\ session' = Released([s EXCEPT !.runs = "none"], TRUE)
Rows(s) == answer' = "ok" /\ pc' = "idle" /\ session' = Released([s EXCEPT !.runs = "none"], FALSE)

(***************************************************************************)
(* The beginning.                                                          *)
(***************************************************************************)
Execute(limit) ==
  /\ session' = [session EXCEPT !.runs = "running", !.by = 0,
                                !.hook = IF backend = "sqlite" /\ limit # "none"
                                         THEN [limit |-> limit, n |-> call.n + 1] ELSE session.hook]
  /\ pc' = "await" /\ answer' = "none"

WithHelper(limit) ==
  IF backend \in {"postgres", "mysql"} /\ limit # "none"
  THEN helper' = [NoHelper EXCEPT !.at = "watch", !.n = call.n + 1, !.limit = limit] /\ stop' = FALSE
  ELSE UNCHANGED <<helper, stop>>

\* A token that is already set, a timeout of zero for MySQL, and a session that SQL Server
\* was left with are refused before anything is sent.
sqlserver_check_usable_always == TRUE

sqlserver_check_usable == backend = "sqlserver" => ~session.poisoned

Refused(limit, late) ==
  \/ ~sqlserver_check_usable /\ Fail(session, "retired")
  \/ sqlserver_check_usable /\ limit = "token" /\ token /\ Fail(session, "cancelled")
  \/ backend = "mysql" /\ limit = "timeout" /\ late /\ Fail(session, "timeout")

Admitted(limit, late) ==
  /\ sqlserver_check_usable /\ ~(limit = "token" /\ token)
  /\ ~(backend = "mysql" /\ limit = "timeout" /\ late)

\* The statement does not fit its parameters, or there is no helper to be had.
SetupFails == Fail(session, "error")

\* late: the timeout is zero.
Query(limit, late) ==
  /\ pc = "idle" /\ call.n < MaxCalls /\ (late => limit = "timeout")
  /\ call' = [n |-> call.n + 1, limit |-> limit, late |-> late]
  /\ \/ Refused(limit, late) /\ UNCHANGED <<helper, stop>>
     \/ Admitted(limit, late) /\ SetupFails /\ UNCHANGED <<helper, stop>>
     \/ Admitted(limit, late) /\ Execute(limit) /\ WithHelper(limit)
  /\ UNCHANGED <<backend, owner, token>>

connection_query(limit, late) == owner = "connection" /\ Query(limit, late)
prepared_query(limit, late) == owner = "prepared" /\ Query(limit, late)
transaction_query(limit, late) == owner = "transaction" /\ Query(limit, late)
pool_query(limit, late) == owner = "pool" /\ Query(limit, late)

(***************************************************************************)
(* Time, the token, and the server.                                        *)
(***************************************************************************)
Elapse ==
  /\ call.limit = "timeout" /\ ~call.late /\ pc # "idle" /\ call' = [call EXCEPT !.late = TRUE]
  /\ UNCHANGED <<backend, owner, pc, session, helper, stop, token, answer>>
Cancel ==
  /\ ~token /\ token' = TRUE
  /\ UNCHANGED <<backend, owner, pc, call, session, helper, stop, answer>>

\* The statement ends by itself; on a server, somebody else may have it stopped.
Ends(runs) ==
  /\ session.runs = "running" /\ (runs = "interrupted" => backend \in {"postgres", "mysql"})
  /\ session' = [session EXCEPT !.runs = runs, !.by = call.n]
  /\ UNCHANGED <<backend, owner, pc, call, helper, stop, token, answer>>
ServerEnds == \E runs \in {"done", "failed", "interrupted"} : Ends(runs)

\* SQLite's progress hook.
HookFires ==
  /\ session.runs = "running" /\ session.hook.limit # "none" /\ Reached(session.hook.limit, session.hook.n)
  /\ session' = [session EXCEPT !.runs = "interrupted", !.by = session.hook.n]
  /\ UNCHANGED <<backend, owner, pc, call, helper, stop, token, answer>>

(***************************************************************************)
(* The helper thread.                                                      *)
(***************************************************************************)
HelperStops ==
  /\ helper.at = "watch" /\ stop /\ helper' = [helper EXCEPT !.at = "ended"]
  /\ UNCHANGED <<backend, owner, pc, call, session, stop, token, answer>>

\* The flag was down when it looked; the flag may go up before it acts.
HelperNotes ==
  /\ helper.at = "watch" /\ ~stop /\ Reached(helper.limit, helper.n)
  /\ helper' = [helper EXCEPT !.at = "fire", !.fired = TRUE]
  /\ UNCHANGED <<backend, owner, pc, call, session, stop, token, answer>>

\* The request hits what the session runs when it arrives, or nothing; the servers have
\* delivered it when they answer.
HelperAsks ==
  /\ helper.at = "fire" /\ helper' = [helper EXCEPT !.at = "ended"]
  /\ session' = IF session.runs = "running" THEN [session EXCEPT !.runs = "interrupted", !.by = helper.n] ELSE session
  /\ UNCHANGED <<backend, owner, pc, call, stop, token, answer>>
HelperFails ==
  /\ helper.at = "fire" /\ helper' = [helper EXCEPT !.at = "ended", !.error = backend = "mysql"]
  /\ UNCHANGED <<backend, owner, pc, call, session, stop, token, answer>>

(***************************************************************************)
(* The caller gets the statement's result.                                 *)
(***************************************************************************)
Ended == pc = "await" /\ session.runs \in {"done", "failed", "interrupted"}
Limited == call.limit # "none"
Word == IF call.limit = "timeout" THEN "timeout" ELSE "cancelled"

Unhooked_onRows == IF session.runs = "done" THEN [session EXCEPT !.hook = Fresh.hook] ELSE session

Unhooked == [session EXCEPT !.hook = Fresh.hook]

\* Only the hook interrupts, so a code 9 is a timeout; a token is looked at again.
SqliteReturns ==
  /\ backend = "sqlite" /\ Ended /\ Limited
  /\ IF session.runs = "done" THEN Rows(Unhooked)
     ELSE Fail(Unhooked, IF session.runs = "interrupted" /\ (call.limit = "token" => token) THEN Word ELSE "error")
  /\ UNCHANGED <<backend, owner, call, helper, stop, token>>

StopHelper ==
  /\ backend \in {"postgres", "mysql"} /\ Ended /\ Limited
  /\ stop' = TRUE /\ pc' = "join"
  /\ UNCHANGED <<backend, owner, call, session, helper, token, answer>>

Joined_notAwaited == pc = "join"

Joined == pc = "join" /\ helper.at = "ended"

\* The result counts; the note only tells whose interruption it was.
PostgresWord_any == IF session.runs = "interrupted" THEN Word ELSE "error"

PostgresWord == IF session.runs = "interrupted" /\ helper.fired THEN Word ELSE "error"
PostgresReturns ==
  /\ backend = "postgres" /\ Joined
  /\ IF session.runs = "done" THEN Rows(session) ELSE Fail(session, PostgresWord)
  /\ helper' = [helper EXCEPT !.fired = FALSE]
  /\ UNCHANGED <<backend, owner, call, stop, token>>

\* A limit that was noted makes the query fail, whatever its result.
MySqlWord ==
  CASE helper.error -> "error"
    [] ~helper.error /\ helper.fired /\ session.runs # "failed" -> Word
    [] OTHER -> "error"
MySqlReturns ==
  /\ backend = "mysql" /\ Joined
  /\ IF session.runs = "done" /\ ~helper.error /\ ~helper.fired THEN Rows(session) ELSE Fail(session, MySqlWord)
  /\ helper' = [helper EXCEPT !.fired = FALSE, !.error = FALSE]
  /\ UNCHANGED <<backend, owner, call, stop, token>>

(***************************************************************************)
(* SQL Server: giving up leaves the answer unread and the session retired. *)
(***************************************************************************)
Abandoned_usable == [session EXCEPT !.runs = "none", !.unread = TRUE]

Abandoned == [session EXCEPT !.runs = "none", !.unread = TRUE, !.poisoned = TRUE]

SqlServerGivesUp ==
  /\ backend = "sqlserver" /\ pc \in {"await", "metadata"} /\ Reached(call.limit, call.n)
  /\ Fail(Abandoned, Word)
  /\ UNCHANGED <<backend, owner, call, helper, stop, token>>
SqlServerReturns ==
  /\ backend = "sqlserver" /\ Ended
  /\ IF session.runs = "done" THEN pc' = "metadata" /\ UNCHANGED <<session, answer>> ELSE Fail(session, "error")
  /\ UNCHANGED <<backend, owner, call, helper, stop, token>>
SqlServerMetadata ==
  /\ backend = "sqlserver" /\ pc = "metadata"
  /\ \/ pc' = "rows" /\ session' = [session EXCEPT !.unread = TRUE] /\ answer' = "ok"
     \/ Fail(Abandoned, "error")
  /\ UNCHANGED <<backend, owner, call, helper, stop, token>>

(***************************************************************************)
(* Rows.  A query without a limit, and any query of SQL Server, leaves a   *)
(* cursor; reading, closing and dropping it end the use of the session.    *)
(***************************************************************************)
CursorOpens ==
  /\ backend # "sqlserver" /\ Ended /\ ~Limited
  /\ IF session.runs = "done" THEN pc' = "rows" /\ answer' = "ok" /\ UNCHANGED session ELSE Fail(session, "error")
  /\ UNCHANGED <<backend, owner, call, helper, stop, token>>

\* Dropping SqlServerCursor before its end retires the connection; the other drivers read
\* to the end or forget the rest.
SqlServerCursor_drop_silent(s, exhausted) == s

SqlServerCursor_drop(s, exhausted) == IF backend = "sqlserver" /\ ~exhausted THEN [s EXCEPT !.poisoned = TRUE] ELSE s

finish_resultset(s, exhausted, discard) ==
  /\ session' = Released([SqlServerCursor_drop(s, exhausted) EXCEPT !.runs = "none"],
                         discard /\ backend \in {"postgres", "sqlserver"})
  /\ pc' = "idle"

\* SQL Server's cursor looks at the token before it reads.
Reads == pc = "rows" /\ ~(backend = "sqlserver" /\ call.limit = "token" /\ token)
ReadRow == Reads /\ answer' = "row" /\ UNCHANGED <<pc, session>>
ReadEnd == Reads /\ answer' = "end" /\ finish_resultset([session EXCEPT !.unread = FALSE], TRUE, FALSE)
ReadFails == Reads /\ answer' = "error" /\ finish_resultset(session, FALSE, TRUE)
ReadGivesUp ==
  /\ pc = "rows" /\ backend = "sqlserver" /\ Reached(call.limit, call.n)
  /\ answer' = Word /\ finish_resultset(session, FALSE, TRUE)
resultset_next ==
  /\ ReadRow \/ ReadEnd \/ ReadFails \/ ReadGivesUp
  /\ UNCHANGED <<backend, owner, call, helper, stop, token>>
resultset_close ==
  /\ pc = "rows" /\ finish_resultset(session, FALSE, TRUE)
  /\ UNCHANGED <<backend, owner, call, helper, stop, token, answer>>

Next ==
  \/ \E limit \in Limits, late \in BOOLEAN :
       \/ connection_query(limit, late) \/ prepared_query(limit, late)
       \/ transaction_query(limit, late) \/ pool_query(limit, late)
  \/ Elapse \/ Cancel \/ ServerEnds \/ HookFires
  \/ HelperStops \/ HelperNotes \/ HelperAsks \/ HelperFails
  \/ SqliteReturns \/ StopHelper \/ PostgresReturns \/ MySqlReturns
  \/ SqlServerGivesUp \/ SqlServerReturns \/ SqlServerMetadata
  \/ CursorOpens \/ resultset_next \/ resultset_close

Spec == Init /\ [][Next]_vars

(***************************************************************************)
(* Properties                                                              *)
(***************************************************************************)

\* A statement is stopped for its own limit only: neither a hook nor a request of an
\* earlier query reaches a later one on the same session, because the hook is removed and
\* the helper joined on every way out.
StoppedForItself == session.runs = "interrupted" => session.by = call.n

\* A query that is said to have timed out or to have been cancelled had a deadline that
\* has passed, or a token that is set; an interruption by others is not taken for one.
LimitsToldTrue ==
  /\ answer = "timeout" => call.limit = "timeout" /\ call.late
  /\ answer = "cancelled" => call.limit = "token" /\ token

\* No statement is sent on a SQL Server session that still holds an earlier answer, and a
\* pool keeps no such connection for the next caller.
NothingUnread ==
  /\ session.runs = "running" => ~session.unread
  /\ owner = "pool" /\ pc = "idle" => ~session.unread /\ ~session.poisoned

QueriesSound == StoppedForItself /\ LimitsToldTrue /\ NothingUnread
=============================================================================
