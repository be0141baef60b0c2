------------------------------- MODULE SqlPool -------------------------------
(***************************************************************************)
(* The std.sql connection pool: counters and idle connections behind one   *)
(* mutex, a condition variable for threads that wait for a connection, and *)
(* leases that give a connection back when they are dropped.               *)
(*                                                                         *)
(* A critical section is one step.  The mutex is free while a thread opens *)
(* a new connection, which is why the slot is counted before the attempt   *)
(* and given back when it fails or finds the pool closed.                  *)
(***************************************************************************)
EXTENDS Naturals, FiniteSets

CONSTANTS
  Clients,          \* threads that use the pool
  Slots,            \* leases one thread may hold at the same time
  max_connections,  \* PoolInner.max_connections
  Timed,            \* clients whose pool handle has an acquire timeout
  MaxCalls,         \* bound: acquisitions per client
  MaxSpurious       \* bound: spurious condition-variable wakeups

ASSUME SqlPoolAssumption ==
  /\ IsFiniteSet(Clients) /\ IsFiniteSet(Slots)
  /\ Timed \subseteq Clients
  /\ max_connections \in 1..64
  /\ MaxCalls \in Nat /\ MaxSpurious \in Nat

VARIABLES
  idle,      \* PoolInner.idle: how many connections are at rest
  total,     \* PoolInner.total
  in_use,    \* PoolInner.in_use
  waiters,   \* PoolInner.waiters
  closed,    \* PoolInner.closed
  pc,        \* where each client is
  want,      \* what the client's call is: a statement or a query
  held,      \* live PoolLeases: <<owner, slot>>
  names,     \* PoolEntry.names: clients that own a name of the handle
  calls,     \* acquisitions begun, per client
  spurious   \* spurious wakeups so far

counters == <<idle, total, in_use, waiters, closed>>
vars == <<counters, pc, want, held, names, calls, spurious>>

(* idle: outside the pool; enter: before the mutex of the first attempt;    *)
(* waiting: in wake.wait; woken, expired: back from the wait, before the    *)
(* mutex; connect: opening a connection without the mutex; using: running   *)
(* the statement or query on the leased connection.                         *)
States == {"idle", "enter", "waiting", "woken", "expired", "connect", "using"}

At(where) == {c \in Clients : pc[c] = where}

(* Every variable has its type. *)
TypeOK ==
  /\ idle \in Nat /\ total \in Nat /\ in_use \in Nat /\ waiters \in Nat
  /\ closed \in BOOLEAN
  /\ pc \in [Clients -> States]
  /\ want \in [Clients -> {"statement", "query"}]
  /\ held \subseteq Clients \X Slots
  /\ names \subseteq Clients
  /\ calls \in [Clients -> Nat]
  /\ spurious \in Nat

(* usize::saturating_sub(1) *)
Pred(n) == IF n = 0 THEN 0 ELSE n - 1

(* Condvar::notify_one and notify_all, after the thread itself went on. *)
NotifyOne(c, where) ==
  LET moved == [pc EXCEPT ![c] = where]
      asleep == {d \in Clients : moved[d] = "waiting"}
  IN  IF asleep = {} THEN {moved} ELSE {[moved EXCEPT ![d] = "woken"] : d \in asleep}

NotifyAll(c, where) ==
  [d \in Clients |-> CASE d = c -> where
                       [] d # c /\ pc[d] = "waiting" -> "woken"
                       [] OTHER -> pc[d]]

Goto(c, where) == pc' = [pc EXCEPT ![c] = where]

-----------------------------------------------------------------------------
(* The callers of the pool *)

(* A call begins: its arguments are in order and the handle is live. *)
Begins(c, what) ==
  /\ pc[c] = "idle" /\ c \in names
  /\ calls[c] < MaxCalls /\ \E s \in Slots : <<c, s>> \notin held
  /\ calls' = [calls EXCEPT ![c] = @ + 1]
  /\ want' = [want EXCEPT ![c] = what]
  /\ Goto(c, "enter")
  /\ UNCHANGED <<counters, held, names, spurious>>

PoolExecute(c) == Begins(c, "statement")
PoolQuery(c) == Begins(c, "query")

-----------------------------------------------------------------------------
(* acquire_pool_connection *)

(* The top of the loop, with the mutex: the first time or after a wait. *)
Enters(c) == pc[c] \in {"enter", "woken"}

(* waiters -= 1 after a wait *)
WaitersLeft(c) == IF pc[c] = "woken" THEN Pred(waiters) ELSE waiters

(* Mutant: only the first round of the loop looks at the flag. *)
FindsClosed_once(c) ==
  /\ pc[c] = "enter" /\ closed
  /\ waiters' = WaitersLeft(c)
  /\ Goto(c, "idle")
  /\ UNCHANGED <<idle, total, in_use, closed, held, names, calls, want, spurious>>

FindsClosed(c) ==
  /\ Enters(c) /\ closed
  /\ waiters' = WaitersLeft(c)
  /\ Goto(c, "idle")
  /\ UNCHANGED <<idle, total, in_use, closed, held, names, calls, want, spurious>>

(* The lease is the client's once the mutex is dropped. *)
Lease(c) == \E s \in Slots : <<c, s>> \notin held /\ held' = held \cup {<<c, s>>}

(* Mutant: a connection is taken whether one is at rest or not. *)
PopIdle(c) ==
  /\ Enters(c) /\ ~closed /\ idle > 0
  /\ idle' = idle - 1
  /\ in_use' = in_use + 1
  /\ Lease(c)
  /\ waiters' = WaitersLeft(c)
  /\ Goto(c, "using")
  /\ UNCHANGED <<total, closed, names, calls, want, spurious>>

HasSlot == total < max_connections

(* Mutant: the slot is counted only after the connection was opened. *)
OpenSlot_late(c) ==
  /\ Enters(c) /\ ~closed /\ idle = 0 /\ HasSlot
  /\ waiters' = WaitersLeft(c)
  /\ Goto(c, "connect")
  /\ UNCHANGED <<idle, total, in_use, closed, held, names, calls, want, spurious>>

(* The slot is counted, then the mutex is released to open the connection. *)
OpenSlot(c) ==
  /\ Enters(c) /\ ~closed /\ idle = 0 /\ HasSlot
  /\ total' = total + 1
  /\ in_use' = in_use + 1
  /\ waiters' = WaitersLeft(c)
  /\ Goto(c, "connect")
  /\ UNCHANGED <<idle, closed, held, names, calls, want, spurious>>

(* `elapsed >= timeout`: an error before the first wait or a repeated one. *)
FindsElapsed(c) ==
  /\ Enters(c) /\ ~closed /\ idle = 0 /\ ~HasSlot
  /\ c \in Timed
  /\ waiters' = WaitersLeft(c)
  /\ Goto(c, "idle")
  /\ UNCHANGED <<idle, total, in_use, closed, held, names, calls, want, spurious>>

(* wake.wait or wake.wait_timeout *)
Waits(c) ==
  /\ Enters(c) /\ ~closed /\ idle = 0 /\ ~HasSlot
  /\ waiters' = WaitersLeft(c) + 1
  /\ Goto(c, "waiting")
  /\ UNCHANGED <<idle, total, in_use, closed, held, names, calls, want, spurious>>

(* The clock of wait_timeout runs out before a notification arrives ... *)
Expires(c) ==
  /\ pc[c] = "waiting" /\ c \in Timed
  /\ Goto(c, "expired")
  /\ UNCHANGED <<counters, held, names, calls, want, spurious>>

(* ... and the client gives up without another look at the pool. *)
GivesUp(c) ==
  /\ pc[c] = "expired"
  /\ waiters' = Pred(waiters)
  /\ Goto(c, "idle")
  /\ UNCHANGED <<idle, total, in_use, closed, held, names, calls, want, spurious>>

(* Mutant: the flag is not looked at again after the connection was opened. *)
Connected_unchecked(c) ==
  /\ pc[c] = "connect"
  /\ Lease(c)
  /\ Goto(c, "using")
  /\ UNCHANGED <<counters, names, calls, want, spurious>>

(* route_connect_failure has returned and the mutex is taken again. *)
Connected(c) ==
  /\ pc[c] = "connect" /\ ~closed
  /\ Lease(c)
  /\ Goto(c, "using")
  /\ UNCHANGED <<counters, names, calls, want, spurious>>

(* The slot goes back; the connection, if there is one, is dropped. *)
ReturnSlot ==
  /\ total' = Pred(total)
  /\ in_use' = Pred(in_use)
  /\ UNCHANGED <<idle, waiters, closed, held, names, calls, want, spurious>>

ConnectedTooLate(c) ==
  /\ pc[c] = "connect" /\ closed
  /\ ReturnSlot
  /\ pc' = NotifyAll(c, "idle")

(* Mutant: the freed slot is offered to nobody. *)
ConnectFails_silent(c) == pc[c] = "connect" /\ ReturnSlot /\ Goto(c, "idle")

ConnectFails(c) == pc[c] = "connect" /\ ReturnSlot /\ pc' \in NotifyOne(c, "idle")

-----------------------------------------------------------------------------
(* PoolLease::release, close_pool_state and the handle *)

(* Mutant: a released connection is put to rest although the pool closed. *)
(* The connection goes back, unless it was discarded or poisoned (retire)   *)
(* or the pool is closed.                                                   *)
Release(c, retire) ==
  /\ \E s \in Slots : <<c, s>> \in held /\ held' = held \ {<<c, s>>}
  /\ in_use' = Pred(in_use)
  /\ IF closed \/ retire THEN total' = Pred(total) /\ UNCHANGED idle
                         ELSE idle' = idle + 1 /\ UNCHANGED total
  /\ pc' \in NotifyOne(c, "idle")
  /\ UNCHANGED <<waiters, closed, names, calls, want, spurious>>

(* with_pool_connection drops its lease; the connection may be poisoned. *)
StatementEnds(c) ==
  /\ pc[c] = "using" /\ want[c] = "statement"
  /\ \E poisoned \in BOOLEAN : Release(c, poisoned)

(* A query that fails to start retires its connection ... *)
QueryFails(c) == pc[c] = "using" /\ want[c] = "query" /\ Release(c, TRUE)

(* ... one that starts leaves the lease with the result set ... *)
QueryOpens(c) ==
  /\ pc[c] = "using" /\ want[c] = "query"
  /\ Goto(c, "idle")
  /\ UNCHANGED <<counters, held, names, calls, want, spurious>>

(* ... until that is closed, dropped or read to its end. *)
ResultSetEnds(c) ==
  /\ pc[c] = "idle"
  /\ \E poisoned \in BOOLEAN : Release(c, poisoned)

CloseState(c) ==
  /\ closed' = TRUE
  /\ idle' = 0
  /\ total' = in_use
  /\ pc' = NotifyAll(c, "idle")
  /\ UNCHANGED <<in_use, waiters, held, calls, want, spurious>>

Close(c) == pc[c] = "idle" /\ c \in names /\ CloseState(c) /\ UNCHANGED names

(* copy_pool_handle: another client gets a name of its own. *)
CopyName(c, d) ==
  /\ pc[c] = "idle" /\ c \in names /\ d \notin names
  /\ names' = names \cup {d}
  /\ UNCHANGED <<counters, pc, want, held, calls, spurious>>

(* drop_pool_handle: the last name takes the entry out and closes the pool. *)
DropName(c) ==
  /\ pc[c] = "idle" /\ c \in names
  /\ names' = names \ {c}
  /\ IF names = {c} THEN CloseState(c)
                    ELSE UNCHANGED <<counters, pc, want, held, calls, spurious>>

SpuriousWakeup(c) ==
  /\ pc[c] = "waiting" /\ spurious < MaxSpurious
  /\ spurious' = spurious + 1
  /\ Goto(c, "woken")
  /\ UNCHANGED <<counters, held, names, calls, want>>

-----------------------------------------------------------------------------
(* mux_sql_pool_from_config: one connection is opened before the pool is. *)
Init ==
  /\ idle = 1 /\ total = 1 /\ in_use = 0 /\ waiters = 0
  /\ closed = FALSE
  /\ pc = [c \in Clients |-> "idle"]
  /\ want = [c \in Clients |-> "statement"]
  /\ held = {}
  /\ names \in (SUBSET Clients) \ {{}}
  /\ calls = [c \in Clients |-> 0]
  /\ spurious = 0

Acquire(c) ==
  FindsClosed(c) \/ PopIdle(c) \/ OpenSlot(c) \/ FindsElapsed(c) \/ Waits(c)

(* The rest of a call that has begun. *)
Continue(c) ==
  \/ Acquire(c) \/ GivesUp(c)
  \/ Connected(c) \/ ConnectedTooLate(c) \/ ConnectFails(c)
  \/ StatementEnds(c) \/ QueryFails(c) \/ QueryOpens(c)

Next ==
  \E c \in Clients :
    \/ PoolExecute(c) \/ PoolQuery(c) \/ Continue(c) \/ ResultSetEnds(c)
    \/ Close(c) \/ DropName(c) \/ \E d \in Clients : CopyName(c, d)
    \/ Expires(c) \/ SpuriousWakeup(c)

Spec == Init /\ [][Next]_vars

(* Threads in the middle of a call are scheduled, connection attempts end,  *)
(* and result sets are closed or read to their end.                         *)
FairSpec == Spec /\ \A c \in Clients : WF_vars(Continue(c)) /\ WF_vars(ResultSetEnds(c))

-----------------------------------------------------------------------------
(* The counters say what is out there, open or closed, whatever happened    *)
(* while the mutex was free for a connection attempt: no slot is lost when  *)
(* an attempt fails, none is counted twice, max_connections is never        *)
(* exceeded, and no saturating_sub ever saturates.                          *)
Asleep == {c \in Clients : pc[c] \in {"waiting", "woken", "expired"}}
Accounting ==
  /\ in_use = Cardinality(held) + Cardinality(At("connect"))
  /\ total = idle + in_use
  /\ total <= max_connections
  /\ waiters = Cardinality(Asleep)

(* No lost wakeup: while threads sleep, every connection at rest and every  *)
(* free slot has an awakened thread on its way to it.                       *)
NoWakeupLost ==
  ~closed /\ At("waiting") # {} =>
    idle + (max_connections - total) <= Cardinality(At("woken"))

(* Nobody sleeps in a closed pool and no connection rests in it; what is    *)
(* still counted is out on lease or being opened.                           *)
ClosedIsEmpty == closed => At("waiting") = {} /\ idle = 0 /\ total = in_use

(* A closed pool grants no lease, not even for a connection whose opening   *)
(* began before it was closed, and it is never reopened.                    *)
NoLeaseAfterClose == [][closed => closed' /\ held' \subseteq held]_vars

(* Every thread that waits for a connection is answered. *)
WaiterAnswered == \A c \in Clients : pc[c] = "waiting" ~> pc[c] = "idle"
=============================================================================
