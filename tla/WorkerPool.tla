----------------------------- MODULE WorkerPool -----------------------------
(***************************************************************************)
(* The std.sync worker pool: a bounded task queue behind one mutex, two    *)
(* condition variables (`wake` for workers, `space` for submitters), an    *)
(* atomic `closed` flag that is written without the mutex, and a one-shot  *)
(* result channel per task.                                                *)
(*                                                                         *)
(* A critical section of the queue mutex is one step, except where it      *)
(* reads `closed`: the flag can change between that read and the push or   *)
(* the wait that follows it, so those are two steps with the mutex held.   *)
(***************************************************************************)
EXTENDS Naturals, Sequences, FiniteSets
LOCAL INSTANCE TLC

CONSTANTS
  Workers,          \* threads started by create_pool
  Clients,          \* threads that own one name of the pool handle each
  Tasks,            \* submissions; a task is offered at most once
  queue_capacity,   \* PoolState.queue_capacity
  Modes,            \* waiting modes of pool_enqueue the clients use
  CloseKinds,       \* how the pool ends: "close", "drop", "abort"
  MaxSpurious,      \* bound: spurious condition-variable wakeups
  NoOne             \* the queue mutex is free, a thread has no task

AllModes == {"forever", "now", "timed"}
Threads == Workers \cup Clients

ASSUME PoolAssumption ==
  /\ Workers # {} /\ Clients # {}
  /\ Workers \cap Clients = {}
  /\ NoOne \notin Workers \cup Clients \cup Tasks
  /\ queue_capacity \in Nat \ {0}
  /\ Modes \subseteq AllModes
  /\ CloseKinds \subseteq {"close", "drop", "abort"}
  /\ MaxSpurious \in Nat

VARIABLES
  qlock,      \* owner of PoolState.queue's mutex
  queue,      \* PoolState.queue
  closed,     \* PoolState.closed
  wake,       \* workers waiting on PoolState.wake
  space,      \* clients waiting on PoolState.space
  pc,         \* where each thread is
  cur,        \* the task a worker runs or a client offers
  mode,       \* how a client's submission waits
  names,      \* clients that still own a name of the handle
  handles,    \* PoolEntry.workers: join handles not yet taken
  joining,    \* join handles a closing client took
  drained,    \* tasks a client took out of the queue and has not released
  at,         \* where a task is
  taken,      \* history: tasks that entered the queue
  refs,       \* references to a task's result channel
  own,        \* tasks whose result channel a client still holds
  sent,       \* result channels that were given a value
  shut,       \* result channels that were closed
  spurious    \* spurious wakeups so far

syncVars == <<qlock, queue, closed, wake, space>>
taskVars == <<at, taken, refs, own, sent, shut>>
ownVars == <<names, handles, joining, drained>>
vars == <<syncVars, pc, cur, mode, taskVars, ownVars, spurious>>

WorkerStates == {"idle", "scan", "sleep", "asleep", "run", "finish", "exited"}
ClientStates == {"idle", "offer", "scan", "room", "blocked", "expired",
                 "cancel", "release", "abort", "store", "drain", "shut",
                 "notify", "join", "gone"}
Places == {"new", "offered", "queued", "running", "drained", "released"}

(* Every variable has its type. *)
TypeOK ==
  /\ qlock \in Threads \cup {NoOne}
  /\ queue \in Seq(Tasks)
  /\ closed \in BOOLEAN
  /\ wake \subseteq Workers
  /\ space \subseteq Clients
  /\ pc \in [Threads -> WorkerStates \cup ClientStates]
  /\ \A w \in Workers : pc[w] \in WorkerStates
  /\ \A c \in Clients : pc[c] \in ClientStates
  /\ cur \in [Threads -> Tasks \cup {NoOne}]
  /\ mode \in [Clients -> AllModes]
  /\ names \subseteq Clients
  /\ handles \subseteq Workers
  /\ joining \in [Clients -> SUBSET Workers]
  /\ drained \in [Clients -> SUBSET Tasks]
  /\ at \in [Tasks -> Places]
  /\ taken \subseteq Tasks
  /\ refs \in [Tasks -> Nat]
  /\ own \subseteq Tasks
  /\ sent \subseteq Tasks
  /\ shut \subseteq Tasks
  /\ spurious \in Nat

-----------------------------------------------------------------------------
(* Steps shared by several handlers. *)

Goto(t, where) == pc' = [pc EXCEPT ![t] = where]

(* Condvar::notify_one: any one waiter, or nobody when there is none. *)
NotifyOne(waiters) ==
  IF waiters = {} THEN {waiters} ELSE {waiters \ {t} : t \in waiters}

(* Nobody holds the mutex after `drop(queue)` or the end of a scope. *)
Lock(t) == qlock = NoOne /\ qlock' = t
Unlock(t) == qlock = t /\ qlock' = NoOne

-----------------------------------------------------------------------------
(* pool_worker and finish_pool_task *)

(* Take the mutex: at the top of the loop, or to return from wake.wait. *)
WorkerLock(w) ==
  /\ \/ pc[w] = "idle"
     \/ pc[w] = "asleep" /\ w \notin wake
  /\ Lock(w)
  /\ Goto(w, "scan")
  /\ UNCHANGED <<queue, closed, wake, space, cur, mode, taskVars, ownVars, spurious>>

WorkerPop(w) ==
  /\ pc[w] = "scan" /\ queue # <<>>
  /\ Unlock(w)
  /\ queue' = Tail(queue)
  /\ space' \in NotifyOne(space)
  /\ cur' = [cur EXCEPT ![w] = Head(queue)]
  /\ at' = [at EXCEPT ![Head(queue)] = "running"]
  /\ Goto(w, "run")
  /\ UNCHANGED <<closed, wake, mode, taken, refs, own, sent, shut, ownVars, spurious>>

WorkerExit(w) ==
  /\ pc[w] = "scan" /\ queue = <<>> /\ closed
  /\ Unlock(w)
  /\ Goto(w, "exited")
  /\ UNCHANGED <<queue, closed, wake, space, cur, mode, taskVars, ownVars, spurious>>

(* The flag was read as false; the wait has not begun. *)
WorkerFindsOpen(w) ==
  /\ pc[w] = "scan" /\ queue = <<>> /\ ~closed
  /\ Goto(w, "sleep")
  /\ UNCHANGED <<syncVars, cur, mode, taskVars, ownVars, spurious>>

(* wake.wait: join the waiters and give up the mutex, in one step. *)
WorkerSleep(w) ==
  /\ pc[w] = "sleep"
  /\ Unlock(w)
  /\ wake' = wake \cup {w}
  /\ Goto(w, "asleep")
  /\ UNCHANGED <<queue, closed, space, cur, mode, taskVars, ownVars, spurious>>

(* The callback returned; its value, if any, goes into the result channel, *)
(* which has room for one.                                                 *)
WorkerCall(w) ==
  /\ pc[w] = "run"
  /\ sent' \in {sent, sent \cup {cur[w]}}
  /\ Goto(w, "finish")
  /\ UNCHANGED <<syncVars, cur, mode, at, taken, refs, own, shut, ownVars, spurious>>

(* Close the channel, drop the pool's references, release the closure. *)
Dispose(t, shares) ==
  /\ shut' = shut \cup {t}
  /\ refs' = [refs EXCEPT ![t] = @ - shares]
  /\ at' = [at EXCEPT ![t] = "released"]
  /\ UNCHANGED <<taken, own, sent>>

WorkerRest(w) ==
  /\ cur' = [cur EXCEPT ![w] = NoOne]
  /\ Goto(w, "idle")
  /\ UNCHANGED <<syncVars, mode, ownVars, spurious>>

(* Mutant: the pool keeps its reference to the result channel. *)
WorkerFinish_leak(w) == pc[w] = "finish" /\ Dispose(cur[w], 0) /\ WorkerRest(w)

(* Mutant: the worker calls the closure again after closing the channel. *)
WorkerFinish_again(w) ==
  /\ pc[w] = "finish" /\ Dispose(cur[w], 1) /\ Goto(w, "run")
  /\ UNCHANGED <<syncVars, cur, mode, ownVars, spurious>>

WorkerFinish(w) == pc[w] = "finish" /\ Dispose(cur[w], 1) /\ WorkerRest(w)

-----------------------------------------------------------------------------
(* enqueue_pool_task and pool_enqueue, behind submit, try_submit and        *)
(* submit_timeout.  mux_pool_map's submissions are the "forever" ones.      *)

(* The result channel exists twice over: for the pool and for the caller. *)
Submit(c, t, m) ==
  /\ pc[c] = "idle" /\ c \in names
  /\ at[t] = "new"
  /\ at' = [at EXCEPT ![t] = "offered"]
  /\ refs' = [refs EXCEPT ![t] = 2]
  /\ cur' = [cur EXCEPT ![c] = t]
  /\ mode' = [mode EXCEPT ![c] = m]
  /\ Goto(c, "offer")
  /\ UNCHANGED <<syncVars, taken, own, sent, shut, ownVars, spurious>>

(* Take the mutex for the first time, or to return from space.wait. *)
ClientLock(c) ==
  /\ \/ pc[c] = "offer"
     \/ pc[c] = "blocked" /\ c \notin space
  /\ Lock(c)
  /\ Goto(c, "scan")
  /\ UNCHANGED <<queue, closed, wake, space, cur, mode, taskVars, ownVars, spurious>>

(* release_pool_task: close the channel and drop both references. *)
ReleaseOffer(c) ==
  /\ Unlock(c)
  /\ Dispose(cur[c], 2)
  /\ cur' = [cur EXCEPT ![c] = NoOne]
  /\ Goto(c, "idle")
  /\ UNCHANGED <<queue, closed, wake, space, mode, ownVars, spurious>>

ClientFindsClosed(c) == pc[c] = "scan" /\ closed /\ ReleaseOffer(c)

(* Mutant: no check of the flag before the push. *)
ClientFindsOpen_unchecked(c) ==
  /\ pc[c] = "scan"
  /\ Goto(c, "room")
  /\ UNCHANGED <<syncVars, cur, mode, taskVars, ownVars, spurious>>

(* The flag was read as false; the queue has not been touched. *)
ClientFindsOpen(c) ==
  /\ pc[c] = "scan" /\ ~closed
  /\ Goto(c, "room")
  /\ UNCHANGED <<syncVars, cur, mode, taskVars, ownVars, spurious>>

Enqueue(c) ==
  /\ Unlock(c)
  /\ queue' = Append(queue, cur[c])
  /\ at' = [at EXCEPT ![cur[c]] = "queued"]
  /\ taken' = taken \cup {cur[c]}
  /\ own' = own \cup {cur[c]}
  /\ cur' = [cur EXCEPT ![c] = NoOne]
  /\ Goto(c, "idle")
  /\ UNCHANGED <<closed, space, mode, refs, sent, shut, ownVars, spurious>>

HasRoom == Len(queue) < queue_capacity

(* Mutant: one task more than there is room for. *)
Push_overfull(c) ==
  /\ pc[c] = "room" /\ Len(queue) <= queue_capacity
  /\ Enqueue(c) /\ wake' \in NotifyOne(wake)

(* Mutant: the push wakes nobody. *)
Push_silent(c) == pc[c] = "room" /\ HasRoom /\ Enqueue(c) /\ UNCHANGED wake

Push(c) == pc[c] = "room" /\ HasRoom /\ Enqueue(c) /\ wake' \in NotifyOne(wake)

(* Ok(false): no waiting asked for, or the deadline has passed. *)
FindsFull(c) == pc[c] = "room" /\ ~HasRoom /\ mode[c] # "forever" /\ ReleaseOffer(c)

StartWait(c) ==
  /\ pc[c] = "room" /\ ~HasRoom /\ mode[c] # "now"
  /\ Unlock(c)
  /\ Goto(c, "blocked")
  /\ UNCHANGED <<queue, closed, cur, mode, taskVars, ownVars, spurious>>

(* Mutant: the submitter waits on the workers' condition variable. *)
(* space.wait or space.wait_timeout *)
Block(c) == StartWait(c) /\ space' = space \cup {c} /\ UNCHANGED wake

(* wait_timeout's clock runs out before a notification arrives. *)
Expire(c) ==
  /\ pc[c] = "blocked" /\ c \in space /\ mode[c] = "timed"
  /\ space' = space \ {c}
  /\ Goto(c, "expired")
  /\ UNCHANGED <<qlock, queue, closed, wake, cur, mode, taskVars, ownVars, spurious>>

(* Back from a timed-out wait: look again if there is room by now ... *)
ExpiredRetry(c) ==
  /\ pc[c] = "expired" /\ HasRoom
  /\ Lock(c)
  /\ Goto(c, "scan")
  /\ UNCHANGED <<queue, closed, wake, space, cur, mode, taskVars, ownVars, spurious>>

(* ... and give up if not. *)
ExpiredGiveUp(c) ==
  /\ pc[c] = "expired" /\ ~HasRoom
  /\ qlock = NoOne
  /\ Dispose(cur[c], 2)
  /\ cur' = [cur EXCEPT ![c] = NoOne]
  /\ Goto(c, "idle")
  /\ UNCHANGED <<syncVars, mode, ownVars, spurious>>

(* The caller drops a result channel it was given. *)
DropResult(t) ==
  /\ t \in own
  /\ own' = own \ {t}
  /\ refs' = [refs EXCEPT ![t] = @ - 1]
  /\ UNCHANGED <<syncVars, pc, cur, mode, at, taken, sent, shut, ownVars, spurious>>

-----------------------------------------------------------------------------
(* mux_pool_cancel_pending, close_pool, drop_pool *)

CancelPending(c) ==
  /\ pc[c] = "idle" /\ c \in names
  /\ Goto(c, "cancel")
  /\ UNCHANGED <<syncVars, cur, mode, taskVars, ownVars, spurious>>

(* mux_pool_close: close_pool with cancel_pending = false. *)
Close(c) ==
  /\ "close" \in CloseKinds
  /\ pc[c] = "idle" /\ c \in names
  /\ Goto(c, "store")
  /\ UNCHANGED <<syncVars, cur, mode, taskVars, ownVars, spurious>>

(* drop_pool: the last name removes the entry and closes with cancel_pending. *)
DropName(c) ==
  /\ "drop" \in CloseKinds
  /\ pc[c] = "idle" /\ c \in names
  /\ names' = names \ {c}
  /\ Goto(c, IF names = {c} THEN "store" ELSE "gone")
  /\ UNCHANGED <<syncVars, cur, mode, taskVars, handles, joining, drained, spurious>>

(* closed.store(true), without the queue mutex *)
StoreClosed(c) ==
  /\ pc[c] \in {"store", "abort"}
  /\ closed' = TRUE
  /\ Goto(c, IF pc[c] = "abort" \/ c \in names THEN "notify" ELSE "drain")
  /\ UNCHANGED <<qlock, queue, wake, space, cur, mode, taskVars, ownVars, spurious>>

(* queue.drain(..) and space.notify_all() in one critical section *)
Drain(c) ==
  /\ pc[c] \in {"cancel", "drain"} /\ qlock = NoOne
  /\ drained' = [drained EXCEPT ![c] = {t \in Tasks : at[t] = "queued"}]
  /\ at' = [t \in Tasks |-> IF at[t] = "queued" THEN "drained" ELSE at[t]]
  /\ queue' = <<>>
  /\ space' = {}
  /\ Goto(c, IF pc[c] = "cancel" THEN "release" ELSE "shut")
  /\ UNCHANGED <<qlock, closed, wake, cur, mode, taken, refs, own, sent,
                 shut, names, handles, joining, spurious>>

(* One turn of the loop over the drained tasks. *)
ReleaseDrained(c, t) ==
  /\ pc[c] \in {"release", "shut"} /\ t \in drained[c]
  /\ drained' = [drained EXCEPT ![c] = @ \ {t}]
  /\ Dispose(t, 1)
  /\ UNCHANGED <<syncVars, pc, cur, mode, names, handles, joining, spurious>>

AllReleased(c) ==
  /\ pc[c] \in {"release", "shut"} /\ drained[c] = {}
  /\ Goto(c, IF pc[c] = "release" THEN "idle" ELSE "notify")
  /\ UNCHANGED <<syncVars, cur, mode, taskVars, ownVars, spurious>>

TakeHandles(c) ==
  /\ pc[c] = "notify"
  /\ joining' = [joining EXCEPT ![c] = handles]
  /\ handles' = {}
  /\ Goto(c, "join")
  /\ UNCHANGED <<qlock, queue, closed, space, cur, mode, taskVars, names, drained, spurious>>

(* Mutant: only one sleeping worker is told. *)
NotifyAll_one(c) == TakeHandles(c) /\ wake' \in NotifyOne(wake)

(* wake.notify_all(), again without the mutex; then take the join handles. *)
NotifyAll(c) == TakeHandles(c) /\ wake' = {}

EndClose(c) ==
  /\ pc[c] = "join"
  /\ joining' = [joining EXCEPT ![c] = {}]
  /\ Goto(c, IF c \in names THEN "idle" ELSE "gone")
  /\ UNCHANGED <<syncVars, cur, mode, taskVars, names, handles, drained, spurious>>

(* Mutant: the handles are dropped, which detaches the threads. *)
Join_detach(c) == EndClose(c)

Join(c) == EndClose(c) /\ \A w \in joining[c] : pc[w] = "exited"

(* A condition variable may wake a waiter that nobody notified. *)
SpuriousWakeup(t) ==
  /\ t \in wake \cup space /\ spurious < MaxSpurious
  /\ wake' = wake \ {t}
  /\ space' = space \ {t}
  /\ spurious' = spurious + 1
  /\ UNCHANGED <<qlock, queue, closed, pc, cur, mode, taskVars, ownVars>>

-----------------------------------------------------------------------------
(* create_pool: every worker started, or some thread could not be spawned   *)
(* and the caller stops the ones that were before returning an error.       *)

InitCreated ==
  /\ names = Clients
  /\ handles = Workers
  /\ pc = [t \in Threads |-> "idle"]

InitSpawnFailed ==
  /\ "abort" \in CloseKinds
  /\ \E c \in Clients, started \in SUBSET Workers :
       /\ started # Workers
       /\ names = {}
       /\ handles = started
       /\ pc = [t \in Threads |-> CASE t = c -> "abort"
                                    [] t \in started -> "idle"
                                    [] t \in Workers \ started -> "exited"
                                    [] t \in Clients \ {c} -> "gone"]

Init ==
  /\ InitCreated \/ InitSpawnFailed
  /\ qlock = NoOne /\ queue = <<>> /\ closed = FALSE
  /\ wake = {} /\ space = {}
  /\ cur = [t \in Threads |-> NoOne]
  /\ mode = [c \in Clients |-> "forever"]
  /\ joining = [c \in Clients |-> {}]
  /\ drained = [c \in Clients |-> {}]
  /\ at = [t \in Tasks |-> "new"]
  /\ refs = [t \in Tasks |-> 0]
  /\ taken = {} /\ own = {} /\ sent = {} /\ shut = {}
  /\ spurious = 0

WorkerStep(w) ==
  \/ WorkerLock(w) \/ WorkerPop(w) \/ WorkerExit(w) \/ WorkerFindsOpen(w)
  \/ WorkerSleep(w) \/ WorkerCall(w) \/ WorkerFinish(w)

(* A call begins; the program decides when. *)
ClientCall(c) ==
  \/ \E t \in Tasks, m \in Modes : Submit(c, t, m)
  \/ CancelPending(c) \/ Close(c) \/ DropName(c)

(* A call that has begun goes on. *)
ClientStep(c) ==
  \/ ClientLock(c) \/ ClientFindsClosed(c) \/ ClientFindsOpen(c) \/ Push(c)
  \/ FindsFull(c) \/ Block(c) \/ Expire(c) \/ ExpiredRetry(c) \/ ExpiredGiveUp(c)
  \/ StoreClosed(c) \/ Drain(c) \/ (\E t \in Tasks : ReleaseDrained(c, t))
  \/ AllReleased(c) \/ NotifyAll(c) \/ Join(c)

Next ==
  \/ \E w \in Workers : WorkerStep(w)
  \/ \E c \in Clients : ClientCall(c) \/ ClientStep(c)
  \/ \E t \in Tasks : DropResult(t)
  \/ \E t \in Threads : SpuriousWakeup(t)

Spec == Init /\ [][Next]_vars

(* The scheduler runs every started thread and callbacks return; nothing    *)
(* forces a client to begin another call.                                   *)
Fairness ==
  /\ \A w \in Workers : WF_vars(WorkerStep(w))
  /\ \A c \in Clients : WF_vars(ClientStep(c))

FairSpec == Spec /\ Fairness

-----------------------------------------------------------------------------
(* Safety *)

AllExited == \A w \in Workers : pc[w] = "exited"

(* A worker leaves only when it finds the queue empty and the pool closed, *)
(* and a submitter pushes only after it read the pool as open under the    *)
(* same mutex: when the last worker has gone no accepted task is left in   *)
(* the queue or half done, although `closed` is set without the mutex.     *)
NoTaskStranded ==
  AllExited => \A t \in Tasks : at[t] \notin {"queued", "running"}

(* The queue holds each accepted, unstarted task once and never more than  *)
(* queue_capacity of them, whichever mix of submitters raced for the room. *)
QueueExact ==
  /\ Len(queue) <= queue_capacity
  /\ {queue[i] : i \in 1..Len(queue)} = {t \in Tasks : at[t] = "queued"}
  /\ \A i, j \in 1..Len(queue) : queue[i] = queue[j] => i = j

(* Result-channel references are balanced on every path (run, rejected,    *)
(* cancelled, closed): the pool's share lives exactly while the task is    *)
(* queued, running or drained, the caller's until the caller drops it.     *)
PoolShare(t) == IF at[t] \in {"offered", "queued", "running", "drained"} THEN 1 ELSE 0
CallerShare(t) == IF at[t] = "offered" \/ t \in own THEN 1 ELSE 0
RefsBalanced ==
  \A t \in Tasks :
    /\ refs[t] = PoolShare(t) + CallerShare(t)
    /\ at[t] = "released" <=> t \in shut

(* Once the last name has been dropped and drop_pool has returned, every   *)
(* worker has been joined, even if other clients had closed the pool       *)
(* before and taken the join handles themselves.                           *)
DropJoinsWorkers ==
  (\A c \in Clients : pc[c] = "gone") => AllExited

(* What pool_enqueue, pool_worker and close_pool keep true at every moment:  *)
(* an exact queue, balanced channel references, and no worker after a drop.  *)
PoolSound == TypeOK /\ QueueExact /\ RefsBalanced /\ DropJoinsWorkers

(* A result channel receives its value before it is closed, never after,   *)
(* and a released task is not touched again.                               *)
AnsweredOnce ==
  [][\A t \in Tasks : at[t] = "released" =>
       /\ at'[t] = "released"
       /\ t \in sent' <=> t \in sent]_vars

-----------------------------------------------------------------------------
(* The pool implements the task service.  A released task was refused if    *)
(* the pool never took it, which `taken` remembers.                         *)

phaseMap == [t \in Tasks |->
  CASE at[t] = "new"      -> "unknown"
    [] at[t] = "offered"  -> "offered"
    [] at[t] = "queued"   -> "taken"
    [] at[t] = "running"  -> "started"
    [] at[t] = "drained"  -> "withdrawn"
    [] OTHER -> IF t \in taken THEN "answered" ELSE "refused"]

Service == INSTANCE TaskService
             WITH phase <- phaseMap, retired <- AllExited

(* The pool is a task service: a refused task never runs, an accepted one   *)
(* is run or cancelled, and the workers leave only when none is waiting.    *)
ImplementsService == Service!Spec

-----------------------------------------------------------------------------
(* Liveness *)

(* Every submission is answered: rejected, run or cancelled. *)
EverySubmissionAnswered ==
  \A t \in Tasks : at[t] = "offered" ~> at[t] = "released"

(* A client that closes or drops the pool gets its thread back. *)
CloseReturns ==
  \A c \in Clients : pc[c] \in {"store", "abort"} ~> pc[c] \in {"idle", "gone"}

\* Workers, clients and tasks are interchangeable: a reduction for safety runs.
Symmetry == Permutations(Workers) \cup Permutations(Clients) \cup Permutations(Tasks)
=============================================================================
