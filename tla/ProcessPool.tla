----------------------------- MODULE ProcessPool -----------------------------
(***************************************************************************)
(* The process pool of src/process.rs: a bounded queue of commands, worker *)
(* threads that run them, and a result channel for each.  A critical       *)
(* section of the queue's mutex is one step, except that a worker which    *)
(* found the pool open goes to sleep in a second one: `closed` is stored   *)
(* and `wake` is notified without the mutex.                               *)
(*                                                                         *)
(* Every submitter owns a name of the pool and submits one command.        *)
(***************************************************************************)
EXTENDS Naturals, Sequences, FiniteSets

CONSTANTS Workers, Submitters, queue_capacity, Nobody

\* create_process_pool starts at least one worker.
ASSUME ProcessPoolAssumption ==
  Workers # {} /\ Workers \cap Submitters = {} /\ Nobody \notin Workers \cup Submitters

VARIABLES queue, pool_closed,
          dozing,          \* worker that holds the mutex between its check and its wait
          wake, space,     \* threads that wait on the condition variables
          stage, cur,
          owners,          \* submitters that still own a name
          handles, joining,
          refs, sent, shut, \* per command: references to its channel, value sent, closed
          own              \* submitters that hold the channel of their command

chans == <<refs, sent, shut>>
processVars == <<queue, pool_closed, dozing, wake, space, stage, cur, owners, handles, joining, chans, own>>

ProcessInit ==
  /\ queue = <<>> /\ pool_closed = FALSE /\ dozing = Nobody
  /\ wake = {} /\ space = {}
  /\ stage = [x \in Workers \cup Submitters |-> IF x \in Workers THEN "scan" ELSE "new"]
  /\ cur = [w \in Workers |-> Nobody]
  /\ owners = Submitters /\ handles = Workers /\ joining = [c \in Submitters |-> {}]
  /\ refs = [c \in Submitters |-> 0] /\ sent = {} /\ shut = {} /\ own = {}

Becomes(x, l) == stage' = [stage EXCEPT ![x] = l]
Free == dozing = Nobody
WakesOne(ws) == IF ws = {} THEN {{}} ELSE {ws \ {x} : x \in ws}
Queued == {queue[i] : i \in DOMAIN queue}

-----------------------------------------------------------------------------
(* process_pool_worker *)

WorkerReady(w) == stage[w] = "scan" \/ (stage[w] = "asleep" /\ w \notin wake)

WorkerPop(w) ==
  /\ WorkerReady(w) /\ Free /\ queue # <<>>
  /\ queue' = Tail(queue)
  /\ space' \in WakesOne(space)
  /\ cur' = [cur EXCEPT ![w] = Head(queue)]
  /\ Becomes(w, "run")
  /\ UNCHANGED <<pool_closed, dozing, wake, owners, handles, joining, chans, own>>

WorkerExit(w) ==
  /\ WorkerReady(w) /\ Free /\ queue = <<>> /\ pool_closed
  /\ Becomes(w, "exited")
  /\ UNCHANGED <<queue, pool_closed, dozing, wake, space, cur, owners, handles, joining, chans, own>>

WorkerFindsOpen(w) ==
  /\ WorkerReady(w) /\ Free /\ queue = <<>> /\ ~ pool_closed
  /\ dozing' = w
  /\ Becomes(w, "doze")
  /\ UNCHANGED <<queue, pool_closed, wake, space, cur, owners, handles, joining, chans, own>>

WorkerSleep(w) ==
  /\ stage[w] = "doze"
  /\ dozing' = Nobody
  /\ wake' = wake \cup {w}
  /\ Becomes(w, "asleep")
  /\ UNCHANGED <<queue, pool_closed, space, cur, owners, handles, joining, chans, own>>

(* The command ran, or could not be run: either way its channel gets a
   value, is closed, and the task's reference to it goes. *)
WorkerFinish_open(w) ==
  /\ stage[w] = "run"
  /\ sent' = sent \cup {cur[w]}
  /\ UNCHANGED shut
  /\ refs' = [refs EXCEPT ![cur[w]] = @ - 1]
  /\ cur' = [cur EXCEPT ![w] = Nobody]
  /\ Becomes(w, "scan")
  /\ UNCHANGED <<queue, pool_closed, dozing, wake, space, owners, handles, joining, own>>

WorkerFinish(w) ==
  /\ stage[w] = "run"
  /\ sent' = sent \cup {cur[w]}
  /\ shut' = shut \cup {cur[w]}
  /\ refs' = [refs EXCEPT ![cur[w]] = @ - 1]
  /\ cur' = [cur EXCEPT ![w] = Nobody]
  /\ Becomes(w, "scan")
  /\ UNCHANGED <<queue, pool_closed, dozing, wake, space, owners, handles, joining, own>>

-----------------------------------------------------------------------------
(* enqueue_process_pool_task and process_pool_enqueue *)

Submit(c, limit) ==
  /\ stage[c] = "new" /\ c \in owners
  /\ refs' = [refs EXCEPT ![c] = 2]
  /\ Becomes(c, limit)
  /\ UNCHANGED <<queue, pool_closed, dozing, wake, space, cur, owners, handles, joining, sent, shut, own>>

SubmitForever(c) == Submit(c, "forever")
TrySubmit(c)     == Submit(c, "now")
SubmitTimeout(c) == Submit(c, "timed")

(* Refused, or out of time: the channel is closed and both references go. *)
GiveUp_keepsOne(c) ==
  /\ shut' = shut \cup {c} /\ refs' = [refs EXCEPT ![c] = 1]
  /\ Becomes(c, "idle")
  /\ UNCHANGED <<queue, pool_closed, dozing, wake, space, cur, owners, handles, joining, sent, own>>

GiveUp(c) ==
  /\ shut' = shut \cup {c} /\ refs' = [refs EXCEPT ![c] = 0]
  /\ Becomes(c, "idle")
  /\ UNCHANGED <<queue, pool_closed, dozing, wake, space, cur, owners, handles, joining, sent, own>>

(* A timeout that is negative or too large is refused before the queue is looked at. *)
SubmitInvalid(c) == stage[c] = "new" /\ c \in owners /\ GiveUp(c)

Offering(c) == stage[c] \in {"forever", "now", "timed"} /\ c \notin space /\ Free

OfferRefused(c) == Offering(c) /\ pool_closed /\ GiveUp(c)

OfferTaken(c) ==
  /\ Offering(c) /\ ~ pool_closed /\ Len(queue) < queue_capacity
  /\ queue' = Append(queue, c)
  /\ wake' \in WakesOne(wake)
  /\ own' = own \cup {c}
  /\ Becomes(c, "idle")
  /\ UNCHANGED <<pool_closed, dozing, space, cur, owners, handles, joining, chans>>

OfferWaits(c) ==
  /\ Offering(c) /\ ~ pool_closed /\ Len(queue) >= queue_capacity /\ stage[c] # "now"
  /\ space' = space \cup {c}
  /\ UNCHANGED <<queue, pool_closed, dozing, wake, stage, cur, owners, handles, joining, chans, own>>

OfferNoRoom(c) ==
  /\ ~ pool_closed /\ Len(queue) >= queue_capacity
  /\ stage[c] \in {"now", "timed"} /\ Offering(c)
  /\ GiveUp(c)

(* The wait runs out; the queue is looked at once more. *)
Expire(c) ==
  /\ c \in space /\ stage[c] = "timed"
  /\ space' = space \ {c}
  /\ UNCHANGED <<queue, pool_closed, dozing, wake, stage, cur, owners, handles, joining, chans, own>>

(* The caller drops the channel it was given. *)
DropChannel(c) ==
  /\ c \in own
  /\ own' = own \ {c}
  /\ refs' = [refs EXCEPT ![c] = @ - 1]
  /\ UNCHANGED <<queue, pool_closed, dozing, wake, space, stage, cur, owners, handles, joining, sent, shut>>

-----------------------------------------------------------------------------
(* cancel_pending, close, and the drop of the last name *)

Drain ==
  /\ Free
  /\ queue' = <<>>
  /\ space' = {}
  /\ shut' = shut \cup Queued
  /\ refs' = [c \in Submitters |-> refs[c] - (IF c \in Queued THEN 1 ELSE 0)]

CancelPending(c) ==
  /\ stage[c] \in {"new", "idle"} /\ c \in owners
  /\ Drain
  /\ UNCHANGED <<pool_closed, dozing, wake, stage, cur, owners, handles, joining, sent, own>>

(* close: store the flag, notify, take the handles, join them. *)
ClosePool(c) ==
  /\ stage[c] = "idle" /\ c \in owners
  /\ pool_closed' = TRUE
  /\ Becomes(c, "notify")
  /\ UNCHANGED <<queue, dozing, wake, space, cur, owners, handles, joining, chans, own>>

DropPool(c) ==
  /\ stage[c] = "idle" /\ c \in owners
  /\ owners' = owners \ {c}
  /\ IF owners = {c}
     THEN pool_closed' = TRUE /\ Becomes(c, "drain")
     ELSE Becomes(c, "gone") /\ UNCHANGED pool_closed
  /\ UNCHANGED <<queue, dozing, wake, space, cur, handles, joining, chans, own>>

DrainOnDrop(c) ==
  /\ stage[c] = "drain"
  /\ Drain
  /\ Becomes(c, "notify")
  /\ UNCHANGED <<pool_closed, dozing, wake, cur, owners, handles, joining, sent, own>>

NotifyWorkers(c) ==
  /\ stage[c] = "notify"
  /\ wake' = {}
  /\ joining' = [joining EXCEPT ![c] = handles] /\ handles' = {}
  /\ Becomes(c, "join")
  /\ UNCHANGED <<queue, pool_closed, dozing, space, cur, owners, chans, own>>

Joined(c) ==
  /\ stage[c] = "join" /\ \A w \in joining[c] : stage[w] = "exited"
  /\ joining' = [joining EXCEPT ![c] = {}]
  /\ Becomes(c, IF c \in owners THEN "idle" ELSE "gone")
  /\ UNCHANGED <<queue, pool_closed, dozing, wake, space, cur, owners, handles, chans, own>>

WorkerStep(w) == WorkerPop(w) \/ WorkerExit(w) \/ WorkerFindsOpen(w) \/ WorkerSleep(w) \/ WorkerFinish(w)

OfferStep(c) == OfferRefused(c) \/ OfferTaken(c) \/ OfferWaits(c) \/ OfferNoRoom(c)
CloseStep(c) == DrainOnDrop(c) \/ NotifyWorkers(c) \/ Joined(c)

ProcessNext ==
  \/ \E w \in Workers : WorkerStep(w)
  \/ \E c \in Submitters : \/ SubmitForever(c) \/ TrySubmit(c) \/ SubmitTimeout(c) \/ SubmitInvalid(c)
                        \/ OfferStep(c) \/ Expire(c) \/ DropChannel(c)
                        \/ CancelPending(c) \/ ClosePool(c) \/ DropPool(c) \/ CloseStep(c)

ProcessSpec == ProcessInit /\ [][ProcessNext]_processVars

-----------------------------------------------------------------------------
Accepted(c) == stage[c] \in {"idle", "notify", "join", "drain", "gone"}
Running == {cur[w] : w \in Workers} \ {Nobody}

(* Every command is in the queue, with one worker, or settled, never in two
   places; a settled command's channel is closed, so that its receiver gets a
   value or the end; and no channel is closed while its command may still run. *)
CommandSettledOnce ==
  \A c \in Submitters :
    /\ ~ (c \in Queued /\ c \in Running)
    /\ Accepted(c) => ((c \in shut) <=> (c \notin Queued \cup Running))
    /\ c \in sent => c \in shut

(* A channel has as many references as there are owners: the caller it was
   handed to, the queued task and the worker that runs it; one that was
   refused has none. *)
ChannelRefsExact ==
  \A c \in Submitters : Accepted(c) =>
    refs[c] = Cardinality({w \in Workers : cur[w] = c})
              + (IF c \in Queued THEN 1 ELSE 0) + (IF c \in own THEN 1 ELSE 0)

(* No command is left in the queue, or running, once all workers have left: a worker
   leaves an empty queue of a closed pool, and a closed pool takes nothing. *)
NoCommandLeft == (\A w \in Workers : stage[w] = "exited") => Queued \cup Running = {}

(* A command given to the pool is settled once, whoever closes, cancels or drops the
   pool, its channel is released by its last owner, and none is left behind. *)
ProcessesSettled == CommandSettledOnce /\ ChannelRefsExact /\ NoCommandLeft

=============================================================================
