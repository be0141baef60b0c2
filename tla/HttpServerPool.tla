---------------------------- MODULE HttpServerPool ----------------------------
(***************************************************************************)
(* serve_http_server_pool: the calling thread admits connections and gives *)
(* each an actor thread; an actor reads the request, queues a job for the  *)
(* worker threads, waits for the response and writes it.  A caller's token *)
(* or max_requests ends the admission and lets everything drain; an error  *)
(* sets `cancelled`, which makes everybody give up.  Threads poll, they    *)
(* never block for ever on a channel.                                      *)
(***************************************************************************)
EXTENDS Naturals, Sequences, FiniteSets

CONSTANTS
  MaxConns,      \* bound: connections that clients make; each gets an actor
  Settings,      \* pairs of limits.worker_count and max_requests; a maximum
                 \* above MaxConns stands for none
  MaxPanics,     \* bound: handlers and actors that panic
  None           \* no job, no error

Errors == {"cancelled", "token", "accept", "start", "panic", "stopped", "restore", "short"}

(* http_server_limits accepts no worker count below one and                  *)
(* mux_net_http_server_serve no request count below one; None is neither.    *)
ASSUME ServerAssumption ==
  /\ MaxConns \in Nat /\ MaxPanics \in Nat
  /\ Settings \subseteq (Nat \ {0}) \X (Nat \ {0})
  /\ None \notin Nat /\ None \notin Errors \cup {"ok"}

Conns == 1..MaxConns
AllWorkers == UNION {1..s[1] : s \in Settings}

VARIABLES
  worker_count, \* parameter of the call
  max_requests, \* parameter of the call
  main,         \* where the calling thread is
  token,        \* the caller's cancellation token
  cancelled,    \* AtomicBool shared by all threads
  first_error,  \* Mutex<Option<String>>
  accept_error, \* HttpServerPoolAdmission.accept_error
  by_caller,    \* HttpServerPoolAdmission.cancelled_by_caller
  result,       \* what serve_http_server_pool returns
  permits,      \* the counter actors hold a permit of
  actors,       \* JoinHandles not yet joined
  apc,          \* where each actor is
  queue,        \* the bounded channel of jobs
  response,     \* each actor's response channel
  wpc, job,     \* where each worker is, and its job
  panics,       \* panics so far
  outcome       \* history: how each accepted connection ended

params == <<worker_count, max_requests>>
mainVars == <<main, accept_error, by_caller, result, actors>>
vars == <<params, mainVars, token, cancelled, first_error, permits, apc, queue, response,
          wpc, job, panics, outcome>>

Workers == 1..worker_count
queue_capacity == 2 * worker_count

(* Mutant: a channel with a single place. *)
channel_capacity_one == 1

channel_capacity == queue_capacity

(* Every variable has its type. *)
TypeOK ==
  /\ <<worker_count, max_requests>> \in Settings
  /\ main \in {"spawn", "unwind", "loop", "flag", "token", "full", "accept", "start", "wait", "join",
              "done"}
  /\ token \in BOOLEAN /\ cancelled \in BOOLEAN /\ by_caller \in BOOLEAN
  /\ first_error \in Errors \cup {None} /\ accept_error \in Errors \cup {None}
  /\ result \in Errors \cup {"ok", None}
  /\ permits \in 0..Cardinality(Conns)
  /\ actors \subseteq Conns
  /\ apc \in [Conns -> {"none", "read", "send", "push", "recv", "timed", "write", "swap", "note",
                        "release", "exit", "finished"}]
  /\ queue \in Seq(Conns) /\ Len(queue) <= channel_capacity
  /\ response \in [Conns -> {"none", "ok", "failed", "refused", "dropped"}]
  /\ wpc \in [AllWorkers -> {"none", "poll", "recv", "got", "handle", "again", "swap", "note", "finished"}]
  /\ job \in [AllWorkers -> Conns \cup {None}]
  /\ panics \in 0..MaxPanics
  /\ outcome \in [Conns -> {"none", "served", "client", "failed", "cancelled", "stopped", "panic"}]

-----------------------------------------------------------------------------
Admitted == {c \in Conns : apc[c] # "none"}
MainTo(where) == main' = where /\ UNCHANGED <<token, cancelled, first_error, accept_error,
  by_caller, result, permits, actors, apc, queue, response, wpc, job, panics, outcome>>

(* spawn_http_server_workers *)

SpawnWorker ==
  /\ main = "spawn"
  /\ \E w \in Workers :
       /\ wpc[w] = "none" /\ \A v \in 1..(w - 1) : wpc[v] # "none"
       /\ wpc' = [wpc EXCEPT ![w] = "poll"]
       /\ main' = IF w = worker_count THEN "loop" ELSE "spawn"
  /\ UNCHANGED <<token, cancelled, first_error, accept_error, by_caller, result, permits,
                 actors, apc, queue, response, job, panics, outcome>>

(* A worker that cannot be started ends those that were. *)
SpawnFails ==
  /\ main = "spawn"
  /\ cancelled' = TRUE /\ main' = "unwind"
  /\ UNCHANGED <<token, first_error, accept_error, by_caller, result, permits, actors, apc,
                 queue, response, wpc, job, panics, outcome>>

Unwind ==
  /\ main = "unwind" /\ \A w \in Workers : wpc[w] \in {"none", "finished"}
  /\ result' = "start" /\ main' = "done"
  /\ UNCHANGED <<token, cancelled, first_error, accept_error, by_caller, permits, actors, apc,
                 queue, response, wpc, job, panics, outcome>>

-----------------------------------------------------------------------------
(* Admission on the calling thread *)

Unfinished == {c \in actors : apc[c] # "finished"}

(* The loop's condition, and reap_finished_http_server_actors. *)
LoopTest ==
  /\ main = "loop"
  /\ IF Cardinality(Admitted) < max_requests
     THEN main' = "flag" /\ actors' = Unfinished
     ELSE main' = "wait" /\ UNCHANGED actors
  /\ UNCHANGED <<token, cancelled, first_error, accept_error, by_caller, result, permits, apc,
                 queue, response, wpc, job, panics, outcome>>

SeesCancelled ==
  /\ main = "flag" /\ cancelled
  /\ accept_error' = "cancelled" /\ main' = "wait"
  /\ UNCHANGED <<token, cancelled, first_error, by_caller, result, permits, actors, apc, queue,
                 response, wpc, job, panics, outcome>>

NotCancelled == main = "flag" /\ ~cancelled /\ MainTo("token")

(* The caller's token: admission ends, `cancelled` stays as it is. *)
ReadsToken ==
  /\ main = "token"
  /\ by_caller' = token
  /\ main' = IF token THEN "wait" ELSE "full"
  /\ UNCHANGED <<token, cancelled, first_error, accept_error, result, permits, actors, apc,
                 queue, response, wpc, job, panics, outcome>>

(* The token's handle is no longer valid. *)
TokenFails ==
  /\ main = "token"
  /\ accept_error' = "token" /\ cancelled' = TRUE /\ main' = "wait"
  /\ UNCHANGED <<token, first_error, by_caller, result, permits, actors, apc, queue, response,
                 wpc, job, panics, outcome>>

ChecksFull == main = "full" /\ MainTo(IF permits >= queue_capacity THEN "loop" ELSE "accept")

AcceptsNothing == main = "accept" /\ MainTo("loop")

AcceptFails ==
  /\ main = "accept"
  /\ accept_error' = "accept" /\ cancelled' = TRUE /\ main' = "wait"
  /\ UNCHANGED <<token, first_error, by_caller, result, permits, actors, apc, queue, response,
                 wpc, job, panics, outcome>>

Accept ==
  /\ main = "accept" /\ Admitted # Conns
  /\ permits' = permits + 1
  /\ main' = "start"
  /\ UNCHANGED <<token, cancelled, first_error, accept_error, by_caller, result, actors, apc, queue,
                 response, wpc, job, panics, outcome>>

StartActor ==
  /\ main = "start"
  /\ LET c == Cardinality(Admitted) + 1 IN
       /\ apc' = [apc EXCEPT ![c] = "read"]
       /\ actors' = Unfinished \cup {c}
  /\ main' = "loop"
  /\ UNCHANGED <<token, cancelled, first_error, accept_error, by_caller, result, permits, queue,
                 response, wpc, job, panics, outcome>>

(* Mutant: the permit of an actor that could not be started is kept. *)
StartFails_keeps ==
  /\ main = "start"
  /\ accept_error' = "start" /\ cancelled' = TRUE /\ main' = "wait"
  /\ UNCHANGED <<token, first_error, by_caller, result, permits, actors, apc, queue, response,
                 wpc, job, panics, outcome>>

StartFails ==
  /\ main = "start"
  /\ permits' = permits - 1
  /\ accept_error' = "start" /\ cancelled' = TRUE /\ main' = "wait"
  /\ UNCHANGED <<token, first_error, by_caller, result, actors, apc, queue, response, wpc, job,
                 panics, outcome>>

-----------------------------------------------------------------------------
(* finish_http_server_pool *)

WaitPermits == main = "wait" /\ permits = 0 /\ MainTo("join")

(* The listener's mode is restored before; that may fail too. *)
Result(restored) ==
  CASE first_error # None -> first_error
    [] first_error = None /\ accept_error # None -> accept_error
    [] OTHER -> IF ~restored THEN "restore"
                ELSE IF ~by_caller /\ Cardinality(Admitted) # max_requests
                THEN "short" ELSE "ok"

(* Mutant: the workers are not waited for. *)
JoinAll_actors ==
  /\ main = "join"
  /\ \A c \in actors : apc[c] = "finished"
  /\ actors' = {} /\ main' = "done"
  /\ \E restored \in BOOLEAN : result' = Result(restored)
  /\ UNCHANGED <<token, cancelled, first_error, accept_error, by_caller, permits, apc, queue,
                 response, wpc, job, panics, outcome>>

JoinAll ==
  /\ main = "join"
  /\ \A c \in actors : apc[c] = "finished"
  /\ \A w \in Workers : wpc[w] = "finished"
  /\ actors' = {} /\ main' = "done"
  /\ \E restored \in BOOLEAN : result' = Result(restored)
  /\ UNCHANGED <<token, cancelled, first_error, accept_error, by_caller, permits, apc, queue,
                 response, wpc, job, panics, outcome>>

Main ==
  \/ SpawnWorker \/ SpawnFails \/ Unwind
  \/ LoopTest \/ SeesCancelled \/ NotCancelled \/ ReadsToken \/ TokenFails \/ ChecksFull
  \/ AcceptsNothing \/ AcceptFails \/ Accept \/ StartActor \/ StartFails
  \/ WaitPermits \/ JoinAll

-----------------------------------------------------------------------------
(* serve_http_connection_actor *)

ActorTo(c, where) == apc' = [apc EXCEPT ![c] = where]
Ends(c, how) == outcome' = [outcome EXCEPT ![c] = how]

(* The request is read, or the client is gone or too slow. *)
ReadRequest(c) ==
  /\ apc[c] = "read"
  /\ \/ ActorTo(c, "send") /\ UNCHANGED outcome
     \/ ActorTo(c, "release") /\ Ends(c, "client")
  /\ UNCHANGED <<mainVars, token, cancelled, first_error, permits, queue, response,
                 wpc, job, panics>>

(* send_http_server_job: the flag, then try_send *)
SendChecks(c) ==
  /\ apc[c] = "send"
  /\ IF cancelled THEN ActorTo(c, "release") /\ Ends(c, "cancelled")
                  ELSE ActorTo(c, "push") /\ UNCHANGED outcome
  /\ UNCHANGED <<mainVars, token, cancelled, first_error, permits, queue, response,
                 wpc, job, panics>>

Gone == \A w \in Workers : wpc[w] = "finished"

(* Without a worker left the channel is closed: an error that is reported    *)
(* unless the pool is cancelled, and then it is.                             *)
PushJob(c) ==
  /\ apc[c] = "push"
  /\ IF Gone
     THEN /\ ActorTo(c, IF cancelled THEN "release" ELSE "swap")
          /\ Ends(c, "stopped") /\ UNCHANGED queue
     ELSE /\ Len(queue) < channel_capacity
          /\ queue' = Append(queue, c)
          /\ ActorTo(c, "recv") /\ UNCHANGED outcome
  /\ UNCHANGED <<mainVars, token, cancelled, first_error, permits, response, wpc, job, panics>>

(* A job is dropped with the channel, or by the worker that panicked. *)
Dropped(c) ==
  \/ response[c] = "dropped"
  \/ response[c] = "none" /\ Gone

(* receive_http_server_response; an error stays with this connection, except *)
(* that nobody answered.                                                     *)
RecvResponse(c) ==
  /\ apc[c] = "recv"
  /\ \/ response[c] = "ok" /\ ActorTo(c, "write") /\ UNCHANGED outcome
     \/ response[c] = "failed" /\ ActorTo(c, "release") /\ Ends(c, "failed")
     \/ response[c] = "refused" /\ ActorTo(c, "release") /\ Ends(c, "cancelled")
     \/ response[c] = "none" /\ ~Gone /\ ActorTo(c, "timed") /\ UNCHANGED outcome
     \/ /\ Dropped(c)
        /\ ActorTo(c, IF cancelled THEN "release" ELSE "swap") /\ Ends(c, "stopped")
  /\ UNCHANGED <<mainVars, token, cancelled, first_error, permits, queue, response,
                 wpc, job, panics>>

TimedOut(c) ==
  /\ apc[c] = "timed"
  /\ IF cancelled THEN ActorTo(c, "release") /\ Ends(c, "cancelled")
                  ELSE ActorTo(c, "recv") /\ UNCHANGED outcome
  /\ UNCHANGED <<mainVars, token, cancelled, first_error, permits, queue, response,
                 wpc, job, panics>>

WriteResponse(c) ==
  /\ apc[c] = "write"
  /\ ActorTo(c, "release")
  /\ Ends(c, "served") \/ Ends(c, "client")
  /\ UNCHANGED <<mainVars, token, cancelled, first_error, permits, queue, response,
                 wpc, job, panics>>

ActorPanics(c) ==
  /\ apc[c] \in {"read", "write"} /\ panics < MaxPanics
  /\ panics' = panics + 1
  /\ ActorTo(c, "swap") /\ Ends(c, "panic")
  /\ UNCHANGED <<mainVars, token, cancelled, first_error, permits, queue, response, wpc, job>>

(* Mutant: the permit goes before the error is noted. *)
ActorSwaps_early(c) ==
  /\ apc[c] = "swap"
  /\ cancelled' = TRUE
  /\ ActorTo(c, "release")
  /\ UNCHANGED <<mainVars, token, first_error, permits, queue, response, wpc, job,
                 panics, outcome>>

(* report_http_server_pool_error: swap the flag, then note the first error *)
ActorSwaps(c) ==
  /\ apc[c] = "swap"
  /\ cancelled' = TRUE
  /\ ActorTo(c, IF cancelled THEN "release" ELSE "note")
  /\ UNCHANGED <<mainVars, token, first_error, permits, queue, response, wpc, job,
                 panics, outcome>>

ActorNotes(c) ==
  /\ apc[c] = "note"
  /\ first_error' = IF first_error = None THEN outcome[c] ELSE first_error
  /\ ActorTo(c, "release")
  /\ UNCHANGED <<mainVars, token, cancelled, permits, queue, response, wpc, job,
                 panics, outcome>>

ReleasePermit(c) ==
  /\ apc[c] = "release"
  /\ permits' = permits - 1
  /\ ActorTo(c, "exit")
  /\ UNCHANGED <<mainVars, token, cancelled, first_error, queue, response, wpc, job,
                 panics, outcome>>

(* The actor's clone of the sender goes with its thread. *)
ActorExits(c) ==
  /\ apc[c] = "exit"
  /\ ActorTo(c, "finished")
  /\ UNCHANGED <<mainVars, token, cancelled, first_error, permits, queue, response,
                 wpc, job, panics, outcome>>

Actor(c) ==
  \/ ReadRequest(c) \/ SendChecks(c) \/ PushJob(c) \/ RecvResponse(c) \/ TimedOut(c)
  \/ WriteResponse(c)  \/ ActorSwaps(c) \/ ActorNotes(c) \/ ReleasePermit(c) \/ ActorExits(c)

-----------------------------------------------------------------------------
(* Worker threads *)

WorkerTo(w, where) == wpc' = [wpc EXCEPT ![w] = where]
workerFrame == <<mainVars, token, permits, apc, outcome>>

(* Every sender gone: the calling thread's after admission, an actor's when  *)
(* it ends or is unwound by a panic.                                         *)
SendersGone ==
  /\ main \in {"wait", "join", "done"}
  /\ \A c \in Conns : apc[c] \in {"none", "finished"} \/ outcome[c] = "panic"

(* receive_http_server_job: the flag ... *)
Polls(w) ==
  /\ wpc[w] = "poll"
  /\ WorkerTo(w, IF cancelled THEN "finished" ELSE "recv")
  /\ UNCHANGED <<workerFrame, cancelled, first_error, queue, response, job, panics>>

(* ... then recv_timeout under the receiver's mutex *)
Receives(w) ==
  /\ wpc[w] = "recv" /\ queue # <<>>
  /\ job' = [job EXCEPT ![w] = Head(queue)]
  /\ queue' = Tail(queue)
  /\ WorkerTo(w, "got")
  /\ UNCHANGED <<workerFrame, cancelled, first_error, response, panics>>

(* Mutant: a closed channel is taken for an empty one. *)
TimesOut_again(w) ==
  /\ wpc[w] = "recv" /\ queue = <<>>
  /\ WorkerTo(w, "poll")
  /\ UNCHANGED <<workerFrame, cancelled, first_error, queue, response, job, panics>>

TimesOut(w) ==
  /\ wpc[w] = "recv" /\ queue = <<>>
  /\ WorkerTo(w, IF SendersGone THEN "finished" ELSE "poll")
  /\ UNCHANGED <<workerFrame, cancelled, first_error, queue, response, job, panics>>

Answer(w, what) ==
  /\ response' = [response EXCEPT ![job[w]] = what]
  /\ job' = [job EXCEPT ![w] = None]

(* Mutant: a job is thrown away as soon as admission has ended. *)
Starts_late(w) ==
  /\ wpc[w] = "got"
  /\ IF cancelled \/ token
     THEN Answer(w, "refused") /\ WorkerTo(w, "finished")
     ELSE WorkerTo(w, "handle") /\ UNCHANGED <<response, job>>
  /\ UNCHANGED <<workerFrame, cancelled, first_error, queue, panics>>

Starts(w) ==
  /\ wpc[w] = "got"
  /\ IF cancelled
     THEN Answer(w, "refused") /\ WorkerTo(w, "finished")
     ELSE WorkerTo(w, "handle") /\ UNCHANGED <<response, job>>
  /\ UNCHANGED <<workerFrame, cancelled, first_error, queue, panics>>

(* build_http_server_response; a failure of this request is its client's     *)
(* affair, and an actor that gave up no longer reads the answer.             *)
Handles(w) ==
  /\ wpc[w] = "handle"
  /\ \/ Answer(w, "ok")
     \/ Answer(w, "failed")
  /\ WorkerTo(w, "again")
  /\ UNCHANGED <<workerFrame, cancelled, first_error, queue, panics>>

Again(w) ==
  /\ wpc[w] = "again"
  /\ WorkerTo(w, IF cancelled THEN "finished" ELSE "poll")
  /\ UNCHANGED <<workerFrame, cancelled, first_error, queue, response, job, panics>>

HandlerPanics(w) ==
  /\ wpc[w] = "handle" /\ panics < MaxPanics
  /\ panics' = panics + 1
  /\ Answer(w, "dropped")
  /\ WorkerTo(w, "swap")
  /\ UNCHANGED <<workerFrame, cancelled, first_error, queue>>

WorkerSwaps(w) ==
  /\ wpc[w] = "swap"
  /\ cancelled' = TRUE
  /\ WorkerTo(w, IF cancelled THEN "finished" ELSE "note")
  /\ UNCHANGED <<workerFrame, first_error, queue, response, job, panics>>

WorkerNotes(w) ==
  /\ wpc[w] = "note"
  /\ first_error' = IF first_error = None THEN "panic" ELSE first_error
  /\ WorkerTo(w, "finished")
  /\ UNCHANGED <<workerFrame, cancelled, queue, response, job, panics>>

Worker(w) ==
  \/ Polls(w) \/ Receives(w) \/ TimesOut(w) \/ Starts(w) \/ Handles(w) \/ Again(w)
  \/ WorkerSwaps(w) \/ WorkerNotes(w)

-----------------------------------------------------------------------------
(* mux_cancellation_cancel by the program *)
CancelToken ==
  /\ ~token /\ token' = TRUE
  /\ UNCHANGED <<mainVars, cancelled, first_error, permits, apc, queue, response, wpc,
                 job, panics, outcome>>

Init ==
  /\ \E s \in Settings : worker_count = s[1] /\ max_requests = s[2]
  /\ main = "spawn" /\ by_caller = FALSE /\ token = FALSE /\ cancelled = FALSE
  /\ first_error = None /\ accept_error = None /\ result = None
  /\ permits = 0 /\ actors = {}
  /\ apc = [c \in Conns |-> "none"]
  /\ queue = <<>> /\ response = [c \in Conns |-> "none"]
  /\ wpc = [w \in AllWorkers |-> "none"] /\ job = [w \in AllWorkers |-> None]
  /\ panics = 0 /\ outcome = [c \in Conns |-> "none"]

Next ==
  /\ \/ Main \/ CancelToken
     \/ \E c \in Conns : Actor(c) \/ ActorPanics(c)
     \/ \E w \in Workers : Worker(w) \/ HandlerPanics(w)
  /\ UNCHANGED params

Spec == Init /\ [][Next]_vars

MainStep == Main /\ UNCHANGED params
ActorStep(c) == Actor(c) /\ UNCHANGED params
WorkerStep(w) == w \in Workers /\ Worker(w) /\ UNCHANGED params

(* Threads that can run do; reading and writing a socket and running a       *)
(* handler end, by their timeouts or by themselves.                          *)
FairSpec ==
  /\ Spec /\ WF_vars(MainStep)
  /\ \A c \in Conns : WF_vars(ActorStep(c))
  /\ \A w \in AllWorkers : WF_vars(WorkerStep(w))

-----------------------------------------------------------------------------
HoldsPermit == {c \in Conns : apc[c] \notin {"none", "exit", "finished"}}

(* The permit counter is the number of actors at work, also when starting    *)
(* one fails or one panics: the shutdown neither waits for nobody nor misses *)
(* somebody.                                                                 *)
PermitsExact ==
  permits = Cardinality(HoldsPermit) + IF main = "start" THEN 1 ELSE 0

(* try_send never finds the queue of jobs full, so no actor sleeps on it:    *)
(* there are no more actors at work than places.                             *)
QueueHasRoom == \A c \in Conns : apc[c] = "push" => Len(queue) < channel_capacity

(* When the server returns, every actor and every worker has ended.          *)
NoThreadLeft ==
  main = "done" =>
    /\ permits = 0
    /\ \A c \in Conns : apc[c] \in {"none", "finished"}
    /\ \A w \in Workers : wpc[w] \in {"none", "finished"}

(* A server that returns ok has drained: every connection it accepted was    *)
(* answered, left by its client or failed by its own handler; none was       *)
(* turned away.                                                              *)
Drained ==
  result = "ok" => \A c \in Admitted : outcome[c] \in {"served", "client", "failed"}

(* The error that is returned names the cause: "worker pool cancelled" and   *)
(* "stopped before serving max_requests" only say that there is one, and are *)
(* always replaced by it.                                                    *)
CauseReturned == result \notin {"cancelled", "short"}

(* The pool is sound: the permit counter is exact, the queue of jobs has     *)
(* room for every actor at work, nothing runs on when serve returns, ok      *)
(* means that every accepted connection was served, and an error names its   *)
(* cause.                                                                    *)
ServerSound ==
  TypeOK /\ PermitsExact /\ QueueHasRoom /\ NoThreadLeft /\ Drained /\ CauseReturned

(* Once the token is set, an error has cancelled the pool or enough was      *)
(* accepted, the server returns.                                             *)
Ending == token \/ cancelled \/ Cardinality(Admitted) = max_requests
Returned == main = "done"
=============================================================================
