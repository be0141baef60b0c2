------------------------------ MODULE NetProofs -----------------------------
(***************************************************************************)
(* What serves the network is sound for any number of connections, workers, *)
(* threads, handles and keys: the pool of an HTTP server, the keys of OAuth *)
(* providers, and sockets.                                                 *)
(***************************************************************************)
EXTENDS HttpServerPool, OAuth, Sockets, FiniteSetTheorems, TLAPS

(***************************************************************************)
(* The pool of an HTTP server is sound for any number of connections,      *)
(* workers and panics.  The invariant counts: permits are the actors at    *)
(* work, the queue holds each job once, and the actors that have a job in  *)
(* the queue or are about to put one there are never more than its places. *)
(* The last is not because they hold permits: an actor that gives up       *)
(* leaves its job behind and another is admitted; but it gives up only     *)
(* once the pool is cancelled, and then no actor begins to send.           *)
(***************************************************************************)
(* TypeOK without the bounds of the counters. *)
TypeInv ==
  /\ <<worker_count, max_requests>> \in Settings
  /\ main \in {"spawn", "unwind", "loop", "flag", "token", "full", "accept", "start", "wait", "join",
              "done"}
  /\ token \in BOOLEAN /\ cancelled \in BOOLEAN /\ by_caller \in BOOLEAN
  /\ first_error \in {"panic", "stopped", None}
  /\ accept_error \in {"cancelled", "token", "accept", "start", None}
  /\ result \in Errors \cup {"ok", None}
  /\ permits \in Int
  /\ actors \subseteq Conns
  /\ apc \in [Conns -> {"none", "read", "send", "push", "recv", "timed", "write", "swap", "note",
                        "release", "exit", "finished"}]
  /\ queue \in Seq(Conns)
  /\ response \in [Conns -> {"none", "ok", "failed", "refused", "dropped"}]
  /\ wpc \in [AllWorkers -> {"none", "poll", "recv", "got", "handle", "again", "swap", "note", "finished"}]
  /\ job \in [AllWorkers -> Conns \cup {None}]
  /\ panics \in 0..MaxPanics
  /\ outcome \in [Conns -> {"none", "served", "client", "failed", "cancelled", "stopped", "panic"}]

Queued == {queue[i] : i \in 1..Len(queue)}

(* Actors with a job in the queue, or past the last look at the flag. *)
InFlight == {c \in Conns : apc[c] = "push"} \cup Queued

(* The connections accepted are 1, 2, ... and not too many; the loop ends for
   a reason. *)
AdmitInv ==
  /\ Admitted = 1..Cardinality(Admitted)
  /\ Cardinality(Admitted) <= max_requests
  /\ main = "start" => Admitted # Conns
  /\ main \in {"flag", "token", "full", "accept", "start"} => Cardinality(Admitted) < max_requests
  /\ main \in {"spawn", "unwind"} => Admitted = {}
  /\ main \in {"wait", "join"} =>
       accept_error # None \/ by_caller \/ Cardinality(Admitted) = max_requests

PermitInv ==
  /\ PermitsExact
  /\ permits <= queue_capacity
  /\ main = "accept" => permits < queue_capacity
  /\ main \in {"join", "done"} => permits = 0

(* Who runs is yet to be joined. *)
ThreadInv ==
  /\ \A c \in Conns : apc[c] \notin {"none", "finished"} => c \in actors
  /\ main = "done" => \A c \in Conns : apc[c] \in {"none", "finished"}
  /\ main = "done" => \A w \in Workers : wpc[w] \in {"none", "finished"}

(* Who gave up was made to: the flag is set, or is about to be by them. *)
OutcomeOf(c) ==
  /\ outcome[c] = "none" <=> apc[c] \in {"none", "read", "send", "push", "recv", "timed", "write"}
  /\ apc[c] \in {"swap", "note"} => outcome[c] \in {"stopped", "panic"}
  /\ outcome[c] = "cancelled" => cancelled
  /\ outcome[c] \in {"stopped", "panic"} => cancelled \/ apc[c] = "swap"
  /\ response[c] = "refused" => cancelled

OutcomeInv == \A c \in Conns : OutcomeOf(c)

(* Who set the flag has noted why, or is about to. *)
Noted ==
  \/ first_error # None
  \/ accept_error \in {"token", "accept", "start"}
  \/ main = "unwind" \/ result = "start"
  \/ \E c \in Conns : apc[c] = "note"
  \/ \E w \in Workers : wpc[w] = "note"

CauseInv ==
  /\ cancelled => Noted
  /\ accept_error # None => main \in {"wait", "join", "done"}
  /\ accept_error = "cancelled" => cancelled
  /\ result # None => main = "done"
  /\ result = "ok" => ~ cancelled
  /\ CauseReturned

(* A job is in the queue once or with a worker, and its actor has sent it. *)
JobInv ==
  /\ Len(queue) = Cardinality(Queued)
  /\ \A i, j \in 1..Len(queue) : queue[i] = queue[j] => i = j
  /\ \A c \in Queued : response[c] = "none"
  /\ \A c \in Queued : \/ apc[c] \in {"recv", "timed", "swap"}
                       \/ cancelled /\ apc[c] \in {"note", "release", "exit", "finished"}
  /\ \A w \in Workers : wpc[w] \in {"got", "handle"} =>
       job[w] \in Conns \ Queued /\ apc[job[w]] \notin {"none", "read", "send", "push"}
  /\ \A c \in Conns : apc[c] \in {"none", "read", "send", "push"} => response[c] = "none"
  /\ Cardinality(InFlight) <= queue_capacity

IInv ==
  TypeInv /\ AdmitInv /\ PermitInv /\ ThreadInv /\ OutcomeInv /\ CauseInv /\ JobInv

-----------------------------------------------------------------------------
(* The counts are numbers, and the workers of a call are among all. *)
LEMMA Numbers ==
  ASSUME TypeInv
  PROVE  /\ worker_count \in Nat \ {0} /\ max_requests \in Nat \ {0}
         /\ Workers \subseteq AllWorkers /\ queue_capacity \in Nat
<1>1. <<worker_count, max_requests>> \in (Nat \ {0}) \X (Nat \ {0})
  BY ServerAssumption, Zenon DEF TypeInv
<1>2. worker_count \in Nat \ {0} /\ max_requests \in Nat \ {0}
  BY <1>1, Zenon
<1>3. Workers \subseteq AllWorkers
  BY <<worker_count, max_requests>>[1] = worker_count DEF TypeInv, Workers, AllWorkers
<1> QED
  BY <1>2, <1>3 DEF queue_capacity

(* Sets of connections are finite. *)
LEMMA Connections ==
  /\ IsFiniteSet(Conns) /\ Cardinality(Conns) = MaxConns
  /\ \A S \in SUBSET Conns :
       /\ IsFiniteSet(S) /\ Cardinality(S) \in Nat /\ Cardinality(S) <= MaxConns
       /\ \A T \in SUBSET S : Cardinality(T) <= Cardinality(S)
<1>1. IsFiniteSet(Conns) /\ Cardinality(Conns) = MaxConns
  BY FS_Interval, ServerAssumption DEF Conns
<1>2. ASSUME NEW S \in SUBSET Conns
      PROVE  IsFiniteSet(S) /\ Cardinality(S) \in Nat /\ Cardinality(S) <= MaxConns
  BY <1>1, FS_Subset, FS_CardinalityType, Zenon
<1>3. ASSUME NEW S \in SUBSET Conns, NEW T \in SUBSET S
      PROVE  Cardinality(T) <= Cardinality(S)
  BY <1>2, FS_Subset, Zenon
<1> QED
  BY <1>1, <1>2, <1>3, Zenon

-----------------------------------------------------------------------------
(* Types. *)
LEMMA TypeMain ==
  ASSUME TypeInv, AdmitInv, Main, UNCHANGED params
  PROVE  TypeInv'
<1> USE DEF TypeInv, params
<1>1. CASE SpawnWorker
  BY <1>1, Numbers DEF SpawnWorker
<1>2. CASE SpawnFails
  BY <1>2 DEF SpawnFails
<1>3. CASE Unwind
  BY <1>3, Zenon DEF Unwind, Errors
<1>4. CASE LoopTest
  BY <1>4 DEF LoopTest, Unfinished
<1>5. CASE SeesCancelled \/ NotCancelled \/ ReadsToken \/ TokenFails \/ ChecksFull \/ AcceptsNothing
           \/ AcceptFails \/ WaitPermits
  <2>1. CASE SeesCancelled \/ NotCancelled \/ ReadsToken
    BY <2>1 DEF SeesCancelled, NotCancelled, ReadsToken, MainTo
  <2>2. CASE TokenFails \/ ChecksFull \/ AcceptsNothing
    BY <2>2, ZenonT(30) DEF TokenFails, ChecksFull, AcceptsNothing, MainTo
  <2>3. CASE AcceptFails \/ WaitPermits
    BY <2>3, ZenonT(30) DEF AcceptFails, WaitPermits, MainTo
  <2> QED BY <1>5, <2>1, <2>2, <2>3, Zenon
<1>6. CASE Accept \/ StartFails
  <2>1. permits' \in Int /\ main' \in {"start", "wait"}
    BY <1>6 DEF Accept, StartFails
  <2>2. accept_error' \in {accept_error, "start"} /\ cancelled' \in {cancelled, TRUE}
    BY <1>6, Zenon DEF Accept, StartFails
  <2> QED
    BY <1>6, <2>1, <2>2, ZenonT(30) DEF Accept, StartFails
<1>7. CASE StartActor
  <2>1. Cardinality(Admitted) + 1 \in Conns
    <3>1. Admitted # Conns /\ Admitted = 1..Cardinality(Admitted)
      BY <1>7, Zenon DEF StartActor, AdmitInv
    <3>2. Cardinality(Admitted) \in Nat /\ Cardinality(Admitted) <= MaxConns
      BY Connections, Zenon DEF Admitted
    <3> QED
      BY <3>1, <3>2, ServerAssumption DEF Conns
  <2> QED
    BY <1>7, <2>1 DEF StartActor, Unfinished
<1>8. CASE JoinAll
  <2>1. PICK restored \in BOOLEAN : result' = Result(restored)
    BY <1>8, Zenon DEF JoinAll
  <2>2. result' \in Errors \cup {"ok", None}
    BY <2>1, Zenon DEF Result, Errors
  <2> QED
    BY <1>8, <2>2, Zenon DEF JoinAll
<1> QED
  BY <1>1, <1>2, <1>3, <1>4, <1>5, <1>6, <1>7, <1>8, Zenon DEF Main

LEMMA TypeActor ==
  ASSUME TypeInv, OutcomeInv, UNCHANGED params, NEW c \in Conns, Actor(c) \/ ActorPanics(c)
  PROVE  TypeInv'
<1> USE DEF TypeInv, params, mainVars, ActorTo, Ends
<1>1. CASE ReadRequest(c) \/ SendChecks(c) \/ TimedOut(c) \/ WriteResponse(c)
  BY <1>1 DEF ReadRequest, SendChecks, TimedOut, WriteResponse
<1>2. CASE PushJob(c)
  <2>1. CASE Gone
    BY <1>2, <2>1, SMTT(30) DEF PushJob
  <2>2. CASE ~ Gone
    <3>0. queue' = Append(queue, c) /\ apc' = [apc EXCEPT ![c] = "recv"]
      BY <1>2, <2>2, Zenon DEF PushJob
    <3>1. queue' \in Seq(Conns)
      BY <3>0
    <3> QED
      BY <1>2, <2>2, <3>0, <3>1 DEF PushJob
  <2> QED
    BY <2>1, <2>2, Zenon
<1>3. CASE RecvResponse(c)
  BY <1>3 DEF RecvResponse
<1>4. CASE ActorPanics(c)
  BY <1>4, ServerAssumption DEF ActorPanics
<1>5. CASE ActorSwaps(c)
  <2>1. \E l \in {"release", "note"} : apc' = [apc EXCEPT ![c] = l]
    BY <1>5, Zenon DEF ActorSwaps
  <2> QED
    BY <1>5, <2>1 DEF ActorSwaps
<1>8. CASE ActorExits(c)
  BY <1>8 DEF ActorExits
<1>6. CASE ActorNotes(c)
  BY <1>6 DEF ActorNotes, OutcomeInv, OutcomeOf
<1>7. CASE ReleasePermit(c)
  BY <1>7 DEF ReleasePermit
<1> QED
  BY <1>1, <1>2, <1>3, <1>4, <1>5, <1>6, <1>7, <1>8, Zenon DEF Actor

LEMMA TypeWorker ==
  ASSUME TypeInv, JobInv, UNCHANGED params, NEW w \in Workers, Worker(w) \/ HandlerPanics(w)
  PROVE  TypeInv'
<1> USE DEF TypeInv, params, mainVars, workerFrame, WorkerTo
<1>0. w \in AllWorkers
  BY Numbers, Zenon
<1>1. CASE Polls(w) \/ Again(w) \/ TimesOut(w)
  BY <1>0, <1>1 DEF Polls, Again, TimesOut
<1>2. CASE Receives(w)
  <2>1. Head(queue) \in Conns /\ Tail(queue) \in Seq(Conns)
    BY <1>2 DEF Receives
  <2> QED
    BY <1>0, <1>2, <2>1 DEF Receives
<1>3. CASE Starts(w)
  <2>1. job[w] \in Conns
    BY <1>3, Zenon DEF Starts, JobInv
  <2>2. response' \in [Conns -> {"none", "ok", "failed", "refused", "dropped"}]
        /\ job' \in [AllWorkers -> Conns \cup {None}]
    BY <1>0, <1>3, <2>1 DEF Starts, Answer
  <2>3. \E l \in {"finished", "handle"} : wpc' = [wpc EXCEPT ![w] = l]
    BY <1>3, Zenon DEF Starts
  <2> QED
    BY <1>0, <1>3, <2>2, <2>3 DEF Starts
<1>4. CASE Handles(w)
  BY <1>0, <1>4, SMTT(30) DEF Handles, Answer
<1>5. CASE HandlerPanics(w)
  <2>1. panics' \in 0..MaxPanics
    BY <1>5, ServerAssumption DEF HandlerPanics
  <2>2. response' \in [Conns -> {"none", "ok", "failed", "refused", "dropped"}]
        /\ job' \in [AllWorkers -> Conns \cup {None}]
    BY <1>0, <1>5, Zenon DEF HandlerPanics, Answer
  <2>3. wpc' = [wpc EXCEPT ![w] = "swap"] /\ UNCHANGED <<workerFrame, cancelled, first_error, queue>>
    BY <1>5, Zenon DEF HandlerPanics
  <2> QED
    BY <1>0, <2>1, <2>2, <2>3
<1>6. CASE WorkerSwaps(w)
  <2>1. \E l \in {"finished", "note"} : wpc' = [wpc EXCEPT ![w] = l]
    BY <1>6, Zenon DEF WorkerSwaps
  <2> QED
    BY <1>0, <1>6, <2>1 DEF WorkerSwaps
<1>7. CASE WorkerNotes(w)
  BY <1>0, <1>7 DEF WorkerNotes
<1> QED
  BY <1>1, <1>2, <1>3, <1>4, <1>5, <1>6, <1>7, Zenon DEF Worker

-----------------------------------------------------------------------------
(* What a step of an actor leaves alone, and that it stays an actor. *)
LEMMA ActorShape ==
  ASSUME TypeInv, NEW c \in Conns, Actor(c) \/ ActorPanics(c)
  PROVE  /\ UNCHANGED <<mainVars, token, response, wpc, job>>
         /\ apc[c] \notin {"none", "finished"} /\ apc'[c] # "none"
         /\ DOMAIN apc' = Conns /\ DOMAIN outcome' = Conns
         /\ \A d \in Conns \ {c} : apc'[d] = apc[d] /\ outcome'[d] = outcome[d]
         /\ Admitted' = Admitted
<1> USE DEF TypeInv, mainVars, ActorTo, Ends
<1>1. UNCHANGED <<mainVars, token, response, wpc, job>>
  BY Zenon DEF Actor, ReadRequest, SendChecks, PushJob, RecvResponse, TimedOut, WriteResponse,
     ActorPanics, ActorSwaps, ActorNotes, ReleasePermit, ActorExits
<1>2. apc[c] \notin {"none", "finished"}
  BY Zenon DEF Actor, ReadRequest, SendChecks, PushJob, RecvResponse, TimedOut, WriteResponse,
     ActorPanics, ActorSwaps, ActorNotes, ReleasePermit, ActorExits
<1>3. \E l \in {"send", "push", "recv", "timed", "write", "swap", "note", "release", "exit",
                "finished"} : apc' = [apc EXCEPT ![c] = l]
  BY Zenon DEF Actor, ReadRequest, SendChecks, PushJob, RecvResponse, TimedOut, WriteResponse,
     ActorPanics, ActorSwaps, ActorNotes, ReleasePermit, ActorExits
<1>4. outcome' = outcome \/ \E how : outcome' = [outcome EXCEPT ![c] = how]
  BY Zenon DEF Actor, ReadRequest, SendChecks, PushJob, RecvResponse, TimedOut, WriteResponse,
     ActorPanics, ActorSwaps, ActorNotes, ReleasePermit, ActorExits
<1>5. apc'[c] # "none" /\ DOMAIN apc' = Conns /\ \A d \in Conns \ {c} : apc'[d] = apc[d]
  BY <1>3, Zenon
<1>6. DOMAIN outcome' = Conns /\ \A d \in Conns \ {c} : outcome'[d] = outcome[d]
  BY <1>4, Zenon
<1>7. Admitted' = Admitted
  BY <1>2, <1>5, Zenon DEF Admitted
<1> QED
  BY <1>1, <1>2, <1>5, <1>6, <1>7, Zenon

(* What a step of a worker leaves alone. *)
LEMMA WorkerShape ==
  ASSUME TypeInv, NEW w \in Workers, Worker(w) \/ HandlerPanics(w)
  PROVE  /\ UNCHANGED <<mainVars, token, permits, apc, outcome>>
         /\ wpc[w] \notin {"none", "finished"} /\ DOMAIN wpc' = AllWorkers
         /\ \A v \in AllWorkers \ {w} : wpc'[v] = wpc[v]
<1> USE DEF TypeInv, workerFrame, WorkerTo
<1>1. UNCHANGED <<mainVars, token, permits, apc, outcome>>
  BY Zenon DEF Worker, Polls, Receives, TimesOut, Starts, Handles, Again, HandlerPanics, WorkerSwaps,
     WorkerNotes, mainVars
<1>2. wpc[w] \notin {"none", "finished"}
  BY Zenon DEF Worker, Polls, Receives, TimesOut, Starts, Handles, Again, HandlerPanics, WorkerSwaps,
     WorkerNotes
<1>3. \E l : wpc' = [wpc EXCEPT ![w] = l]
  BY Zenon DEF Worker, Polls, Receives, TimesOut, Starts, Handles, Again, HandlerPanics, WorkerSwaps,
     WorkerNotes
<1> QED
  BY <1>1, <1>2, <1>3, Zenon

(* The calling thread starts actors; else it leaves them alone. *)
LEMMA MainShape ==
  ASSUME Main
  PROVE  /\ UNCHANGED <<token, queue, response, job, panics, outcome, first_error>>
         /\ ~ StartActor => apc' = apc
         /\ ~ SpawnWorker => wpc' = wpc
BY Zenon DEF Main, SpawnWorker, SpawnFails, Unwind, LoopTest, SeesCancelled, NotCancelled, ReadsToken,
   TokenFails, ChecksFull, AcceptsNothing, AcceptFails, Accept, StartActor, StartFails, WaitPermits,
   JoinAll, MainTo

(* The connection that an actor is started for is a new one. *)
LEMMA NewActor ==
  ASSUME TypeInv, AdmitInv, StartActor, NEW c, c = Cardinality(Admitted) + 1
  PROVE  /\ c \in Conns /\ apc[c] = "none" /\ apc'[c] = "read" /\ DOMAIN apc' = Conns
         /\ \A d \in Conns \ {c} : apc'[d] = apc[d]
         /\ Admitted' = 1..c /\ Cardinality(Admitted') = c
<1>1. Admitted # Conns /\ Admitted = 1..Cardinality(Admitted)
  BY Zenon DEF StartActor, AdmitInv
<1>2. Cardinality(Admitted) \in Nat /\ Cardinality(Admitted) <= MaxConns
  BY Connections, Zenon DEF Admitted
<1>3. c \in Conns /\ c \notin Admitted
  BY <1>1, <1>2, ServerAssumption DEF Conns
<1>4. apc' = [apc EXCEPT ![c] = "read"]
  BY Zenon DEF StartActor
<1>5. apc[c] = "none" /\ apc'[c] = "read" /\ DOMAIN apc' = Conns
      /\ \A d \in Conns \ {c} : apc'[d] = apc[d]
  BY <1>3, <1>4, Zenon DEF TypeInv, Admitted
<1>6. Admitted' = Admitted \cup {c}
  BY <1>3, <1>5, Zenon DEF Admitted
<1>7. Admitted' = 1..c
  BY <1>1, <1>2, <1>6
<1>8. Cardinality(1..c) = c
  BY <1>2, FS_Interval
<1> QED
  BY <1>3, <1>5, <1>7, <1>8, Zenon

LEMMA AdmitStep ==
  ASSUME TypeInv, AdmitInv, Next
  PROVE  AdmitInv'
<1>0. UNCHANGED <<worker_count, max_requests>>
  BY Zenon DEF Next, params
<1>1. ASSUME UNCHANGED <<main, accept_error, by_caller>>, Admitted' = Admitted
      PROVE  AdmitInv'
  BY <1>0, <1>1, Zenon DEF AdmitInv
<1>2. ASSUME NEW c \in Conns, Actor(c) \/ ActorPanics(c)
      PROVE  AdmitInv'
  BY <1>1, <1>2, ActorShape, Zenon DEF mainVars
<1>3. ASSUME NEW w \in Workers, Worker(w) \/ HandlerPanics(w)
      PROVE  AdmitInv'
  BY <1>1, <1>3, WorkerShape, Zenon DEF mainVars, Admitted
<1>4. CASE CancelToken
  BY <1>1, <1>4, Zenon DEF CancelToken, mainVars, Admitted
<1>5. CASE Main /\ ~ StartActor
  <2>1. Admitted' = Admitted
    BY <1>5, MainShape, Zenon DEF Admitted
  <2>2. Cardinality(Admitted) \in Nat /\ max_requests \in Nat \ {0}
    BY Connections, Numbers, Zenon DEF Admitted
  <2>3. CASE SpawnWorker \/ SpawnFails \/ Unwind
    BY <1>0, <2>1, <2>2, <2>3, Zenon DEF AdmitInv, SpawnWorker, SpawnFails, Unwind
  <2>4. CASE LoopTest
    BY <1>0, <2>1, <2>2, <2>4 DEF AdmitInv, LoopTest
  <2>5. CASE SeesCancelled \/ NotCancelled \/ ReadsToken \/ TokenFails
    BY <1>0, <2>1, <2>2, <2>5, ServerAssumption
       DEF AdmitInv, SeesCancelled, NotCancelled, ReadsToken, TokenFails, MainTo, Errors
  <2>6. CASE ChecksFull \/ AcceptsNothing \/ AcceptFails \/ Accept \/ StartFails
    BY <1>0, <2>1, <2>2, <2>6, ServerAssumption, Zenon
       DEF AdmitInv, ChecksFull, AcceptsNothing, AcceptFails, Accept, StartFails, MainTo, Errors
  <2>7. CASE WaitPermits \/ JoinAll
    BY <1>0, <2>1, <2>2, <2>7, Zenon DEF AdmitInv, WaitPermits, JoinAll, MainTo
  <2> QED
    BY <1>5, <2>3, <2>4, <2>5, <2>6, <2>7, Zenon DEF Main
<1>6. CASE StartActor
  <2> DEFINE c == Cardinality(Admitted) + 1
  <2>1. Admitted' = 1..c /\ Cardinality(Admitted') = c
    BY <1>6, NewActor, Zenon
  <2>2. Cardinality(Admitted) \in Nat /\ max_requests \in Nat \ {0}
    BY Connections, Numbers, Zenon DEF Admitted
  <2>3. main' = "loop" /\ Cardinality(Admitted) < max_requests
    BY <1>6, Zenon DEF StartActor, AdmitInv
  <2> QED
    BY <1>0, <2>1, <2>2, <2>3 DEF AdmitInv
<1> QED
  BY <1>2, <1>3, <1>4, <1>5, <1>6, Zenon DEF Next

(* Only its release takes a permit from an actor. *)
LEMMA HoldersActor ==
  ASSUME TypeInv, NEW c \in Conns, Actor(c) \/ ActorPanics(c)
  PROVE  IF ReleasePermit(c)
         THEN c \in HoldsPermit /\ HoldsPermit' = HoldsPermit \ {c} /\ permits' = permits - 1
         ELSE HoldsPermit' = HoldsPermit /\ permits' = permits
<1>1. CASE ReleasePermit(c)
  <2>1. apc[c] = "release" /\ apc'[c] = "exit" /\ permits' = permits - 1
    BY <1>1, Zenon DEF ReleasePermit, ActorTo, TypeInv
  <2> QED
    BY <1>1, <2>1, ActorShape, Zenon DEF HoldsPermit
<1>2. CASE ~ ReleasePermit(c)
  <2>1. apc[c] \in {"none", "exit", "finished"} <=> apc'[c] \in {"none", "exit", "finished"}
    BY <1>2 DEF Actor, ReadRequest, SendChecks, PushJob, RecvResponse, TimedOut, WriteResponse,
       ActorPanics, ActorSwaps, ActorNotes, ActorExits, ActorTo, TypeInv
  <2>2. permits' = permits
    BY <1>2, Zenon DEF Actor, ReadRequest, SendChecks, PushJob, RecvResponse, TimedOut, WriteResponse,
       ActorPanics, ActorSwaps, ActorNotes, ActorExits
  <2> QED
    BY <1>2, <2>1, <2>2, ActorShape, Zenon DEF HoldsPermit
<1> QED
  BY <1>1, <1>2, Zenon

LEMMA PermitStep ==
  ASSUME TypeInv, AdmitInv, PermitInv, Next
  PROVE  PermitInv'
<1>0. UNCHANGED <<worker_count, max_requests>> /\ queue_capacity' = queue_capacity
  BY Zenon DEF Next, params, queue_capacity
<1>n. permits \in Int /\ queue_capacity \in Nat
  BY Numbers, Zenon DEF TypeInv
<1>h. IsFiniteSet(HoldsPermit) /\ Cardinality(HoldsPermit) \in Nat
  BY Connections, Zenon DEF HoldsPermit
<1>1. ASSUME UNCHANGED <<main, permits>>, HoldsPermit' = HoldsPermit
      PROVE  PermitInv'
  BY <1>0, <1>1, Zenon DEF PermitInv, PermitsExact
<1>2. ASSUME NEW c \in Conns, Actor(c) \/ ActorPanics(c)
      PROVE  PermitInv'
  <2>1. main' = main
    BY <1>2, ActorShape, Zenon DEF mainVars
  <2>2. CASE ~ ReleasePermit(c)
    BY <1>1, <1>2, <2>1, <2>2, HoldersActor, Zenon
  <2>3. CASE ReleasePermit(c)
    <3>1. c \in HoldsPermit /\ HoldsPermit' = HoldsPermit \ {c} /\ permits' = permits - 1
      BY <1>2, <2>3, HoldersActor, Zenon
    <3>2. Cardinality(HoldsPermit') = Cardinality(HoldsPermit) - 1
      BY <1>h, <3>1, FS_RemoveElement, Zenon
    <3>3. permits' >= 0 /\ Cardinality(HoldsPermit') \in Nat
      BY <3>1, Connections, <1>h, <3>2, <1>n DEF PermitInv, PermitsExact, HoldsPermit
    <3> QED
      BY <1>0, <1>n, <1>h, <2>1, <3>1, <3>2, <3>3 DEF PermitInv, PermitsExact
  <2> QED
    BY <2>2, <2>3, Zenon
<1>3. ASSUME NEW w \in Workers, Worker(w) \/ HandlerPanics(w)
      PROVE  PermitInv'
  BY <1>1, <1>3, WorkerShape, Zenon DEF mainVars, HoldsPermit
<1>4. CASE CancelToken
  BY <1>1, <1>4, Zenon DEF CancelToken, mainVars, HoldsPermit
<1>5. CASE Main /\ ~ StartActor
  <2>1. HoldsPermit' = HoldsPermit
    BY <1>5, MainShape, Zenon DEF HoldsPermit
  <2>2. CASE SpawnWorker \/ SpawnFails \/ Unwind \/ LoopTest \/ SeesCancelled
    <3>1. main \notin {"start", "accept", "join", "done"} /\ main' \notin {"start", "accept", "join"}
          /\ permits' = permits /\ (main' = "done" => main = "unwind")
      BY <2>2, Zenon DEF SpawnWorker, SpawnFails, Unwind, LoopTest, SeesCancelled
    <3>2. main = "unwind" => permits = 0
      <4>1. SUFFICES ASSUME main = "unwind" PROVE HoldsPermit = {}
        BY FS_EmptySet, <1>n DEF PermitInv, PermitsExact
      <4> QED
        BY <4>1, Zenon DEF AdmitInv, Admitted, HoldsPermit
    <3> QED
      BY <1>0, <2>1, <3>1, <3>2, Zenon DEF PermitInv, PermitsExact
  <2>3. CASE NotCancelled \/ ReadsToken \/ TokenFails \/ ChecksFull \/ AcceptsNothing
    BY <1>0, <1>n, <2>1, <2>3
       DEF PermitInv, PermitsExact, NotCancelled, ReadsToken, TokenFails, ChecksFull, AcceptsNothing,
           MainTo
  <2>4. CASE AcceptFails \/ Accept \/ StartFails \/ WaitPermits \/ JoinAll
    BY <1>0, <1>n, <1>h, <2>1, <2>4
       DEF PermitInv, PermitsExact, AcceptFails, Accept, StartFails, WaitPermits, JoinAll, MainTo
  <2> QED
    BY <1>5, <2>2, <2>3, <2>4, Zenon DEF Main
<1>6. CASE StartActor
  <2> DEFINE c == Cardinality(Admitted) + 1
  <2>1. /\ c \in Conns /\ apc[c] = "none" /\ apc'[c] = "read" /\ DOMAIN apc' = Conns
        /\ \A d \in Conns \ {c} : apc'[d] = apc[d]
    BY <1>6, NewActor, Zenon
  <2> HIDE DEF c
  <2>2. HoldsPermit' = HoldsPermit \cup {c} /\ c \notin HoldsPermit
    BY <2>1, Zenon DEF HoldsPermit
  <2>3. Cardinality(HoldsPermit') = Cardinality(HoldsPermit) + 1
    BY <1>h, <2>2, FS_AddElement, Zenon
  <2>4. main = "start" /\ main' = "loop" /\ permits' = permits
    BY <1>6, Zenon DEF StartActor
  <2> QED
    BY <1>0, <1>n, <1>h, <2>3, <2>4 DEF PermitInv, PermitsExact
<1> QED
  BY <1>2, <1>3, <1>4, <1>5, <1>6, Zenon DEF Next

LEMMA ThreadStep ==
  ASSUME TypeInv, AdmitInv, ThreadInv, Next
  PROVE  ThreadInv'
<1>0. UNCHANGED <<worker_count, max_requests>> /\ Workers' = Workers
  BY Zenon DEF Next, params, Workers
<1>1. ASSUME NEW c \in Conns, Actor(c) \/ ActorPanics(c)
      PROVE  ThreadInv'
  <2>1. UNCHANGED <<main, actors, wpc>> /\ apc[c] \notin {"none", "finished"}
        /\ \A d \in Conns \ {c} : apc'[d] = apc[d]
    BY <1>1, ActorShape, Zenon DEF mainVars
  <2> QED
    BY <1>0, <2>1, Zenon DEF ThreadInv
<1>2. ASSUME NEW w \in Workers, Worker(w) \/ HandlerPanics(w)
      PROVE  ThreadInv'
  <2>1. UNCHANGED <<main, actors, apc>> /\ wpc[w] \notin {"none", "finished"}
        /\ \A v \in AllWorkers \ {w} : wpc'[v] = wpc[v]
    BY <1>2, WorkerShape, Zenon DEF mainVars
  <2> QED
    BY <1>0, <2>1, Numbers, Zenon DEF ThreadInv
<1>3. CASE CancelToken
  BY <1>0, <1>3, Zenon DEF CancelToken, mainVars, ThreadInv
<1>4. CASE SpawnWorker
  BY <1>0, <1>4, Zenon DEF SpawnWorker, ThreadInv
<1>5. CASE Unwind
  BY <1>0, <1>5, Zenon DEF Unwind, ThreadInv, AdmitInv, Admitted
<1>6. CASE LoopTest
  BY <1>0, <1>6, Zenon DEF LoopTest, ThreadInv, Unfinished
<1>7. CASE SpawnFails \/ SeesCancelled \/ NotCancelled \/ ReadsToken \/ TokenFails \/ ChecksFull
  BY <1>0, <1>7, Zenon DEF SpawnFails, SeesCancelled, NotCancelled, ReadsToken, TokenFails, ChecksFull,
     MainTo, ThreadInv
<1>8. CASE AcceptsNothing \/ AcceptFails \/ Accept \/ StartFails \/ WaitPermits
  BY <1>0, <1>8, Zenon DEF AcceptsNothing, AcceptFails, Accept, StartFails, WaitPermits, MainTo, ThreadInv
<1>9. CASE StartActor
  <2> DEFINE c == Cardinality(Admitted) + 1
  <2>1. /\ c \in Conns /\ apc[c] = "none" /\ apc'[c] = "read"
        /\ \A d \in Conns \ {c} : apc'[d] = apc[d]
    BY <1>9, NewActor, Zenon
  <2>2. actors' = Unfinished \cup {c} /\ main' = "loop"
    BY <1>9, Zenon DEF StartActor
  <2> HIDE DEF c
  <2> QED
    BY <1>0, <2>1, <2>2, Zenon DEF ThreadInv, Unfinished
<1>10. CASE JoinAll
  BY <1>0, <1>10, Zenon DEF JoinAll, ThreadInv
<1> QED
  BY <1>1, <1>2, <1>3, <1>4, <1>5, <1>6, <1>7, <1>8, <1>9, <1>10, Zenon DEF Next, Main

-----------------------------------------------------------------------------
(* The flag is never taken back. *)
LEMMA FlagStays ==
  ASSUME Next, cancelled
  PROVE  cancelled'
<1>1. CASE Main
  BY <1>1, Zenon DEF Main, SpawnWorker, SpawnFails, Unwind, LoopTest, SeesCancelled, NotCancelled, ReadsToken,
     TokenFails, ChecksFull, AcceptsNothing, AcceptFails, Accept, StartActor, StartFails, WaitPermits,
     JoinAll, MainTo
<1>2. CASE CancelToken
  BY <1>2, Zenon DEF CancelToken
<1>3. ASSUME NEW c \in Conns, Actor(c) \/ ActorPanics(c) PROVE cancelled'
  BY <1>3, Zenon DEF Actor, ReadRequest, SendChecks, PushJob, RecvResponse, TimedOut, WriteResponse,
     ActorPanics, ActorSwaps, ActorNotes, ReleasePermit, ActorExits
<1>4. ASSUME NEW w \in Workers, Worker(w) \/ HandlerPanics(w) PROVE cancelled'
  BY <1>4, Zenon DEF Worker, Polls, Receives, TimesOut, Starts, Handles, Again, HandlerPanics, WorkerSwaps,
     WorkerNotes
<1> QED
  BY <1>1, <1>2, <1>3, <1>4, Zenon DEF Next

LEMMA OutcomeStep ==
  ASSUME TypeInv, AdmitInv, OutcomeInv, JobInv, Next
  PROVE  OutcomeInv'
<1>1. ASSUME NEW d \in Conns, apc'[d] = apc[d], outcome'[d] = outcome[d],
             response'[d] = response[d]
      PROVE  OutcomeOf(d)'
  BY <1>1, FlagStays, Zenon DEF OutcomeInv, OutcomeOf
<1>2. ASSUME NEW c \in Conns, Actor(c) \/ ActorPanics(c), NEW d \in Conns
      PROVE  OutcomeOf(d)'
  <2>1. response' = response /\ \A e \in Conns \ {c} : apc'[e] = apc[e] /\ outcome'[e] = outcome[e]
    BY <1>2, ActorShape, Zenon
  <2>2. CASE d # c
    BY <1>1, <2>1, <2>2, Zenon
  <2>3. CASE d = c
    <3> USE DEF TypeInv, OutcomeInv, OutcomeOf, ActorTo, Ends
    <3>1. CASE ReadRequest(c) \/ WriteResponse(c)
      BY <2>1, <2>3, <3>1 DEF ReadRequest, WriteResponse
    <3>2. CASE SendChecks(c) \/ TimedOut(c)
      BY <2>1, <2>3, <3>2 DEF SendChecks, TimedOut
    <3>3. CASE PushJob(c)
      BY <2>1, <2>3, <3>3 DEF PushJob
    <3>4. CASE RecvResponse(c)
      BY <2>1, <2>3, <3>4 DEF RecvResponse
    <3>5. CASE ActorPanics(c)
      BY <2>1, <2>3, <3>5 DEF ActorPanics
    <3>6. CASE ActorSwaps(c)
      BY <2>1, <2>3, <3>6 DEF ActorSwaps
    <3>7. CASE ActorNotes(c) \/ ReleasePermit(c) \/ ActorExits(c)
      BY <2>1, <2>3, <3>7 DEF ActorNotes, ReleasePermit, ActorExits
    <3> QED
      BY <1>2, <3>1, <3>2, <3>3, <3>4, <3>5, <3>6, <3>7, Zenon DEF Actor
  <2> QED
    BY <2>2, <2>3, Zenon
<1>3. ASSUME NEW w \in Workers, Worker(w) \/ HandlerPanics(w), NEW d \in Conns
      PROVE  OutcomeOf(d)'
  <2>1. apc' = apc /\ outcome' = outcome
    BY <1>3, WorkerShape, Zenon
  <2>2. response'[d] = response[d] \/ response'[d] # "refused" \/ cancelled
    BY <1>3, Zenon DEF TypeInv, Worker, Polls, Receives, TimesOut, Starts, Handles, Again, HandlerPanics,
       WorkerSwaps, WorkerNotes, Answer
  <2> QED
    BY <2>1, <2>2, FlagStays, Zenon DEF OutcomeInv, OutcomeOf
<1>4. ASSUME CancelToken, NEW d \in Conns PROVE OutcomeOf(d)'
  BY <1>1, <1>4, Zenon DEF CancelToken
<1>5. ASSUME Main, ~ StartActor, NEW d \in Conns PROVE OutcomeOf(d)'
  BY <1>1, <1>5, MainShape, Zenon
<1>6. ASSUME StartActor, NEW d \in Conns PROVE OutcomeOf(d)'
  <2> DEFINE c == Cardinality(Admitted) + 1
  <2>1. /\ c \in Conns /\ apc[c] = "none" /\ apc'[c] = "read"
        /\ \A e \in Conns \ {c} : apc'[e] = apc[e]
    BY <1>6, NewActor, Zenon
  <2> HIDE DEF c
  <2>2. UNCHANGED <<outcome, response, cancelled>>
    BY <1>6, Zenon DEF StartActor
  <2> QED
    BY <2>1, <2>2, Zenon DEF OutcomeInv, OutcomeOf
<1>7. \A d \in Conns : OutcomeOf(d)'
  BY <1>2, <1>3, <1>4, <1>5, <1>6, Zenon DEF Next
<1> QED
  BY <1>7, Zenon DEF OutcomeInv

(* Where the pool has returned, nothing moves but the token. *)
LEMMA AtRest ==
  ASSUME TypeInv, ThreadInv, Next, main = "done"
  PROVE  CancelToken
<1>1. ~ Main
  BY Zenon DEF Main, SpawnWorker, SpawnFails, Unwind, LoopTest, SeesCancelled, NotCancelled, ReadsToken,
     TokenFails, ChecksFull, AcceptsNothing, AcceptFails, Accept, StartActor, StartFails, WaitPermits,
     JoinAll, MainTo
<1>2. ASSUME NEW c \in Conns, Actor(c) \/ ActorPanics(c) PROVE FALSE
  BY <1>2, ActorShape, Zenon DEF ThreadInv
<1>3. ASSUME NEW w \in Workers, Worker(w) \/ HandlerPanics(w) PROVE FALSE
  BY <1>3, WorkerShape, Zenon DEF ThreadInv
<1> QED
  BY <1>1, <1>2, <1>3, Zenon DEF Next

(* The cause that was or will be noted stays so. *)
LEMMA NotedStays ==
  ASSUME TypeInv, AdmitInv, ThreadInv, OutcomeInv, CauseInv, Next, Noted
  PROVE  Noted'
<1>0. Workers' = Workers
  BY Zenon DEF Next, params, Workers
<1>1. CASE Main
  <2>1. first_error' = first_error
    BY <1>1, MainShape, Zenon
  <2>2. \A c \in Conns : apc[c] = "note" => apc'[c] = "note"
    BY <1>1, MainShape, NewActor, Zenon
  <2>3. \A w \in Workers : wpc[w] = "note" => wpc'[w] = "note"
    BY <1>1, MainShape, Numbers, Zenon DEF SpawnWorker, TypeInv
  <2>4. accept_error \in {"token", "accept", "start"} => accept_error' = accept_error
    BY <1>1, ServerAssumption, Zenon
       DEF CauseInv, Errors, Main, SpawnWorker, SpawnFails, Unwind, LoopTest, SeesCancelled,
           NotCancelled, ReadsToken, TokenFails, ChecksFull, AcceptsNothing, AcceptFails, Accept,
           StartActor, StartFails, WaitPermits, JoinAll, MainTo
  <2>5. main = "unwind" => result' = "start"
    BY <1>1, Zenon
       DEF Main, SpawnWorker, SpawnFails, Unwind, LoopTest, SeesCancelled,
           NotCancelled, ReadsToken, TokenFails, ChecksFull, AcceptsNothing, AcceptFails, Accept,
           StartActor, StartFails, WaitPermits, JoinAll, MainTo
  <2>6. result # "start"
    BY <1>1, AtRest, ServerAssumption, Zenon
       DEF CauseInv, Errors, Main, SpawnWorker, SpawnFails, Unwind, LoopTest, SeesCancelled,
           NotCancelled, ReadsToken, TokenFails, ChecksFull, AcceptsNothing, AcceptFails, Accept,
           StartActor, StartFails, WaitPermits, JoinAll, MainTo
  <2> QED
    BY <1>0, <2>1, <2>2, <2>3, <2>4, <2>5, <2>6, Zenon DEF Noted
<1>2. CASE CancelToken
  BY <1>0, <1>2, Zenon DEF CancelToken, mainVars, Noted
<1>3. ASSUME NEW c \in Conns, Actor(c) \/ ActorPanics(c)
      PROVE  Noted'
  <2>1. UNCHANGED <<main, accept_error, result, wpc>> /\ \A d \in Conns \ {c} : apc'[d] = apc[d]
    BY <1>3, ActorShape, Zenon DEF mainVars
  <2>2. CASE ActorNotes(c)
    <3>1. outcome[c] # None
      BY <2>2, ServerAssumption, Zenon DEF ActorNotes, OutcomeInv, OutcomeOf, Errors
    <3> QED
      BY <2>2, <3>1, Zenon DEF ActorNotes, Noted
  <2>3. CASE ~ ActorNotes(c)
    <3>1. first_error' = first_error /\ apc[c] # "note"
      BY <1>3, <2>3, Zenon DEF Actor, ReadRequest, SendChecks, PushJob, RecvResponse, TimedOut, WriteResponse,
         ActorPanics, ActorSwaps, ReleasePermit, ActorExits
    <3> QED
      BY <1>0, <2>1, <3>1, Zenon DEF Noted
  <2> QED
    BY <2>2, <2>3, Zenon
<1>4. ASSUME NEW w \in Workers, Worker(w) \/ HandlerPanics(w)
      PROVE  Noted'
  <2>1. UNCHANGED <<main, accept_error, result, apc>> /\ \A v \in AllWorkers \ {w} : wpc'[v] = wpc[v]
    BY <1>4, WorkerShape, Zenon DEF mainVars
  <2>2. CASE WorkerNotes(w)
    BY <2>2, ServerAssumption, Zenon DEF WorkerNotes, Noted, Errors
  <2>3. CASE ~ WorkerNotes(w)
    <3>1. first_error' = first_error /\ wpc[w] # "note"
      BY <1>4, <2>3, Zenon DEF Worker, Polls, Receives, TimesOut, Starts, Handles, Again, HandlerPanics,
         WorkerSwaps
    <3> QED
      BY <1>0, <2>1, <3>1, Numbers, Zenon DEF Noted
  <2> QED
    BY <2>2, <2>3, Zenon
<1> QED
  BY <1>1, <1>2, <1>3, <1>4, Zenon DEF Next

LEMMA CauseStep ==
  ASSUME TypeInv, AdmitInv, ThreadInv, OutcomeInv, CauseInv, Next
  PROVE  CauseInv'
<1>0. Workers' = Workers
  BY Zenon DEF Next, params, Workers
<1>1. CASE main = "done"
  <2>1. CancelToken
    BY <1>1, AtRest, Zenon
  <2> QED
    BY <1>0, <2>1, Zenon DEF CancelToken, mainVars, CauseInv, Noted, CauseReturned
<1> SUFFICES ASSUME main # "done" PROVE CauseInv'
  BY <1>1, Zenon
<1>2. result = None /\ None \notin Errors \cup {"ok"}
  BY ServerAssumption, Zenon DEF CauseInv
<1>3. ASSUME UNCHANGED <<main, accept_error, result>>, cancelled' = cancelled
      PROVE  CauseInv'
  BY <1>3, NotedStays, Zenon DEF CauseInv, CauseReturned
<1>4. CASE CancelToken
  BY <1>3, <1>4, Zenon DEF CancelToken, mainVars
<1>5. ASSUME NEW c \in Conns, Actor(c) \/ ActorPanics(c)
      PROVE  CauseInv'
  <2>1. UNCHANGED <<main, accept_error, result>>
    BY <1>5, ActorShape, Zenon DEF mainVars
  <2>2. CASE ActorSwaps(c) /\ ~ cancelled
    <3>1. apc'[c] = "note" /\ cancelled'
      BY <2>2, Zenon DEF ActorSwaps, ActorTo, TypeInv
    <3> QED
      BY <1>2, <2>1, <3>1, Zenon DEF CauseInv, Noted, CauseReturned, Errors
  <2>3. CASE ~ (ActorSwaps(c) /\ ~ cancelled)
    <3>1. cancelled' = cancelled
      BY <1>5, <2>3, Zenon DEF Actor, ReadRequest, SendChecks, PushJob, RecvResponse, TimedOut, WriteResponse,
         ActorPanics, ActorSwaps, ActorNotes, ReleasePermit, ActorExits, TypeInv
    <3> QED
      BY <1>3, <2>1, <3>1, Zenon
  <2> QED
    BY <2>2, <2>3, Zenon
<1>6. ASSUME NEW w \in Workers, Worker(w) \/ HandlerPanics(w)
      PROVE  CauseInv'
  <2>1. UNCHANGED <<main, accept_error, result>>
    BY <1>6, WorkerShape, Zenon DEF mainVars
  <2>2. CASE WorkerSwaps(w) /\ ~ cancelled
    <3>1. wpc'[w] = "note" /\ cancelled'
      BY <2>2, Numbers, Zenon DEF WorkerSwaps, WorkerTo, TypeInv
    <3> QED
      BY <1>0, <1>2, <2>1, <3>1, Zenon DEF CauseInv, Noted, CauseReturned, Errors
  <2>3. CASE ~ (WorkerSwaps(w) /\ ~ cancelled)
    <3>1. cancelled' = cancelled
      BY <1>6, <2>3, Zenon DEF Worker, Polls, Receives, TimesOut, Starts, Handles, Again, HandlerPanics,
         WorkerSwaps, WorkerNotes, TypeInv
    <3> QED
      BY <1>3, <2>1, <3>1, Zenon
  <2> QED
    BY <2>2, <2>3, Zenon
<1>7. CASE Main
  <2>0. cancelled => Noted'
    BY NotedStays, Zenon DEF CauseInv
  <2>1. CASE SpawnWorker \/ LoopTest \/ NotCancelled \/ ReadsToken
    BY <1>2, <2>0, <2>1
       DEF CauseInv, CauseReturned, Errors, SpawnWorker, LoopTest, NotCancelled, ReadsToken, MainTo
  <2>2. CASE ChecksFull \/ AcceptsNothing \/ Accept \/ StartActor \/ WaitPermits
    BY <1>2, <2>0, <2>2
       DEF CauseInv, CauseReturned, Errors, ChecksFull, AcceptsNothing, Accept, StartActor,
           WaitPermits, MainTo
  <2>3. CASE SpawnFails \/ TokenFails \/ AcceptFails \/ StartFails
    BY <1>2, <2>3, Zenon
       DEF CauseInv, CauseReturned, Errors, Noted, SpawnFails, TokenFails, AcceptFails, StartFails
  <2>4. CASE Unwind
    BY <1>2, <2>0, <2>4, Zenon DEF CauseInv, CauseReturned, Errors, Unwind
  <2>5. CASE SeesCancelled
    BY <1>2, <2>0, <2>5, Zenon DEF CauseInv, CauseReturned, Errors, SeesCancelled
  <2>6. CASE JoinAll
    <3>1. cancelled /\ first_error = None => accept_error \in {"token", "accept", "start"}
      BY <1>2, <2>6, Zenon DEF JoinAll, CauseInv, Noted, ThreadInv, Errors
    <3>2. PICK restored \in BOOLEAN : result' = Result(restored)
      BY <2>6, Zenon DEF JoinAll
    <3>3. CASE first_error # None
      BY <1>2, <2>0, <2>6, <3>2, <3>3, Zenon
         DEF JoinAll, Result, CauseInv, CauseReturned, TypeInv, Errors
    <3>4. CASE first_error = None /\ accept_error # None
      <4>1. result' = accept_error /\ accept_error # "cancelled"
        BY <3>1, <3>2, <3>4, Zenon DEF Result, CauseInv
      <4> QED
        BY <1>2, <2>0, <2>6, <3>4, <4>1, Zenon DEF JoinAll, CauseInv, CauseReturned, TypeInv, Errors
    <3>5. CASE first_error = None /\ accept_error = None
      <4>1. result' \in {"ok", "restore"} /\ ~ cancelled
        BY <1>2, <2>6, <3>1, <3>2, <3>5, Zenon DEF JoinAll, Result, AdmitInv, Errors
      <4> QED
        BY <1>2, <2>6, <3>5, <4>1, Zenon DEF JoinAll, CauseInv, CauseReturned
    <3> QED
      BY <3>3, <3>4, <3>5, Zenon
  <2> QED
    BY <1>7, <2>1, <2>2, <2>3, <2>4, <2>5, <2>6, Zenon DEF Main
<1> QED
  BY <1>4, <1>5, <1>6, <1>7, Zenon DEF Next

-----------------------------------------------------------------------------
(* A queue that grows at its end. *)
LEMMA QueuePush ==
  ASSUME NEW q \in Seq(Conns), NEW e \in Conns,
         \A i \in 1..Len(q) : q[i] # e,
         \A i, j \in 1..Len(q) : q[i] = q[j] => i = j,
         NEW p, p = Append(q, e)
  PROVE  /\ Len(p) = Len(q) + 1
         /\ {p[i] : i \in 1..Len(p)} = {q[i] : i \in 1..Len(q)} \cup {e}
         /\ \A i, j \in 1..Len(p) : p[i] = p[j] => i = j
<1>1. /\ Len(q) \in Nat /\ Len(p) = Len(q) + 1 /\ p[Len(q) + 1] = e
      /\ \A i \in 1..Len(q) : p[i] = q[i]
  OBVIOUS
<1>2. \A i \in 1..Len(p) : i \in 1..Len(q) \/ i = Len(q) + 1
  BY <1>1
<1>3. \A i \in 1..Len(q) : i \in 1..Len(p) /\ Len(q) + 1 \in 1..Len(p)
  BY <1>1
<1>4. Len(q) + 1 \in 1..Len(p)
  BY <1>1
<1>5. {p[i] : i \in 1..Len(p)} = {q[i] : i \in 1..Len(q)} \cup {e}
  BY <1>1, <1>2, <1>3, <1>4
<1> QED
  BY <1>1, <1>2, <1>5

(* A queue whose first element is taken. *)
Popped(q, p) ==
  /\ Len(p) = Len(q) - 1
  /\ Head(q) \in {q[i] : i \in 1..Len(q)}
  /\ \A i \in 1..Len(p) : i + 1 \in 1..Len(q) /\ p[i] = q[i + 1] /\ p[i] # Head(q)
  /\ \A i \in 1..Len(q) : q[i] # Head(q) => i - 1 \in 1..Len(p) /\ p[i - 1] = q[i]
  /\ \A i, j \in 1..Len(p) : p[i] = p[j] => i = j

LEMMA QueuePop ==
  ASSUME NEW q \in Seq(Conns), Len(q) # 0,
         \A i, j \in 1..Len(q) : q[i] = q[j] => i = j,
         NEW p, p = Tail(q)
  PROVE  Popped(q, p)
<1>1. /\ Len(q) \in Nat \ {0} /\ Len(p) = Len(q) - 1 /\ Head(q) = q[1]
      /\ \A i \in 1..Len(p) : p[i] = q[i + 1]
  OBVIOUS
<1>2. \A i \in 1..Len(p) : i + 1 \in 1..Len(q) /\ i + 1 # 1
  BY <1>1
<1>3. \A i \in 1..Len(q) : i # 1 => i - 1 \in 1..Len(p) /\ p[i - 1] = q[i]
  BY <1>1
<1>4. 1 \in 1..Len(q)
  BY <1>1
<1>5. \A i \in 1..Len(p) : p[i] # Head(q)
  BY <1>1, <1>2, <1>4, Zenon
<1>6. \A i \in 1..Len(q) : q[i] # Head(q) => i - 1 \in 1..Len(p) /\ p[i - 1] = q[i]
  BY <1>1, <1>3, Zenon
<1>7. \A i, j \in 1..Len(p) : p[i] = p[j] => i = j
  <2> SUFFICES ASSUME NEW i \in 1..Len(p), NEW j \in 1..Len(p), p[i] = p[j] PROVE i = j
    BY Zenon
  <2>1. i + 1 = j + 1
    BY <1>1, <1>2
  <2> QED
    BY <2>1
<1>8. Head(q) \in {q[i] : i \in 1..Len(q)}
  BY <1>1, <1>4, Zenon
<1> QED BY <1>1, <1>2, <1>5, <1>6, <1>7, <1>8, Zenon DEF Popped

(* How an actor's step moves it, seen from its job. *)
LEMMA JobActor ==
  ASSUME TypeInv, NEW c \in Conns, Actor(c) \/ ActorPanics(c)
  PROVE  /\ apc[c] \notin {"none", "read", "send", "push"} =>
              apc'[c] \notin {"none", "read", "send", "push"}
         /\ apc'[c] = "push" => apc[c] = "send" /\ ~ cancelled
         /\ apc[c] \in {"recv", "timed", "swap"} /\ response[c] = "none" =>
              \/ apc'[c] \in {"recv", "timed", "swap"}
              \/ cancelled' /\ apc'[c] \in {"note", "release"}
         /\ apc[c] \in {"note", "release", "exit", "finished"} =>
              apc'[c] \in {"release", "exit", "finished"}
<1> USE DEF TypeInv, ActorTo
<1>1. CASE ReadRequest(c) \/ SendChecks(c) \/ PushJob(c)
  BY <1>1, Zenon DEF ReadRequest, SendChecks, PushJob
<1>2. CASE RecvResponse(c)
  BY <1>2 DEF RecvResponse
<1>3. CASE TimedOut(c) \/ WriteResponse(c) \/ ActorPanics(c)
  BY <1>3 DEF TimedOut, WriteResponse, ActorPanics
<1>4. CASE ActorSwaps(c) \/ ActorNotes(c)
  BY <1>4, Zenon DEF ActorSwaps, ActorNotes
<1>5. CASE ReleasePermit(c) \/ ActorExits(c)
  BY <1>5, Zenon DEF ReleasePermit, ActorExits
<1> QED
  BY <1>1, <1>2, <1>3, <1>4, <1>5, Zenon DEF Actor

LEMMA QueuedConns ==
  ASSUME TypeInv
  PROVE  Queued \subseteq Conns /\ InFlight \subseteq Conns
<1>1. Queued \subseteq Conns
  <2> SUFFICES ASSUME NEW i \in 1..Len(queue) PROVE queue[i] \in Conns
    BY Zenon DEF Queued
  <2> QED
    BY DEF TypeInv
<1> QED
  BY <1>1, Zenon DEF InFlight

(* Before the flag is set, whoever is in flight holds a permit. *)
LEMMA FlightHolds ==
  ASSUME TypeInv, JobInv, ~ cancelled
  PROVE  InFlight \subseteq HoldsPermit
<1>1. \A c \in Queued : c \in Conns /\ apc[c] \in {"recv", "timed", "swap"}
  BY QueuedConns, Zenon DEF JobInv
<1> QED
  BY <1>1, Zenon DEF InFlight, HoldsPermit

LEMMA JobStep ==
  ASSUME TypeInv, AdmitInv, PermitInv, JobInv, Next
  PROVE  JobInv'
<1>0. /\ Workers' = Workers /\ queue_capacity' = queue_capacity /\ queue_capacity \in Nat
      /\ Workers \subseteq AllWorkers
  BY Numbers, Zenon DEF Next, params, Workers, queue_capacity
<1>q. Queued \subseteq Conns /\ InFlight \subseteq Conns
  BY QueuedConns, Zenon
<1>1. ASSUME UNCHANGED <<queue, response, job>>,
             \A c \in Conns : apc'[c] = apc[c] \/ (apc[c] = "none" /\ apc'[c] = "read"),
             \A w \in Workers : wpc'[w] \in {"got", "handle"} => wpc[w] \in {"got", "handle"}
      PROVE  JobInv'
  <2>1. Queued' = Queued /\ InFlight' = InFlight
    BY <1>1, Zenon DEF Queued, InFlight
  <2>2. \A c \in Queued : \/ apc'[c] \in {"recv", "timed", "swap"}
                          \/ cancelled' /\ apc'[c] \in {"note", "release", "exit", "finished"}
    BY <1>1, <1>q, FlagStays, Zenon DEF JobInv
  <2>3. \A w \in Workers : wpc'[w] \in {"got", "handle"} =>
          job'[w] \in Conns \ Queued /\ apc'[job'[w]] \notin {"none", "read", "send", "push"}
    BY <1>1, Zenon DEF JobInv
  <2>4. \A c \in Conns : apc'[c] \in {"none", "read", "send", "push"} => response'[c] = "none"
    BY <1>1, Zenon DEF JobInv
  <2> QED
    BY <1>0, <1>1, <2>1, <2>2, <2>3, <2>4 DEF JobInv
<1>2. CASE CancelToken
  <2>1. UNCHANGED <<queue, response, job, apc, wpc>>
    BY <1>2, Zenon DEF CancelToken
  <2> QED
    BY <1>1, <2>1, Zenon
<1>3. CASE Main
  <2>1. \A c \in Conns : apc'[c] = apc[c] \/ (apc[c] = "none" /\ apc'[c] = "read")
    <3>1. CASE StartActor
      <4> DEFINE c == Cardinality(Admitted) + 1
      <4>1. apc[c] = "none" /\ apc'[c] = "read" /\ \A d \in Conns \ {c} : apc'[d] = apc[d]
        BY <3>1, NewActor, Zenon
      <4> QED
        BY <4>1, Zenon
    <3>2. CASE ~ StartActor
      BY <1>3, <3>2, MainShape, Zenon
    <3> QED
      BY <3>1, <3>2, Zenon
  <2>2. \A w \in Workers : wpc'[w] \in {"got", "handle"} => wpc[w] \in {"got", "handle"}
    BY <1>0, <1>3, MainShape, Zenon DEF SpawnWorker, TypeInv
  <2> QED
    BY <1>1, <1>3, <2>1, <2>2, MainShape, Zenon
<1>4. ASSUME NEW c \in Conns, Actor(c) \/ ActorPanics(c)
      PROVE  JobInv'
  <2>1. /\ UNCHANGED <<response, wpc, job>>
        /\ \A d \in Conns \ {c} : apc'[d] = apc[d]
    BY <1>4, ActorShape, Zenon
  <2>2. \A w \in Workers : wpc'[w] \in {"got", "handle"} =>
          job'[w] \in Conns \ Queued /\ apc'[job'[w]] \notin {"none", "read", "send", "push"}
    BY <1>4, <2>1, JobActor DEF JobInv
  <2>3. \A d \in Conns : apc'[d] \in {"none", "read", "send", "push"} => response'[d] = "none"
    BY <1>4, <2>1, JobActor, Zenon DEF JobInv
  <2>4. \A d \in Queued : \/ apc'[d] \in {"recv", "timed", "swap"}
                          \/ cancelled' /\ apc'[d] \in {"note", "release", "exit", "finished"}
    BY <1>4, <1>q, <2>1, JobActor, FlagStays, Zenon DEF JobInv
  <2>5. CASE queue' = queue
    <3>1. Queued' = Queued
      BY <2>5, Zenon DEF Queued
    <3>2. Cardinality(InFlight') <= queue_capacity
      <4>1. CASE apc'[c] # "push"
        <5>1. InFlight' \subseteq InFlight
          BY <2>1, <3>1, <4>1, Zenon DEF InFlight
        <5> QED
          BY <1>0, <1>q, <5>1, Connections DEF JobInv
      <4>2. CASE apc'[c] = "push"
        <5>1. apc[c] = "send" /\ ~ cancelled
          BY <1>4, <4>2, JobActor, Zenon
        <5>2. InFlight' \subseteq HoldsPermit
          BY <2>1, <3>1, <5>1, FlightHolds, Zenon DEF InFlight, HoldsPermit
        <5>3. Cardinality(InFlight') <= Cardinality(HoldsPermit) /\ Cardinality(InFlight') \in Nat
          BY <5>2, Connections, Zenon DEF HoldsPermit
        <5>4. Cardinality(HoldsPermit) <= permits /\ permits <= queue_capacity
              /\ Cardinality(HoldsPermit) \in Nat
          BY Connections DEF PermitInv, PermitsExact, HoldsPermit, TypeInv
        <5> QED
          BY <1>0, <5>3, <5>4 DEF TypeInv
      <4> QED
        BY <4>1, <4>2, Zenon
    <3> QED
      BY <1>0, <2>1, <2>2, <2>3, <2>4, <2>5, <3>1, <3>2 DEF JobInv
  <2>6. CASE queue' # queue
    <3>1. apc[c] = "push" /\ queue' = Append(queue, c) /\ apc'[c] = "recv"
      BY <1>4, <2>6, Zenon DEF Actor, ReadRequest, SendChecks, PushJob, RecvResponse, TimedOut, WriteResponse,
         ActorPanics, ActorSwaps, ActorNotes, ReleasePermit, ActorExits, ActorTo, TypeInv
    <3>2. c \notin Queued /\ \A w \in Workers : wpc[w] \in {"got", "handle"} => job[w] # c
      BY <3>1, Zenon DEF JobInv
    <3>3. /\ Len(queue') = Len(queue) + 1
          /\ Queued' = Queued \cup {c}
          /\ \A i, j \in 1..Len(queue') : queue'[i] = queue'[j] => i = j
      <4>1. queue \in Seq(Conns) /\ \A i \in 1..Len(queue) : queue[i] # c
        BY <3>2, Zenon DEF Queued, TypeInv
      <4>2. \A i, j \in 1..Len(queue) : queue[i] = queue[j] => i = j
        BY Zenon DEF JobInv
      <4> QED
        BY <3>1, <4>1, <4>2, QueuePush DEF Queued
    <3>4. Cardinality(Queued') = Cardinality(Queued) + 1
      BY <1>q, <3>2, <3>3, FS_AddElement, Connections, Zenon
    <3>5. InFlight' = InFlight
      BY <2>1, <3>1, <3>3, Zenon DEF InFlight
    <3>6. \A d \in Queued' : \/ apc'[d] \in {"recv", "timed", "swap"}
                             \/ cancelled' /\ apc'[d] \in {"note", "release", "exit", "finished"}
      BY <2>4, <3>1, <3>3, Zenon
    <3>7. \A d \in Queued' : response'[d] = "none"
      BY <2>1, <3>1, <3>3, Zenon DEF JobInv
    <3>8. \A w \in Workers : wpc'[w] \in {"got", "handle"} => job'[w] \notin Queued'
      BY <2>1, <2>2, <3>2, <3>3, Zenon
    <3> QED
      BY <1>0, <2>2, <2>3, <3>3, <3>4, <3>5, <3>6, <3>7, <3>8, Zenon DEF JobInv
  <2> QED
    BY <2>5, <2>6, Zenon
<1>5. ASSUME NEW w \in Workers, Worker(w) \/ HandlerPanics(w)
      PROVE  JobInv'
  <2>0. apc' = apc /\ w \in AllWorkers /\ \A v \in AllWorkers \ {w} : wpc'[v] = wpc[v]
    BY <1>0, <1>5, WorkerShape, Zenon
  <2>w. ASSUME UNCHANGED <<queue, response, job>>,
               wpc'[w] \in {"got", "handle"} => wpc[w] \in {"got", "handle"}
        PROVE  JobInv'
    <3>1. \A v \in Workers : wpc'[v] \in {"got", "handle"} => wpc[v] \in {"got", "handle"}
      BY <1>0, <2>0, <2>w, Zenon
    <3> QED
      BY <1>1, <2>0, <2>w, <3>1, Zenon
  <2>1. CASE Polls(w) \/ TimesOut(w) \/ Again(w)
    BY <2>0, <2>1, <2>w DEF Polls, TimesOut, Again, WorkerTo, TypeInv
  <2>2. CASE WorkerSwaps(w) \/ WorkerNotes(w)
    BY <2>0, <2>2, <2>w, Zenon DEF WorkerSwaps, WorkerNotes, WorkerTo, TypeInv
  <2>3. CASE Starts(w) /\ ~ cancelled
    BY <2>0, <2>3, <2>w, Zenon DEF Starts, WorkerTo, TypeInv
  <2>4. ASSUME wpc[w] \in {"got", "handle"}, wpc'[w] \notin {"got", "handle"}, queue' = queue,
               NEW what, response' = [response EXCEPT ![job[w]] = what],
               job' = [job EXCEPT ![w] = None]
        PROVE  JobInv'
    <3>1. Queued' = Queued /\ InFlight' = InFlight
      BY <2>0, <2>4, Zenon DEF Queued, InFlight
    <3>2. \A d \in Conns : d # job[w] => response'[d] = response[d]
      BY <2>4, Zenon DEF TypeInv
    <3>3. job[w] \in Conns \ Queued /\ apc[job[w]] \notin {"none", "read", "send", "push"}
      BY <2>4, Zenon DEF JobInv
    <3>4. \A v \in Workers : wpc'[v] \in {"got", "handle"} => wpc[v] = wpc'[v] /\ job'[v] = job[v]
      BY <1>0, <2>0, <2>4, Zenon DEF TypeInv
    <3>5. \A d \in Queued : response'[d] = "none"
      BY <1>q, <3>2, <3>3, Zenon DEF JobInv
    <3>6. \A d \in Conns : apc'[d] \in {"none", "read", "send", "push"} => response'[d] = "none"
      BY <2>0, <3>2, <3>3, Zenon DEF JobInv
    <3>7. \A v \in Workers : wpc'[v] \in {"got", "handle"} =>
            job'[v] \in Conns \ Queued /\ apc'[job'[v]] \notin {"none", "read", "send", "push"}
      BY <2>0, <3>4, Zenon DEF JobInv
    <3>8. \A d \in Queued : \/ apc'[d] \in {"recv", "timed", "swap"}
                            \/ cancelled' /\ apc'[d] \in {"note", "release", "exit", "finished"}
      BY <2>0, FlagStays, Zenon DEF JobInv
    <3> QED
      BY <1>0, <2>4, <3>1, <3>5, <3>6, <3>7, <3>8 DEF JobInv
  <2>5. CASE Starts(w) /\ cancelled
    BY <2>0, <2>4, <2>5, Zenon DEF Starts, Answer, WorkerTo, TypeInv
  <2>6. CASE Handles(w) \/ HandlerPanics(w)
    BY <2>0, <2>4, <2>6, ZenonT(30) DEF Handles, HandlerPanics, Answer, WorkerTo, TypeInv
  <2>7. CASE Receives(w)
    <3>1. /\ queue # <<>> /\ queue' = Tail(queue) /\ response' = response
          /\ job' = [job EXCEPT ![w] = Head(queue)] /\ wpc' = [wpc EXCEPT ![w] = "got"]
      BY <2>7, Zenon DEF Receives, WorkerTo
    <3>2. /\ Len(queue') = Len(queue) - 1
          /\ Head(queue) \in Queued /\ Queued' = Queued \ {Head(queue)}
          /\ \A i, j \in 1..Len(queue') : queue'[i] = queue'[j] => i = j
      <4>1. queue \in Seq(Conns) /\ \A i, j \in 1..Len(queue) : queue[i] = queue[j] => i = j
        BY Zenon DEF JobInv, TypeInv
      <4>2. Len(queue) # 0
        BY <3>1, <4>1
      <4>p. Popped(queue, queue')
        BY <3>1, <4>1, <4>2, QueuePop, Zenon
      <4>3. /\ Len(queue') = Len(queue) - 1
            /\ Head(queue) \in {queue[i] : i \in 1..Len(queue)}
        BY <4>p, Zenon DEF Popped
      <4>4. /\ \A i \in 1..Len(queue') : /\ i + 1 \in 1..Len(queue) /\ queue'[i] = queue[i + 1]
                                       /\ queue'[i] # Head(queue)
            /\ \A i \in 1..Len(queue) : queue[i] # Head(queue) =>
                 i - 1 \in 1..Len(queue') /\ queue'[i - 1] = queue[i]
        BY <4>p, Zenon DEF Popped
      <4>5. \A i, j \in 1..Len(queue') : queue'[i] = queue'[j] => i = j
        BY <4>p, Zenon DEF Popped
      <4>6. Queued = {queue[i] : i \in 1..Len(queue)} /\ Queued' = {queue'[i] : i \in 1..Len(queue')}
        BY Zenon DEF Queued
      <4>7. \A x \in Queued' : x \in Queued /\ x # Head(queue)
        <5>1. ASSUME NEW i \in 1..Len(queue') PROVE queue'[i] \in Queued /\ queue'[i] # Head(queue)
          BY <4>4, <4>6
        <5> QED BY <4>6, <5>1, Zenon
      <4>8. \A x \in Queued : x # Head(queue) => x \in Queued'
        <5>1. ASSUME NEW i \in 1..Len(queue), queue[i] # Head(queue) PROVE queue[i] \in Queued'
          BY <4>4, <4>6, <5>1
        <5> QED BY <4>6, <5>1, Zenon
      <4> QED BY <4>3, <4>5, <4>6, <4>7, <4>8, Zenon
    <3>3. Cardinality(Queued') = Cardinality(Queued) - 1
      BY <1>q, <3>2, FS_RemoveElement, Connections, Zenon
    <3>4. InFlight' \subseteq InFlight
      BY <2>0, <3>2, Zenon DEF InFlight
    <3>5. Cardinality(InFlight') <= queue_capacity
      BY <1>0, <1>q, <3>4, Connections DEF JobInv
    <3>6. \A v \in Workers : wpc'[v] \in {"got", "handle"} =>
            job'[v] \in Conns \ Queued' /\ apc'[job'[v]] \notin {"none", "read", "send", "push"}
      <4>1. job'[w] = Head(queue) /\ \A v \in Workers \ {w} : job'[v] = job[v] /\ wpc'[v] = wpc[v]
        BY <1>0, <2>0, <3>1, Zenon DEF TypeInv
      <4>2. Head(queue) \in Conns \ Queued' /\ apc[Head(queue)] \notin {"none", "read", "send", "push"}
        BY <1>q, <3>2, Zenon DEF JobInv
      <4>3. \A v \in Workers \ {w} : wpc[v] \in {"got", "handle"} =>
              job[v] \in Conns \ Queued' /\ apc[job[v]] \notin {"none", "read", "send", "push"}
        BY <3>2, Zenon DEF JobInv
      <4> QED
        BY <2>0, <4>1, <4>2, <4>3, Zenon
    <3>7. \A d \in Queued' : \/ apc'[d] \in {"recv", "timed", "swap"}
                             \/ cancelled' /\ apc'[d] \in {"note", "release", "exit", "finished"}
      BY <2>0, <3>2, FlagStays, Zenon DEF JobInv
    <3> QED
      BY <1>0, <2>0, <3>1, <3>2, <3>3, <3>5, <3>6, <3>7, Zenon DEF JobInv
  <2> QED
    BY <1>5, <2>1, <2>2, <2>3, <2>5, <2>6, <2>7, Zenon DEF Worker
<1> QED
  BY <1>2, <1>3, <1>4, <1>5, Zenon DEF Next

-----------------------------------------------------------------------------
(* No error has been noted, nobody runs, when the call begins. *)
LEMMA Starting ==
  ASSUME Init
  PROVE  IInv
<1>1. <<worker_count, max_requests>> \in Settings
  <2>1. PICK s \in Settings : worker_count = s[1] /\ max_requests = s[2]
    BY Zenon DEF Init
  <2>2. s = <<worker_count, max_requests>>
    BY <2>1, ServerAssumption
  <2> QED
    BY <2>2, Zenon
<1>2. TypeInv
  <2>1. job \in [AllWorkers -> Conns \cup {None}] /\ queue \in Seq(Conns) /\ panics \in 0..MaxPanics
    BY ServerAssumption DEF Init
  <2>2. /\ token \in BOOLEAN /\ cancelled \in BOOLEAN /\ by_caller \in BOOLEAN
    BY Zenon DEF Init
  <2> QED
    BY <1>1, <2>1, <2>2 DEF Init, TypeInv
<1>3. Admitted = {} /\ HoldsPermit = {} /\ Queued = {} /\ InFlight = {}
  BY DEF Init, Admitted, HoldsPermit, Queued, InFlight
<1>4. AdmitInv /\ PermitInv
  BY <1>2, <1>3, FS_EmptySet, Numbers DEF Init, AdmitInv, PermitInv, PermitsExact
<1>5. ThreadInv /\ OutcomeInv
  BY Zenon DEF Init, ThreadInv, OutcomeInv, OutcomeOf
<1>6. CauseInv
  BY ServerAssumption, Zenon DEF Init, CauseInv, CauseReturned, Errors
<1>7. JobInv
  BY <1>2, <1>3, FS_EmptySet, Numbers DEF Init, JobInv, TypeInv
<1> QED
  BY <1>2, <1>4, <1>5, <1>6, <1>7, Zenon DEF IInv

LEMMA Stepping ==
  ASSUME IInv, [Next]_vars
  PROVE  IInv'
<1>1. CASE Next
  <2>1. TypeInv'
    <3>1. ASSUME CancelToken PROVE TypeInv'
      BY <1>1, <3>1 DEF IInv, Next, CancelToken, mainVars, TypeInv, params
    <3> QED
      BY <1>1, <3>1, TypeMain, TypeActor, TypeWorker, Zenon DEF IInv, Next
  <2> QED
    BY <1>1, <2>1, AdmitStep, PermitStep, ThreadStep, OutcomeStep, CauseStep, JobStep, Zenon DEF IInv
<1>2. CASE UNCHANGED vars
  <2> USE <1>2 DEF vars, params, mainVars
  <2>1. TypeInv' /\ ThreadInv'
    BY DEF IInv, TypeInv, ThreadInv, Workers
  <2>2. AdmitInv' /\ PermitInv'
    BY Zenon DEF IInv, AdmitInv, Admitted, PermitInv, PermitsExact, HoldsPermit, queue_capacity
  <2>3. OutcomeInv' /\ CauseInv'
    BY Zenon DEF IInv, OutcomeInv, OutcomeOf, CauseInv, Noted, CauseReturned, Workers
  <2>4. JobInv'
    <3>1. UNCHANGED <<Queued, InFlight, Workers, queue_capacity>>
      BY Zenon DEF InFlight, Queued, Workers, queue_capacity
    <3> QED
      BY <3>1, Zenon DEF IInv, JobInv
  <2> QED
    BY <2>1, <2>2, <2>3, <2>4, Zenon DEF IInv
<1> QED
  BY <1>1, <1>2, Zenon

(* The invariant says what is promised. *)
LEMMA Promised ==
  ASSUME IInv
  PROVE  ServerSound
<1> USE DEF IInv
<1>1. Len(queue) <= channel_capacity /\ QueueHasRoom
  <2>1. /\ Len(queue) = Cardinality(Queued) /\ Cardinality(InFlight) <= queue_capacity
        /\ Cardinality(InFlight) \in Nat /\ Cardinality(Queued) \in Nat
        /\ Cardinality(Queued) <= Cardinality(InFlight)
    BY QueuedConns, Connections, Zenon DEF JobInv, InFlight
  <2>2. ASSUME NEW c \in Conns, apc[c] = "push"
        PROVE  Cardinality(Queued) < Cardinality(InFlight)
    <3>1. c \notin Queued
      BY <2>2, Zenon DEF JobInv
    <3>2. Cardinality(Queued \cup {c}) = Cardinality(Queued) + 1
      BY <3>1, QueuedConns, Connections, FS_AddElement, Zenon
    <3>3. Cardinality(Queued \cup {c}) <= Cardinality(InFlight)
      BY <2>2, QueuedConns, Connections, Zenon DEF InFlight
    <3> QED
      BY <2>1, <3>2, <3>3
  <2> QED
    BY <2>1, <2>2, Numbers DEF QueueHasRoom, channel_capacity
<1>2. PermitsExact /\ permits \in 0..Cardinality(Conns)
  <2>1. PermitsExact
    BY Zenon DEF PermitInv
  <2>2. HoldsPermit \subseteq Admitted /\ Admitted \subseteq Conns
    BY Zenon DEF HoldsPermit, Admitted
  <2>3. /\ Cardinality(HoldsPermit) <= Cardinality(Admitted) /\ Cardinality(Conns) = MaxConns
        /\ Cardinality(HoldsPermit) \in Nat /\ Cardinality(Admitted) \in Nat
        /\ Cardinality(Admitted) <= MaxConns
    BY <2>2, Connections, Zenon
  <2>4. main = "start" => Cardinality(Admitted) # MaxConns
    BY <2>3, Zenon DEF AdmitInv, Conns
  <2> QED
    BY <2>1, <2>3, <2>4, ServerAssumption DEF PermitsExact
<1>3. TypeOK
  BY <1>1, <1>2, Zenon DEF TypeInv, TypeOK, Errors
<1>4. NoThreadLeft
  BY Zenon DEF NoThreadLeft, PermitInv, ThreadInv
<1>5. Drained
  <2> SUFFICES ASSUME result = "ok", NEW c \in Admitted
               PROVE  outcome[c] \in {"served", "client", "failed"}
    BY Zenon DEF Drained
  <2>1. main = "done" /\ ~ cancelled
    BY ServerAssumption, Zenon DEF CauseInv
  <2>2. apc[c] = "finished" /\ c \in Conns
    BY <2>1, Zenon DEF ThreadInv, Admitted
  <2> QED
    BY <2>1, <2>2, Zenon DEF OutcomeInv, OutcomeOf, TypeInv
<1>6. CauseReturned
  BY Zenon DEF CauseInv
<1> QED
  BY <1>1, <1>2, <1>3, <1>4, <1>5, <1>6, Zenon DEF ServerSound

(* The invariant holds of serve_http_server_pool. *)
THEOREM Inductive == Spec => []IInv
<1>1. Init => IInv
  BY Starting, Zenon
<1>2. IInv /\ [Next]_vars => IInv'
  BY Stepping, Zenon
<1> QED
  BY <1>1, <1>2, PTL DEF Spec

(* serve_http_server_pool is sound for any number of connections, workers and
   panics: permits are exact, the queue has room, no thread is left behind, ok
   means drained, and an error names its cause. *)
THEOREM ServerIsSound == Spec => []ServerSound
<1>1. IInv => ServerSound
  BY Promised, Zenon
<1> QED
  BY <1>1, Inductive, PTL

-----------------------------------------------------------------------------
(* Bearer tokens.  Of a key that is no longer in use, a fetch that holds it began before it was
   replaced, and the cache stored it no later than one fetch after that. *)

Fetches == [op : {"fetch"}, k : 0..LastKey, start : Nat, keys : SUBSET (0..LastKey)]

KeyTypes ==
  /\ now \in Nat /\ age \in Int
  /\ provider.key \in 0..LastKey /\ provider.replaced \in [0..LastKey -> Nat]
  /\ cache.keys \subseteq 0..LastKey /\ cache.at \in Nat /\ cache.at <= now

KeysKnown ==
  \A k \in cache.keys :
    k <= provider.key /\ (k # provider.key => cache.at <= provider.replaced[k] + FetchLimit)

FetchKnown(r) ==
  r.op = "fetch" =>
    /\ r \in Fetches /\ r.start <= now /\ now <= r.start + FetchLimit
    /\ \A k \in r.keys : k <= provider.key /\ (k # provider.key => r.start <= provider.replaced[k])

OAuthInv ==
  /\ DOMAIN doing = Askers /\ KeyTypes /\ KeysKnown /\ AcceptedKeyRecent
  /\ \A t \in Askers : FetchKnown(doing[t])

(* What a thread does that neither fetches nor accepts. *)
LEMMA ElsewhereKeeps ==
  ASSUME OAuthInv, UNCHANGED <<provider, cache, now, age>>, DOMAIN doing' = Askers,
         \A u \in Askers : doing'[u] = doing[u] \/ doing'[u].op # "fetch"
  PROVE  OAuthInv'
<1>1. KeyTypes' /\ KeysKnown' /\ AcceptedKeyRecent'
  BY Zenon DEF OAuthInv, KeyTypes, KeysKnown, AcceptedKeyRecent
<1>2. ASSUME NEW u \in Askers PROVE FetchKnown(doing[u])'
  BY <1>2, Zenon DEF OAuthInv, FetchKnown
<1> QED BY <1>1, <1>2, Zenon DEF OAuthInv

LEMMA BecomesOther ==
  ASSUME OAuthInv, NEW t \in Askers, NEW r, r.op # "fetch", Becomes(t, r),
         UNCHANGED <<provider, cache, now, age>>
  PROVE  OAuthInv'
<1>1. DOMAIN doing' = Askers /\ \A u \in Askers : doing'[u] = doing[u] \/ doing'[u] = r
  BY Zenon DEF OAuthInv, Becomes
<1> QED BY <1>1, ElsewhereKeeps, Zenon

(* A key that was accepted from a fetch, or from a fresh cache, was in use recently. *)
LEMMA AgeBounded ==
  ASSUME KeyTypes, NEW k \in 0..LastKey, NEW b \in Nat, k # provider.key => now <= provider.replaced[k] + b
  PROVE  OutOfUse(k) \in Int /\ OutOfUse(k) <= b
<1>1. CASE k = provider.key
  BY <1>1 DEF OutOfUse
<1>2. CASE k # provider.key
  <2>1. PICK x \in Nat : x = provider.replaced[k]
    BY Zenon DEF KeyTypes
  <2>2. now \in Nat /\ now <= x + b
    BY <1>2, <2>1, Zenon DEF KeyTypes
  <2>3. OutOfUse(k) = now - x
    BY <1>2, <2>1, Zenon DEF OutOfUse
  <2> QED BY <2>2, <2>3
<1> QED BY <1>1, <1>2, Zenon

LEMMA TokenKeeps ==
  ASSUME OAuthInv, NEW t \in Askers, NEW k \in 0..LastKey, token_is_valid(t, k)
  PROVE  OAuthInv'
<1>0. KeyTypes /\ KeysKnown /\ AcceptedKeyRecent /\ DOMAIN doing = Askers
  BY Zenon DEF OAuthInv
<1>1. UNCHANGED <<provider, cache, now>>
  BY Zenon DEF token_is_valid
<1>2. CASE Fresh
  <2>1. doing' = doing /\ age' = IF k \in cache.keys THEN OutOfUse(k) ELSE age
    BY <1>2, Zenon DEF token_is_valid
  <2>2. age' \in Int /\ age' < CacheTtl + FetchLimit
    <3>1. CASE k \in cache.keys
      <4>1. PICK x \in Nat : x = provider.replaced[k]
        BY <1>0, Zenon DEF KeyTypes
      <4>2. k # provider.key => cache.at <= x + FetchLimit
        BY <1>0, <3>1, <4>1, Zenon DEF KeysKnown
      <4>3. now \in Nat /\ cache.at \in Nat /\ now - cache.at < CacheTtl
        BY <1>0, <1>2, Zenon DEF KeyTypes, Fresh
      <4>4. k # provider.key => now <= x + (CacheTtl - 1 + FetchLimit)
        BY <4>2, <4>3, OAuthAssumption
      <4>5. CacheTtl - 1 + FetchLimit \in Nat
        BY OAuthAssumption
      <4>6. OutOfUse(k) \in Int /\ OutOfUse(k) <= CacheTtl - 1 + FetchLimit
        BY <1>0, <4>1, <4>4, <4>5, AgeBounded, Zenon
      <4> QED BY <2>1, <3>1, <4>6, OAuthAssumption
    <3>2. CASE k \notin cache.keys
      BY <1>0, <2>1, <3>2, Zenon DEF KeyTypes, AcceptedKeyRecent
    <3> QED BY <3>1, <3>2, Zenon
  <2> QED BY <1>0, <1>1, <2>1, <2>2, Zenon DEF OAuthInv, KeyTypes, KeysKnown, AcceptedKeyRecent, FetchKnown
<1>3. CASE ~Fresh
  <2>1. Becomes(t, [op |-> "fetch", k |-> k, start |-> now, keys |-> {}]) /\ age' = age
    BY <1>3, Zenon DEF token_is_valid
  <2>2. PICK r : r = [op |-> "fetch", k |-> k, start |-> now, keys |-> {}]
    BY Zenon
  <2>3. r \in Fetches /\ r.start = now /\ r.keys = {}
    BY <1>0, <2>2 DEF Fetches, KeyTypes
  <2>4. now <= now + FetchLimit /\ now <= now
    BY <1>0, OAuthAssumption DEF KeyTypes
  <2>5. DOMAIN doing' = Askers /\ \A u \in Askers : doing'[u] = doing[u] \/ doing'[u] = r
    BY <1>0, <2>1, <2>2, Zenon DEF Becomes
  <2>6. ASSUME NEW u \in Askers PROVE FetchKnown(doing[u])'
    <3>1. CASE doing'[u] = r
      BY <1>1, <2>3, <2>4, <3>1, Zenon DEF FetchKnown
    <3>2. CASE doing'[u] = doing[u]
      BY <1>1, <3>2, Zenon DEF FetchKnown, OAuthInv
    <3> QED BY <2>5, <3>1, <3>2, Zenon
  <2> QED BY <1>0, <1>1, <2>1, <2>5, <2>6, Zenon DEF OAuthInv, KeyTypes, KeysKnown, AcceptedKeyRecent
<1> QED BY <1>2, <1>3, Zenon

LEMMA ReplyKeeps ==
  ASSUME OAuthInv, NEW t \in Askers, JwksReply(t)
  PROVE  OAuthInv'
<1>0. KeyTypes /\ KeysKnown /\ AcceptedKeyRecent /\ DOMAIN doing = Askers /\ FetchKnown(doing[t])
  BY Zenon DEF OAuthInv
<1>1. UNCHANGED <<provider, cache, now, age>> /\ doing[t].op = "fetch"
  BY Zenon DEF JwksReply
<1>2. PICK r : r = [doing[t] EXCEPT !.keys = {provider.key}]
  BY Zenon
<1>3. doing[t] \in Fetches /\ doing[t].start <= now /\ now <= doing[t].start + FetchLimit
  BY <1>0, <1>1, Zenon DEF FetchKnown
<1>4. r \in Fetches /\ r.start = doing[t].start /\ r.keys = {provider.key}
  BY <1>0, <1>2, <1>3 DEF Fetches, KeyTypes
<1>5. provider.key <= provider.key
  BY <1>0 DEF KeyTypes
<1>6. DOMAIN doing' = Askers /\ \A u \in Askers : doing'[u] = doing[u] \/ doing'[u] = r
  BY <1>0, <1>2, Zenon DEF JwksReply, Becomes
<1>7. ASSUME NEW u \in Askers PROVE FetchKnown(doing[u])'
  <2>1. CASE doing'[u] = r
    BY <1>1, <1>3, <1>4, <1>5, <2>1, Zenon DEF FetchKnown
  <2>2. CASE doing'[u] = doing[u]
    BY <1>1, <2>2, Zenon DEF FetchKnown, OAuthInv
  <2> QED BY <1>6, <2>1, <2>2, Zenon
<1> QED BY <1>0, <1>1, <1>6, <1>7, Zenon DEF OAuthInv, KeyTypes, KeysKnown, AcceptedKeyRecent

LEMMA StoreKeysKeeps ==
  ASSUME OAuthInv, NEW t \in Askers, JwksStore(t)
  PROVE  OAuthInv'
<1>0. KeyTypes /\ AcceptedKeyRecent /\ DOMAIN doing = Askers /\ FetchKnown(doing[t])
  BY Zenon DEF OAuthInv
<1>1. /\ UNCHANGED <<provider, now>> /\ doing[t].op = "fetch"
      /\ cache' = [keys |-> doing[t].keys, at |-> now] /\ Becomes(t, Resting)
      /\ age' = IF doing[t].k \in doing[t].keys THEN OutOfUse(doing[t].k) ELSE age
  BY Zenon DEF JwksStore, Answers
<1>2. PICK r : r = doing[t]
  BY Zenon
<1>3. r \in Fetches /\ r.start <= now /\ now <= r.start + FetchLimit
  BY <1>0, <1>1, <1>2, Zenon DEF FetchKnown
<1>4. r.k \in 0..LastKey /\ r.start \in Nat /\ r.keys \subseteq 0..LastKey
  BY <1>3 DEF Fetches
<1>5. ASSUME NEW k \in r.keys
      PROVE  k <= provider.key /\ (k # provider.key => now <= provider.replaced[k] + FetchLimit)
  <2>1. k <= provider.key /\ (k # provider.key => r.start <= provider.replaced[k])
    BY <1>0, <1>1, <1>2, <1>5, Zenon DEF FetchKnown
  <2>2. PICK x \in Nat : x = provider.replaced[k]
    BY <1>0, <1>4, <1>5, Zenon DEF KeyTypes
  <2>3. k # provider.key => r.start <= x
    BY <2>1, <2>2, Zenon
  <2>4. k # provider.key => now <= x + FetchLimit
    BY <1>0, <1>3, <1>4, <2>3, OAuthAssumption DEF KeyTypes
  <2> QED BY <2>1, <2>2, <2>4, Zenon
<1>6. cache'.keys = r.keys /\ cache'.at = now
  BY <1>1, <1>2
<1>7. age' \in Int /\ age' < CacheTtl + FetchLimit
  <2>1. CASE r.k \in r.keys
    <3>1. OutOfUse(r.k) \in Int /\ OutOfUse(r.k) <= FetchLimit
      BY <1>0, <1>4, <1>5, <2>1, AgeBounded, OAuthAssumption, Zenon
    <3>2. age' = OutOfUse(r.k)
      BY <1>1, <1>2, <2>1, Zenon
    <3> QED BY <3>1, <3>2, OAuthAssumption
  <2>2. CASE r.k \notin r.keys
    BY <1>0, <1>1, <1>2, <2>2, Zenon DEF KeyTypes, AcceptedKeyRecent
  <2> QED BY <2>1, <2>2, Zenon
<1>8. KeyTypes' /\ KeysKnown' /\ AcceptedKeyRecent'
  <2>1. now <= now
    BY <1>0 DEF KeyTypes
  <2> QED BY <1>0, <1>1, <1>4, <1>5, <1>6, <1>7, <2>1, Zenon DEF KeyTypes, KeysKnown, AcceptedKeyRecent
<1>9. Resting.op # "fetch"
  BY DEF Resting
<1>10. DOMAIN doing' = Askers /\ \A u \in Askers : doing'[u] = doing[u] \/ doing'[u] = Resting
  BY <1>0, <1>1, Zenon DEF Becomes
<1>11. \A u \in Askers : FetchKnown(doing[u])'
  BY <1>1, <1>9, <1>10, Zenon DEF FetchKnown, OAuthInv
<1> QED BY <1>8, <1>10, <1>11, Zenon DEF OAuthInv

LEMMA RotateKeeps ==
  ASSUME OAuthInv, Rotate
  PROVE  OAuthInv'
<1>0. KeyTypes /\ KeysKnown /\ AcceptedKeyRecent /\ DOMAIN doing = Askers
  BY Zenon DEF OAuthInv
<1>1. /\ UNCHANGED <<doing, cache, now, age>> /\ provider.key < LastKey
      /\ provider' = [key |-> provider.key + 1,
                      replaced |-> [provider.replaced EXCEPT ![provider.key] = now]]
  BY Zenon DEF Rotate
<1>2. provider'.key = provider.key + 1 /\ provider'.replaced = [provider.replaced EXCEPT ![provider.key] = now]
  BY <1>1
<1>3. provider.key \in 0..LastKey /\ provider'.key \in 0..LastKey /\ provider.replaced \in [0..LastKey -> Nat]
  BY <1>0, <1>1, <1>2, OAuthAssumption, SMTT(30) DEF KeyTypes
<1>4. provider'.replaced \in [0..LastKey -> Nat]
  BY <1>0, <1>2, <1>3, Zenon DEF KeyTypes
<1>5. ASSUME NEW k \in 0..LastKey, k <= provider.key
      PROVE  /\ k <= provider'.key /\ k # provider'.key
             /\ provider'.replaced[k] = IF k = provider.key THEN now ELSE provider.replaced[k]
  <2>1. k <= provider'.key /\ k # provider'.key
    BY <1>2, <1>3, <1>5
  <2> QED BY <1>2, <1>3, <1>5, <2>1, Zenon
<1>6. cache.at <= now + FetchLimit
  BY <1>0, OAuthAssumption DEF KeyTypes
<1>7. KeyTypes' /\ KeysKnown' /\ AcceptedKeyRecent'
  <2>1. KeyTypes'
    BY <1>0, <1>1, <1>3, <1>4, Zenon DEF KeyTypes
  <2>2. ASSUME NEW k \in cache.keys
        PROVE  k <= provider'.key /\ (k # provider'.key => cache.at <= provider'.replaced[k] + FetchLimit)
    <3>1. k \in 0..LastKey /\ k <= provider.key /\ (k # provider.key => cache.at <= provider.replaced[k] + FetchLimit)
      BY <1>0, <2>2, Zenon DEF KeyTypes, KeysKnown
    <3> QED BY <1>5, <1>6, <3>1, Zenon
  <2> QED BY <1>0, <1>1, <2>1, <2>2, Zenon DEF KeysKnown, AcceptedKeyRecent
<1>8. ASSUME NEW u \in Askers PROVE FetchKnown(doing[u])'
  <2> SUFFICES ASSUME doing[u].op = "fetch"
               PROVE  /\ doing[u] \in Fetches /\ doing[u].start <= now /\ now <= doing[u].start + FetchLimit
                      /\ \A k \in doing[u].keys :
                           k <= provider'.key /\ (k # provider'.key => doing[u].start <= provider'.replaced[k])
    BY <1>1, Zenon DEF FetchKnown
  <2>1. /\ doing[u] \in Fetches /\ doing[u].start <= now /\ now <= doing[u].start + FetchLimit
        /\ \A k \in doing[u].keys :
             k <= provider.key /\ (k # provider.key => doing[u].start <= provider.replaced[k])
    BY <1>8, Zenon DEF OAuthInv, FetchKnown
  <2>2. doing[u].keys \subseteq 0..LastKey
    BY <2>1 DEF Fetches
  <2> QED BY <1>5, <2>1, <2>2, Zenon
<1> QED BY <1>0, <1>1, <1>7, <1>8, Zenon DEF OAuthInv

LEMMA TickKeeps ==
  ASSUME OAuthInv, Tick
  PROVE  OAuthInv'
<1>0. KeyTypes /\ KeysKnown /\ AcceptedKeyRecent /\ DOMAIN doing = Askers
  BY Zenon DEF OAuthInv
<1>1. /\ UNCHANGED <<doing, provider, cache, age>> /\ now' = now + 1
      /\ \A t \in Askers : doing[t].op = "fetch" => now - doing[t].start < FetchLimit
  BY Zenon DEF Tick
<1>2. now \in Nat /\ now' \in Nat /\ cache.at <= now' /\ now <= now'
  BY <1>0, <1>1 DEF KeyTypes
<1>3. KeyTypes' /\ KeysKnown' /\ AcceptedKeyRecent'
  BY <1>0, <1>1, <1>2, Zenon DEF KeyTypes, KeysKnown, AcceptedKeyRecent
<1>4. ASSUME NEW u \in Askers, doing[u].op = "fetch"
      PROVE  doing[u].start <= now' /\ now' <= doing[u].start + FetchLimit
  <2>1. doing[u] \in Fetches /\ doing[u].start <= now
    BY <1>4, Zenon DEF OAuthInv, FetchKnown
  <2>2. doing[u].start \in Nat
    BY <2>1 DEF Fetches
  <2> QED BY <1>1, <1>2, <1>4, <2>1, <2>2, OAuthAssumption
<1>5. \A u \in Askers : FetchKnown(doing[u])'
  BY <1>1, <1>4, Zenon DEF OAuthInv, FetchKnown
<1> QED BY <1>0, <1>1, <1>3, <1>5, Zenon DEF OAuthInv

LEMMA OAuthStart == OAuthInit => OAuthInv
<1> SUFFICES ASSUME OAuthInit PROVE OAuthInv
  BY Zenon
<1>1. KeyTypes /\ KeysKnown /\ AcceptedKeyRecent
  BY OAuthAssumption DEF OAuthInit, KeyTypes, KeysKnown, AcceptedKeyRecent
<1>2. Resting.op # "fetch"
  BY DEF Resting
<1>3. DOMAIN doing = Askers /\ \A t \in Askers : doing[t] = Resting
  BY Zenon DEF OAuthInit
<1> QED BY <1>1, <1>2, <1>3, Zenon DEF OAuthInv, FetchKnown

LEMMA AskerKeeps ==
  ASSUME OAuthInv, NEW t \in Askers, AskerStep(t)
  PROVE  OAuthInv'
<1>1. ASSUME UNCHANGED <<doing, provider, cache, now, age>> PROVE OAuthInv'
  BY <1>1, ElsewhereKeeps, Zenon DEF OAuthInv
<1>2. ASSUME Answers(t), UNCHANGED <<provider, cache, now, age>> PROVE OAuthInv'
  <2>1. Resting.op # "fetch"
    BY DEF Resting
  <2> QED BY <1>2, <2>1, BecomesOther, Zenon DEF Answers
<1>3. ASSUME NEW c, NEW e, NEW i, Becomes(t, [op |-> "request", call |-> c, endpoint |-> e, id |-> i]),
             UNCHANGED <<provider, cache, now, age>>
      PROVE  OAuthInv'
  <2>1. [op |-> "request", call |-> c, endpoint |-> e, id |-> i].op # "fetch"
    OBVIOUS
  <2> QED BY <1>3, <2>1, BecomesOther, Zenon
<1>4. CASE discover(t)
  <2>1. [op |-> "discover", from |-> client.issuer].op # "fetch"
    OBVIOUS
  <2> QED BY <1>4, <2>1, BecomesOther, Zenon DEF discover
<1>5. ASSUME NEW c, NEW e, Endpoint(t, c, e) PROVE OAuthInv'
  <2>1. [op |-> "endpoint", call |-> c, endpoint |-> e].op # "fetch"
    OBVIOUS
  <2> QED BY <1>5, <2>1, BecomesOther, Zenon DEF Endpoint
<1>6. CASE \/ \E i \in Issuers : configure(t, i)
           \/ \E s \in Sessions : \/ session_from_token_response(t, s) \/ copy_oauth_session(t, s)
                                  \/ drop_oauth_session(t, s) \/ session_close(t, s)
           \/ token_refused(t)
  BY <1>1, <1>6, Zenon DEF configure, session_from_token_response, copy_oauth_session,
     drop_oauth_session, session_close, token_refused
<1>7. CASE DiscoverReply(t) \/ DiscoverFails(t) \/ oauth_http_json(t) \/ SessionRefreshed(t) \/ JwksFails(t)
  BY <1>2, <1>7, Zenon DEF DiscoverReply, DiscoverFails, oauth_http_json, SessionRefreshed, JwksFails
<1>8. CASE exchange_code(t) \/ client_refresh(t) \/ client_revoke(t) \/ client_introspect(t)
  BY <1>5, <1>8, Zenon DEF exchange_code, client_refresh, client_revoke, client_introspect
<1>9. CASE \/ oauth_client_endpoint(t) \/ authorization_url(t)
           \/ \E s \in Sessions : session_refresh(t, s) \/ session_revoke(t, s) \/ session_introspect(t, s)
  BY <1>3, <1>9, Zenon DEF oauth_client_endpoint, authorization_url, session_refresh, session_revoke,
     session_introspect, SessionRequest
<1>10. CASE \E k \in 0..LastKey : token_is_valid(t, k)
  BY <1>10, TokenKeeps, Zenon
<1>11. CASE JwksReply(t) \/ JwksStore(t)
  BY <1>11, ReplyKeeps, StoreKeysKeeps, Zenon
<1> QED BY <1>4, <1>6, <1>7, <1>8, <1>9, <1>10, <1>11, Zenon DEF AskerStep

\* What the cache and the fetches under way know of the provider's keys stays true.
THEOREM OAuthInductive == OAuthSpec => []OAuthInv
<1>1. OAuthInv /\ [OAuthNext]_oauthVars => OAuthInv'
  <2> SUFFICES ASSUME OAuthInv, [OAuthNext]_oauthVars PROVE OAuthInv'
    BY Zenon
  <2>1. CASE OAuthNext
    BY <2>1, AskerKeeps, RotateKeeps, TickKeeps, Zenon DEF OAuthNext
  <2>2. CASE UNCHANGED oauthVars
    BY <2>2, ElsewhereKeeps, Zenon DEF oauthVars, OAuthInv
  <2> QED BY <2>1, <2>2, Zenon
<1> QED BY <1>1, OAuthStart, PTL DEF OAuthSpec

\* oauth_oidc_token_is_valid: however fetches overlap and keys are replaced, a token is accepted
\* only for a key that was in use less than the life of the cache and one fetch ago.
THEOREM AcceptedKeysAreRecent == OAuthSpec => []AcceptedKeyRecent
<1>1. OAuthInv => AcceptedKeyRecent
  BY Zenon DEF OAuthInv
<1> QED BY <1>1, OAuthInductive, PTL

-----------------------------------------------------------------------------
(* Sockets.  A handle that was never given out is in no table and in no value; only a thread
   inside a call holds a mutex; and there is one owner of the path at a time. *)

Naming(s) == {v \in Values : value[v] = s}
Unlinking == {t \in Threads : busy[t].op = "unlink"}
Bound == {s \in Sockets : kind[s] = "locallistener" /\ mapped[s]}

FreeInv == \A s \in Sockets : kind[s] = "free" => ~mapped[s] /\ \A v \in Values : value[v] # s
CountInv == \A s \in Sockets : mapped[s] => names[s] = Cardinality(Naming(s)) /\ names[s] > 0
BusyInv == \A t \in Threads : busy[t].op \notin {"idle", "unlink"} => busy[t].s \in Sockets
LockInv == \A s \in Sockets : lock[s] # Nobody =>
             busy[lock[s]].s = s /\ busy[lock[s]].op \notin {"idle", "unlink"}
OneOwner ==
  /\ \A s, r \in Bound : s = r
  /\ \A t, u \in Unlinking : t = u
  /\ Bound = {} \/ Unlinking = {}
PathInv == path <=> Bound # {} \/ Unlinking # {}

SocketShape == SocketTypeOK /\ DOMAIN kind = Sockets /\ DOMAIN busy = Threads

SocketInv ==
  /\ SocketShape /\ FreeInv /\ CountInv /\ BusyInv /\ LockInv /\ OneOwner /\ PathInv /\ TruncationTold

(***************************************************************************)
(* What the actions have in common.                                        *)
(***************************************************************************)
LEMMA TableSame ==
  ASSUME FreeInv, CountInv, UNCHANGED table
  PROVE  FreeInv' /\ CountInv'
BY Zenon DEF table, FreeInv, CountInv, Naming

LEMMA OwnerSame ==
  ASSUME OneOwner, PathInv, Unlinking' = Unlinking, Bound' = Bound, path' = path
  PROVE  OneOwner' /\ PathInv'
BY Zenon DEF OneOwner, PathInv

LEMMA BoundSame ==
  ASSUME UNCHANGED <<kind, mapped>>
  PROVE  Bound' = Bound
BY Zenon DEF Bound

LEMMA ThreadSame ==
  ASSUME BusyInv, LockInv, UNCHANGED <<busy, lock>>
  PROVE  BusyInv' /\ LockInv' /\ Unlinking' = Unlinking
BY Zenon DEF BusyInv, LockInv, Unlinking

(* A call ends: its thread gives back the mutex it holds. *)
LEMMA ReleaseKeeps ==
  ASSUME SocketShape, BusyInv, LockInv, NEW t \in Threads, NEW op, NEW ks, Holding(t, op, ks),
         op \notin {"idle", "unlink"}, Release(t)
  PROVE  BusyInv' /\ LockInv' /\ Unlinking' = Unlinking /\ DOMAIN busy' = Threads
         /\ lock' \in [Sockets -> Threads \cup {Nobody}] /\ busy[t].s \in Sockets
<1>1. PICK s \in Sockets : s = busy[t].s
  BY Zenon DEF BusyInv, Holding
<1>2. Idle.op = "idle"
  BY DEF Idle
<1>3. /\ DOMAIN busy' = Threads /\ busy'[t] = Idle /\ \A u \in Threads \ {t} : busy'[u] = busy[u]
      /\ lock' \in [Sockets -> Threads \cup {Nobody}]
      /\ lock'[s] = Nobody /\ \A r \in Sockets \ {s} : lock'[r] = lock[r]
  BY <1>1, Zenon DEF SocketShape, SocketTypeOK, Release
<1>4. BusyInv'
  BY <1>2, <1>3, Zenon DEF BusyInv
<1>5. ASSUME NEW r \in Sockets, lock'[r] # Nobody
      PROVE  busy'[lock'[r]].s = r /\ busy'[lock'[r]].op \notin {"idle", "unlink"}
  <2>1. r # s /\ lock'[r] = lock[r] /\ lock[r] # Nobody
    BY <1>3, <1>5, Zenon
  <2>2. lock[r] \in Threads /\ busy[lock[r]].s = r /\ busy[lock[r]].op \notin {"idle", "unlink"}
    BY <2>1, Zenon DEF LockInv, SocketShape, SocketTypeOK
  <2>3. lock[r] # t
    BY <1>1, <2>1, <2>2, Zenon
  <2> QED BY <1>3, <2>1, <2>2, <2>3, Zenon
<1>6. Unlinking' = Unlinking
  BY <1>2, <1>3, Zenon DEF Unlinking, Holding
<1> QED BY <1>1, <1>3, <1>4, <1>5, <1>6, Zenon DEF LockInv

(* A new handle: it was free, and one value names it. *)
LEMMA InsertKeeps ==
  ASSUME SocketShape, FreeInv, CountInv, NEW s \in Sockets, NEW v \in Values, NEW k,
         k # "free", value[v] = 0, insert_socket(s, v, k)
  PROVE  /\ FreeInv' /\ CountInv' /\ DOMAIN kind' = Sockets
         /\ mapped' \in [Sockets -> BOOLEAN] /\ names' \in [Sockets -> Nat]
         /\ value' \in [Values -> Sockets \cup {0}]
         /\ Bound' = Bound \cup (IF k = "locallistener" THEN {s} ELSE {}) /\ s \notin Bound
<1>1. /\ kind[s] = "free" /\ kind'[s] = k /\ \A r \in Sockets \ {s} : kind'[r] = kind[r]
      /\ mapped'[s] /\ \A r \in Sockets \ {s} : mapped'[r] = mapped[r]
      /\ names'[s] = 1 /\ \A r \in Sockets \ {s} : names'[r] = names[r]
      /\ value'[v] = s /\ \A w \in Values \ {v} : value'[w] = value[w]
      /\ DOMAIN kind' = Sockets
  BY Zenon DEF SocketShape, SocketTypeOK, insert_socket
<1>2. /\ mapped' \in [Sockets -> BOOLEAN] /\ value' \in [Values -> Sockets \cup {0}]
      /\ names' \in [Sockets -> Nat]
  <2>1. 1 \in Nat
    OBVIOUS
  <2> QED BY <2>1, Zenon DEF SocketShape, SocketTypeOK, insert_socket
<1>3. ~mapped[s] /\ \A w \in Values : value[w] # s
  BY <1>1, Zenon DEF FreeInv
<1>4. s # 0
  BY SocketsAssumption
<1>5. FreeInv'
  <2>1. ASSUME NEW r \in Sockets, kind'[r] = "free" PROVE ~mapped'[r] /\ \A w \in Values : value'[w] # r
    <3>1. r # s /\ kind[r] = "free"
      BY <1>1, <2>1, Zenon
    <3>2. ~mapped[r] /\ \A w \in Values : value[w] # r
      BY <3>1, Zenon DEF FreeInv
    <3>3. ASSUME NEW w \in Values PROVE value'[w] # r
      <4>1. CASE w = v
        BY <1>1, <3>1, <4>1, Zenon
      <4>2. CASE w # v
        BY <1>1, <3>2, <4>2, Zenon
      <4> QED BY <4>1, <4>2, Zenon
    <3> QED BY <1>1, <3>1, <3>2, <3>3, Zenon
  <2> QED BY <2>1, Zenon DEF FreeInv
<1>6. Naming(s)' = {v} /\ \A r \in Sockets \ {s} : Naming(r)' = Naming(r)
  <2>1. Naming(s)' = {v}
    <3>1. ASSUME NEW w \in Values PROVE value'[w] = s <=> w = v
      <4>1. CASE w = v
        BY <1>1, <4>1, Zenon
      <4>2. CASE w # v
        BY <1>1, <1>3, <4>2, Zenon
      <4> QED BY <4>1, <4>2, Zenon
    <3> QED BY <3>1, Zenon DEF Naming
  <2>2. ASSUME NEW r \in Sockets, r # s PROVE Naming(r)' = Naming(r)
    <3>1. r # 0
      BY SocketsAssumption
    <3> QED BY <1>1, <2>2, <3>1, Zenon DEF Naming
  <2> QED BY <2>1, <2>2, Zenon
<1>7. CountInv'
  <2>1. Cardinality({v}) = 1 /\ 1 > 0
    BY FS_Singleton
  <2>2. ASSUME NEW r \in Sockets, mapped'[r] PROVE names'[r] = Cardinality(Naming(r)') /\ names'[r] > 0
    <3>1. CASE r = s
      BY <1>1, <1>6, <2>1, <3>1, Zenon
    <3>2. CASE r # s
      <4>1. mapped[r] /\ names'[r] = names[r] /\ Naming(r)' = Naming(r)
        BY <1>1, <1>6, <2>2, <3>2, Zenon
      <4>2. names[r] = Cardinality(Naming(r)) /\ names[r] > 0
        BY <4>1, Zenon DEF CountInv
      <4> QED BY <4>1, <4>2, Zenon
    <3> QED BY <3>1, <3>2, Zenon
  <2> QED BY <2>2, Zenon DEF CountInv
<1>8. Bound' = Bound \cup (IF k = "locallistener" THEN {s} ELSE {}) /\ s \notin Bound
  <2>1. ASSUME NEW r \in Sockets
        PROVE  r \in Bound' <=> r \in Bound \/ (k = "locallistener" /\ r = s)
    <3>1. CASE r = s
      BY <1>1, <1>3, <3>1, Zenon DEF Bound
    <3>2. CASE r # s
      BY <1>1, <3>2, Zenon DEF Bound
    <3> QED BY <3>1, <3>2, Zenon
  <2>2. s \notin Bound /\ Bound \subseteq Sockets /\ Bound' \subseteq Sockets
    BY <1>3, Zenon DEF Bound
  <2> QED BY <2>1, <2>2, Zenon
<1> QED BY <1>1, <1>2, <1>5, <1>7, <1>8, Zenon

LEMMA BoundAdds ==
  ASSUME OneOwner, PathInv, ~path, NEW s \in Sockets, Bound' = Bound \cup {s}, path', Unlinking' = Unlinking
  PROVE  OneOwner' /\ PathInv'
BY Zenon DEF OneOwner, PathInv

LEMMA UnlinkNotAnOp == \A k : OpsOf(k) \cap {"idle", "unlink"} = {}
<1>1. ASSUME NEW k, NEW op \in OpsOf(k) PROVE op \notin {"idle", "unlink"}
  BY <1>1 DEF OpsOf
<1> QED BY <1>1, Zenon

(***************************************************************************)
(* The actions.                                                            *)
(***************************************************************************)
LEMMA CallEnds ==
  ASSUME SocketInv, NEW t \in Threads, NEW op, NEW ks, Holding(t, op, ks), op \notin {"idle", "unlink"},
         Release(t), UNCHANGED <<table, path>>,
         mode' \in [Sockets -> {"blocking", "nonblocking", "timeout"}],
         shut' \in [Sockets -> SUBSET {"read", "write"}], inbox' \in [Sockets -> Nat],
         TruncationTold'
  PROVE  SocketInv'
<1>1. BusyInv' /\ LockInv' /\ Unlinking' = Unlinking /\ DOMAIN busy' = Threads
      /\ lock' \in [Sockets -> Threads \cup {Nobody}]
  BY ReleaseKeeps, Zenon DEF SocketInv
<1>2. SocketShape'
  BY <1>1, Zenon DEF SocketInv, SocketShape, SocketTypeOK, table
<1>3. FreeInv' /\ CountInv'
  BY TableSame, Zenon DEF SocketInv
<1>4. OneOwner' /\ PathInv'
  BY <1>1, BoundSame, OwnerSame, Zenon DEF SocketInv, table
<1> QED BY <1>1, <1>2, <1>3, <1>4, Zenon DEF SocketInv

LEMMA Types ==
  ASSUME SocketInv
  PROVE  /\ mode \in [Sockets -> {"blocking", "nonblocking", "timeout"}]
         /\ shut \in [Sockets -> SUBSET {"read", "write"}] /\ inbox \in [Sockets -> Nat]
         /\ TruncationTold
BY Zenon DEF SocketInv, SocketShape, SocketTypeOK

LEMMA QuickKeeps ==
  ASSUME SocketInv, NEW t \in Threads, NEW op, NEW ks, op \notin {"idle", "unlink"}, Quick(t, op, ks)
  PROVE  SocketInv'
<1>1. UNCHANGED <<mode, shut, inbox, path, datagram>> /\ UNCHANGED table
  BY Zenon DEF Quick, os
<1>2. TruncationTold'
  BY <1>1, Types, Zenon DEF TruncationTold
<1> QED BY <1>1, <1>2, Types, CallEnds, Zenon DEF Quick

LEMMA ReadKeeps ==
  ASSUME SocketInv, NEW t \in Threads, NEW k, Read(t, k)
  PROVE  SocketInv'
<1>1. /\ Holding(t, "read", {k}) /\ Release(t) /\ UNCHANGED <<table, mode, shut, path, datagram>>
      /\ inbox' = [inbox EXCEPT ![busy[t].s] = IF @ > 0 THEN @ - 1 ELSE @]
  BY Zenon DEF Read
<1>2. inbox' \in [Sockets -> Nat]
  <2>1. PICK s \in Sockets : s = busy[t].s
    BY <1>1, Zenon DEF SocketInv, BusyInv, Holding
  <2>2. PICK n \in Nat : n = IF inbox[s] > 0 THEN inbox[s] - 1 ELSE inbox[s]
    BY Types
  <2>3. inbox' = [inbox EXCEPT ![s] = n]
    BY <1>1, <2>1, <2>2, Zenon
  <2> QED BY <2>3, Types, Zenon
<1>3. TruncationTold'
  BY <1>1, Types, Zenon DEF TruncationTold
<1> QED BY <1>1, <1>2, <1>3, Types, CallEnds, Zenon

LEMMA ModeKeeps ==
  ASSUME SocketInv, NEW t \in Threads, NEW ks, SetNonblocking(t, ks) \/ SetReadTimeout(t, ks)
  PROVE  SocketInv'
<1>1. /\ Release(t) /\ UNCHANGED <<table, shut, inbox, path, datagram>>
      /\ Holding(t, "set_nonblocking", ks) \/ Holding(t, "set_timeout", ks)
  BY Zenon DEF SetNonblocking, SetReadTimeout
<1>2. mode' \in [Sockets -> {"blocking", "nonblocking", "timeout"}]
  BY Types DEF SetNonblocking, SetReadTimeout
<1>3. TruncationTold'
  BY <1>1, Types, Zenon DEF TruncationTold
<1> QED BY <1>1, <1>2, <1>3, Types, CallEnds, Zenon

LEMMA ShutdownKeeps ==
  ASSUME SocketInv, NEW t \in Threads, NEW k, NEW side \in {"read", "write"}, Shutdown(t, side, k)
  PROVE  SocketInv'
<1>1. /\ Release(t) /\ UNCHANGED <<table, mode, inbox, path, datagram>>
      /\ Holding(t, "shutdown_read", {k}) \/ Holding(t, "shutdown_write", {k})
      /\ shut' = [shut EXCEPT ![busy[t].s] = @ \cup {side}]
  BY Zenon DEF Shutdown
<1>2. shut' \in [Sockets -> SUBSET {"read", "write"}]
  BY <1>1, Types, ZenonT(30)
<1>3. TruncationTold'
  BY <1>1, Types, Zenon DEF TruncationTold
<1> QED BY <1>1, <1>2, <1>3, Types, CallEnds, Zenon

LEMMA RecvFromKeeps ==
  ASSUME SocketInv, NEW t \in Threads, NEW size \in 1..MaxDatagram, recv_from(t, size)
  PROVE  SocketInv'
<1>1. Holding(t, "recv_from", {"udp"}) /\ Release(t) /\ UNCHANGED <<table, mode, shut, path>>
  BY Zenon DEF recv_from
<1>2. PICK s \in Sockets : s = busy[t].s
  BY <1>1, Zenon DEF SocketInv, BusyInv, Holding
<1>3. inbox' \in [Sockets -> Nat] /\ TruncationTold'
  <2>1. CASE UNCHANGED <<datagram, inbox>>
    BY <2>1, Types, Zenon DEF TruncationTold
  <2>2. CASE datagram' = Datagram(inbox[s], size) /\ inbox' = [inbox EXCEPT ![s] = 0]
    <3>1. PICK n \in Nat : n = inbox[s]
      BY Types, Zenon
    <3>2. Datagram(n, size).truncated <=> Datagram(n, size).kept < Datagram(n, size).size
      <4>1. size \in Nat
        BY SocketsAssumption
      <4>2. /\ Datagram(n, size).truncated = (n > size) /\ Datagram(n, size).size = n
            /\ Datagram(n, size).kept = IF n < size THEN n ELSE size
        BY DEF Datagram, Smaller
      <4>3. (n > size) <=> (IF n < size THEN n ELSE size) < n
        BY <4>1
      <4> QED BY <4>2, <4>3, Zenon
    <3>3. inbox' \in [Sockets -> Nat]
      BY <2>2, Types
    <3> QED BY <2>2, <3>1, <3>2, <3>3, Zenon DEF TruncationTold
  <2>3. \/ datagram' = Datagram(inbox[busy[t].s], size) /\ inbox' = [inbox EXCEPT ![busy[t].s] = 0]
        \/ UNCHANGED <<datagram, inbox>>
    BY Zenon DEF recv_from
  <2>4. \/ datagram' = Datagram(inbox[s], size) /\ inbox' = [inbox EXCEPT ![s] = 0]
        \/ UNCHANGED <<datagram, inbox>>
    BY <1>2, <2>3
  <2> QED BY <2>1, <2>2, <2>4
<1>4. /\ mode' \in [Sockets -> {"blocking", "nonblocking", "timeout"}]
      /\ shut' \in [Sockets -> SUBSET {"read", "write"}] /\ "recv_from" \notin {"idle", "unlink"}
  BY <1>1, Types, Zenon
<1> QED BY <1>1, <1>3, <1>4, CallEnds, Zenon

(* A value more, or a value less, names a socket. *)
LEMMA NamesOneMore ==
  ASSUME SocketShape, NEW w \in Values, NEW s \in Sockets, value[w] # s, value' = [value EXCEPT ![w] = s]
  PROVE  /\ Cardinality(Naming(s)) \in Nat /\ Cardinality(Naming(s)') = Cardinality(Naming(s)) + 1
         /\ \A r \in Sockets \ {s, value[w]} : Naming(r)' = Naming(r)
<1>1. value'[w] = s /\ \A v \in Values \ {w} : value'[v] = value[v]
  BY Zenon DEF SocketShape, SocketTypeOK
<1>2. Naming(s)' = Naming(s) \cup {w} /\ w \notin Naming(s)
  <2>1. ASSUME NEW v \in Values PROVE value'[v] = s <=> value[v] = s \/ v = w
    <3>1. CASE v = w
      BY <1>1, <3>1, Zenon
    <3>2. CASE v # w
      BY <1>1, <3>2, Zenon
    <3> QED BY <3>1, <3>2, Zenon
  <2> QED BY <2>1, Zenon DEF Naming
<1>3. IsFiniteSet(Naming(s))
  BY SocketsAssumption, FS_Subset, Zenon DEF Naming
<1>4. ASSUME NEW r \in Sockets \ {s, value[w]} PROVE Naming(r)' = Naming(r)
  <2>1. ASSUME NEW v \in Values PROVE value'[v] = r <=> value[v] = r
    <3>1. CASE v = w
      BY <1>1, <1>4, <3>1, Zenon
    <3>2. CASE v # w
      BY <1>1, <3>2, Zenon
    <3> QED BY <3>1, <3>2, Zenon
  <2> QED BY <2>1, Zenon DEF Naming
<1>5. Cardinality(Naming(s)) \in Nat
  BY <1>3, FS_CardinalityType, Zenon
<1>6. Cardinality(Naming(s) \cup {w}) = Cardinality(Naming(s)) + 1
  BY <1>2, <1>3, FS_AddElement, Zenon
<1> QED BY <1>2, <1>4, <1>5, <1>6, Zenon

LEMMA NamesOneLess ==
  ASSUME SocketShape, NEW w \in Values, NEW s \in Sockets, value[w] = s, value' = [value EXCEPT ![w] = 0]
  PROVE  /\ Cardinality(Naming(s)) \in Nat /\ Cardinality(Naming(s)') = Cardinality(Naming(s)) - 1
         /\ \A r \in Sockets \ {s} : Naming(r)' = Naming(r)
<1>0. \A r \in Sockets : r # 0
  BY SocketsAssumption
<1>1. value'[w] = 0 /\ \A v \in Values \ {w} : value'[v] = value[v]
  BY Zenon DEF SocketShape, SocketTypeOK
<1>2. Naming(s)' = Naming(s) \ {w} /\ w \in Naming(s)
  <2>1. ASSUME NEW v \in Values PROVE value'[v] = s <=> value[v] = s /\ v # w
    <3>1. CASE v = w
      BY <1>0, <1>1, <3>1, Zenon
    <3>2. CASE v # w
      BY <1>1, <3>2, Zenon
    <3> QED BY <3>1, <3>2, Zenon
  <2> QED BY <2>1, Zenon DEF Naming
<1>3. IsFiniteSet(Naming(s))
  BY SocketsAssumption, FS_Subset, Zenon DEF Naming
<1>4. ASSUME NEW r \in Sockets \ {s} PROVE Naming(r)' = Naming(r)
  <2>1. ASSUME NEW v \in Values PROVE value'[v] = r <=> value[v] = r
    <3>1. CASE v = w
      BY <1>0, <1>1, <1>4, <3>1, Zenon
    <3>2. CASE v # w
      BY <1>1, <3>2, Zenon
    <3> QED BY <3>1, <3>2, Zenon
  <2> QED BY <2>1, Zenon DEF Naming
<1>5. Cardinality(Naming(s)) \in Nat
  BY <1>3, FS_CardinalityType, Zenon
<1>6. Cardinality(Naming(s) \ {w}) = Cardinality(Naming(s)) - 1
  BY <1>2, <1>3, FS_RemoveElement, Zenon
<1> QED BY <1>2, <1>4, <1>5, <1>6, Zenon
LEMMA OpenKeeps ==
  ASSUME SocketInv, NEW t \in Threads, NEW v \in Values, NEW k, k # "free", Open(t, v, k),
         (k # "locallistener" /\ path' = path) \/ (k = "locallistener" /\ ~path /\ path' = TRUE)
  PROVE  SocketInv'
<1>1. value[v] = 0 /\ UNCHANGED <<busy, lock, mode, shut, inbox, datagram>>
  BY Zenon DEF Open
<1>2. PICK s \in Sockets : insert_socket(s, v, k)
  BY Zenon DEF Open
<1>3. /\ FreeInv' /\ CountInv' /\ DOMAIN kind' = Sockets
      /\ mapped' \in [Sockets -> BOOLEAN] /\ names' \in [Sockets -> Nat]
      /\ value' \in [Values -> Sockets \cup {0}]
      /\ Bound' = Bound \cup (IF k = "locallistener" THEN {s} ELSE {})
  BY <1>1, <1>2, InsertKeeps, Zenon DEF SocketInv
<1>4. SocketShape'
  BY <1>1, <1>3, Zenon DEF SocketInv, SocketShape, SocketTypeOK
<1>5. BusyInv' /\ LockInv' /\ Unlinking' = Unlinking
  BY <1>1, ThreadSame, Zenon DEF SocketInv
<1>6. OneOwner' /\ PathInv'
  <2>1. CASE k = "locallistener" /\ ~path /\ path' = TRUE
    <3>1. Bound' = Bound \cup {s}
      BY <1>3, <2>1, Zenon
    <3> QED BY <1>5, <2>1, <3>1, BoundAdds, Zenon DEF SocketInv
  <2>2. CASE k # "locallistener" /\ path' = path
    <3>1. Bound' = Bound
      BY <1>3, <2>2, Zenon
    <3> QED BY <1>5, <2>2, <3>1, OwnerSame, Zenon DEF SocketInv
  <2> QED BY <2>1, <2>2, Zenon
<1>7. TruncationTold'
  BY <1>1, Types, Zenon DEF TruncationTold
<1> QED BY <1>3, <1>4, <1>5, <1>6, <1>7, Zenon DEF SocketInv

LEMMA AcceptKeeps ==
  ASSUME SocketInv, NEW t \in Threads, NEW v \in Values, NEW k, NEW st \in {"tcp", "local"},
         AcceptFrom(t, v, k, st)
  PROVE  SocketInv'
<1>1. Holding(t, "accept", {k}) /\ Release(t) /\ UNCHANGED <<mode, shut, path, datagram>>
  BY Zenon DEF AcceptFrom
<1>2. TruncationTold'
  BY <1>1, Types, Zenon DEF TruncationTold
<1>3. CASE UNCHANGED <<inbox, table>>
  BY <1>1, <1>2, <1>3, Types, CallEnds, Zenon
<1>4. CASE /\ inbox[busy[t].s] > 0 /\ value[v] = 0 /\ inbox' = [inbox EXCEPT ![busy[t].s] = @ - 1]
           /\ \E n \in Sockets : insert_socket(n, v, st)
  <2>1. PICK n \in Sockets : insert_socket(n, v, st)
    BY <1>4, Zenon
  <2>2. PICK s \in Sockets : s = busy[t].s
    BY <1>1, Zenon DEF SocketInv, BusyInv, Holding
  <2>3. inbox' \in [Sockets -> Nat]
    <3>1. PICK m \in Nat : m = inbox[s] - 1
      BY <1>4, <2>2, Types
    <3>2. inbox' = [inbox EXCEPT ![s] = m]
      BY <1>4, <2>2, <3>1, Zenon
    <3> QED BY <3>2, Types, Zenon
  <2>4. st # "free" /\ st # "locallistener"
    OBVIOUS
  <2>5. /\ FreeInv' /\ CountInv' /\ DOMAIN kind' = Sockets
        /\ mapped' \in [Sockets -> BOOLEAN] /\ names' \in [Sockets -> Nat]
        /\ value' \in [Values -> Sockets \cup {0}] /\ Bound' = Bound
    <3>1. Bound' = Bound \cup (IF st = "locallistener" THEN {n} ELSE {})
      BY <1>4, <2>1, <2>4, InsertKeeps, Zenon DEF SocketInv
    <3> QED BY <1>4, <2>1, <2>4, <3>1, InsertKeeps, Zenon DEF SocketInv
  <2>6. BusyInv' /\ LockInv' /\ Unlinking' = Unlinking /\ DOMAIN busy' = Threads
        /\ lock' \in [Sockets -> Threads \cup {Nobody}]
    BY <1>1, ReleaseKeeps, Zenon DEF SocketInv
  <2>7. SocketShape'
    BY <1>1, <2>3, <2>5, <2>6, Zenon DEF SocketInv, SocketShape, SocketTypeOK
  <2>8. OneOwner' /\ PathInv'
    BY <1>1, <2>5, <2>6, OwnerSame, Zenon DEF SocketInv
  <2> QED BY <1>2, <2>5, <2>6, <2>7, <2>8, Zenon DEF SocketInv
<1> QED BY <1>3, <1>4, Zenon DEF AcceptFrom

LEMMA CopyKeeps ==
  ASSUME SocketInv, NEW t \in Threads, NEW v \in Values, NEW w \in Values, copy_socket_handle(t, v, w)
  PROVE  SocketInv'
<1>1. /\ value[v] # 0 /\ value[w] = 0 /\ UNCHANGED <<kind, mapped, busy, lock, os>>
      /\ IF mapped[value[v]]
         THEN /\ names' = [names EXCEPT ![value[v]] = @ + 1]
              /\ value' = [value EXCEPT ![w] = value[v]]
         ELSE UNCHANGED <<names, value>>
  BY Zenon DEF copy_socket_handle
<1>2. PICK s \in Sockets : s = value[v]
  BY <1>1, Zenon DEF SocketInv, SocketShape, SocketTypeOK
<1>3. BusyInv' /\ LockInv' /\ OneOwner' /\ PathInv' /\ TruncationTold'
  BY <1>1, ThreadSame, BoundSame, OwnerSame, Zenon DEF SocketInv, os, TruncationTold
<1>4. CASE ~mapped[s]
  <2>1. UNCHANGED table
    BY <1>1, <1>2, <1>4, Zenon DEF table
  <2> QED BY <1>1, <1>3, <2>1, TableSame, Zenon DEF SocketInv, SocketShape, SocketTypeOK, os, table
<1>5. CASE mapped[s]
  <2>1. value' = [value EXCEPT ![w] = s] /\ names' = [names EXCEPT ![s] = @ + 1] /\ s # 0 /\ value[w] # s
    BY <1>1, <1>2, <1>5, Zenon
  <2>2. /\ Cardinality(Naming(s)) \in Nat /\ Cardinality(Naming(s)') = Cardinality(Naming(s)) + 1
        /\ \A r \in Sockets \ {s} : Naming(r)' = Naming(r)
    <3>1. \A r \in Sockets \ {s} : r \in Sockets \ {s, value[w]}
      BY <1>1, SocketsAssumption
    <3>2. /\ Cardinality(Naming(s)) \in Nat /\ Cardinality(Naming(s)') = Cardinality(Naming(s)) + 1
          /\ \A r \in Sockets \ {s, value[w]} : Naming(r)' = Naming(r)
      BY <2>1, NamesOneMore, Zenon DEF SocketInv
    <3> QED BY <3>1, <3>2, Zenon
  <2>3. names' \in [Sockets -> Nat] /\ value' \in [Values -> Sockets \cup {0}]
    BY <2>1 DEF SocketInv, SocketShape, SocketTypeOK
  <2>4. names'[s] = names[s] + 1 /\ names[s] \in Nat /\ \A r \in Sockets \ {s} : names'[r] = names[r]
    BY <2>1, Zenon DEF SocketInv, SocketShape, SocketTypeOK
  <2>5. names'[s] = Cardinality(Naming(s)') /\ names'[s] > 0
    <3>1. names[s] = Cardinality(Naming(s))
      BY <1>5, Zenon DEF SocketInv, CountInv
    <3> QED BY <2>2, <2>4, <3>1
  <2>6. CountInv'
    <3>1. ASSUME NEW r \in Sockets, mapped'[r] PROVE names'[r] = Cardinality(Naming(r)') /\ names'[r] > 0
      <4>1. CASE r = s
        BY <2>5, <4>1, Zenon
      <4>2. CASE r # s
        <5>1. mapped[r] /\ names'[r] = names[r] /\ Naming(r)' = Naming(r)
          BY <1>1, <2>2, <2>4, <3>1, <4>2, Zenon
        <5>2. names[r] = Cardinality(Naming(r)) /\ names[r] > 0
          BY <5>1, Zenon DEF SocketInv, CountInv
        <5> QED BY <5>1, <5>2, Zenon
      <4> QED BY <4>1, <4>2, Zenon
    <3> QED BY <3>1, Zenon DEF CountInv
  <2>7. FreeInv'
    <3>1. kind[s] # "free"
      BY <1>5, Zenon DEF SocketInv, FreeInv
    <3>2. ASSUME NEW r \in Sockets, kind[r] = "free", NEW x \in Values PROVE value'[x] # r
      <4>1. value[x] # r
        BY <3>2, Zenon DEF SocketInv, FreeInv
      <4>2. value'[x] = value[x] \/ value'[x] = s
        BY <2>1, Zenon DEF SocketInv, SocketShape, SocketTypeOK
      <4> QED BY <3>1, <3>2, <4>1, <4>2, Zenon
    <3> QED BY <1>1, <3>2, Zenon DEF SocketInv, FreeInv
  <2> QED BY <1>1, <1>3, <2>3, <2>6, <2>7, Zenon DEF SocketInv, SocketShape, SocketTypeOK, os
<1> QED BY <1>4, <1>5, Zenon

(* A value stops naming a socket whose entry stays, if it has one, with the count it should have. *)
LEMMA ForgetKeeps ==
  ASSUME SocketInv, NEW v \in Values, NEW s \in Sockets, value[v] = s, value' = [value EXCEPT ![v] = 0],
         kind' = kind, NEW m \in BOOLEAN, NEW n \in Nat,
         mapped' = [mapped EXCEPT ![s] = m], names' = [names EXCEPT ![s] = n],
         m => mapped[s] /\ n = names[s] - 1 /\ n > 0
  PROVE  /\ FreeInv' /\ CountInv' /\ mapped' \in [Sockets -> BOOLEAN] /\ names' \in [Sockets -> Nat]
         /\ value' \in [Values -> Sockets \cup {0}] /\ DOMAIN kind' = Sockets
<1>1. /\ mapped'[s] = m /\ \A r \in Sockets \ {s} : mapped'[r] = mapped[r]
      /\ names'[s] = n /\ \A r \in Sockets \ {s} : names'[r] = names[r]
      /\ value'[v] = 0 /\ \A w \in Values \ {v} : value'[w] = value[w]
      /\ mapped' \in [Sockets -> BOOLEAN] /\ names' \in [Sockets -> Nat]
      /\ value' \in [Values -> Sockets \cup {0}] /\ DOMAIN kind' = Sockets
  BY Zenon DEF SocketInv, SocketShape, SocketTypeOK
<1>2. /\ Cardinality(Naming(s)) \in Nat /\ Cardinality(Naming(s)') = Cardinality(Naming(s)) - 1
      /\ \A r \in Sockets \ {s} : Naming(r)' = Naming(r)
  BY NamesOneLess, Zenon DEF SocketInv
<1>3. FreeInv'
  <2>1. kind[s] # "free"
    BY Zenon DEF SocketInv, FreeInv
  <2>2. ASSUME NEW r \in Sockets, kind[r] = "free" PROVE ~mapped'[r] /\ \A w \in Values : value'[w] # r
    <3>1. r # s /\ ~mapped[r] /\ \A w \in Values : value[w] # r
      BY <2>1, <2>2, Zenon DEF SocketInv, FreeInv
    <3>2. r # 0
      BY SocketsAssumption
    <3>3. ASSUME NEW w \in Values PROVE value'[w] # r
      <4>1. CASE w = v
        BY <1>1, <3>2, <4>1, Zenon
      <4>2. CASE w # v
        BY <1>1, <3>1, <4>2, Zenon
      <4> QED BY <4>1, <4>2, Zenon
    <3> QED BY <1>1, <3>1, <3>3, Zenon
  <2> QED BY <2>2, Zenon DEF FreeInv
<1>4. CountInv'
  <2>1. ASSUME NEW r \in Sockets, mapped'[r] PROVE names'[r] = Cardinality(Naming(r)') /\ names'[r] > 0
    <3>1. CASE r = s
      <4>1. m /\ mapped[s] /\ n = names[s] - 1 /\ n > 0
        BY <1>1, <2>1, <3>1, Zenon
      <4>2. names[s] = Cardinality(Naming(s))
        BY <4>1, Zenon DEF SocketInv, CountInv
      <4> QED BY <1>1, <1>2, <3>1, <4>1, <4>2, Zenon
    <3>2. CASE r # s
      <4>1. mapped[r] /\ names'[r] = names[r] /\ Naming(r)' = Naming(r)
        BY <1>1, <1>2, <2>1, <3>2, Zenon
      <4>2. names[r] = Cardinality(Naming(r)) /\ names[r] > 0
        BY <4>1, Zenon DEF SocketInv, CountInv
      <4> QED BY <4>1, <4>2, Zenon
    <3> QED BY <3>1, <3>2, Zenon
  <2> QED BY <2>1, Zenon DEF CountInv
<1> QED BY <1>1, <1>3, <1>4, Zenon

LEMMA ReleaseSocketKeeps ==
  ASSUME SocketInv, NEW t \in Threads, NEW v \in Values, release_socket(t, v)
  PROVE  SocketInv'
<1>1. value[v] # 0 /\ value' = [value EXCEPT ![v] = 0] /\ UNCHANGED <<kind, busy, lock, mode, shut, inbox, datagram>>
  BY Zenon DEF release_socket
<1>2. PICK s \in Sockets : s = value[v]
  BY <1>1, Zenon DEF SocketInv, SocketShape, SocketTypeOK
<1>3. /\ names' = [names EXCEPT ![s] = IF mapped[s] THEN @ - 1 ELSE @]
      /\ mapped' = [mapped EXCEPT ![s] = @ /\ names[s] # 1]
      /\ path' = (path /\ ~(kind[s] = "locallistener" /\ mapped[s] /\ names[s] = 1))
  BY <1>2, Zenon DEF release_socket
<1>4. PICK m \in BOOLEAN : m = (mapped[s] /\ names[s] # 1)
  BY Zenon
<1>5. mapped[s] \in BOOLEAN /\ names[s] \in Nat /\ path \in BOOLEAN /\ (mapped[s] => names[s] > 0)
  BY Zenon DEF SocketInv, SocketShape, SocketTypeOK, CountInv
<1>6. PICK n \in Nat : n = IF mapped[s] THEN names[s] - 1 ELSE names[s]
  BY <1>5
<1>7. mapped' = [mapped EXCEPT ![s] = m] /\ names' = [names EXCEPT ![s] = n]
  BY <1>3, <1>4, <1>6, Zenon
<1>8. m => mapped[s] /\ n = names[s] - 1 /\ n > 0
  <2>1. m => mapped[s] /\ names[s] # 1 /\ names[s] > 0 /\ n = names[s] - 1
    BY <1>4, <1>5, <1>6, Zenon
  <2>2. names[s] # 1 /\ names[s] > 0 /\ n = names[s] - 1 => n > 0
    BY <1>5
  <2> QED BY <2>1, <2>2, Zenon
<1>9. /\ FreeInv' /\ CountInv' /\ mapped' \in [Sockets -> BOOLEAN] /\ names' \in [Sockets -> Nat]
      /\ value' \in [Values -> Sockets \cup {0}] /\ DOMAIN kind' = Sockets
  BY <1>1, <1>2, <1>7, <1>8, ForgetKeeps, Zenon
<1>10. BusyInv' /\ LockInv' /\ Unlinking' = Unlinking /\ TruncationTold'
  BY <1>1, ThreadSame, Zenon DEF SocketInv, TruncationTold
<1>11. path' \in BOOLEAN /\ OneOwner' /\ PathInv'
  <2>1. mapped'[s] = m /\ \A r \in Sockets \ {s} : mapped'[r] = mapped[r]
    BY <1>7, Zenon DEF SocketInv, SocketShape, SocketTypeOK
  <2>2. CASE kind[s] = "locallistener" /\ mapped[s] /\ names[s] = 1
    <3>1. s \in Bound /\ path' = FALSE
      BY <1>3, <2>2, Zenon DEF Bound
    <3>2. Bound = {s} /\ Unlinking = {}
      BY <3>1, Zenon DEF SocketInv, OneOwner
    <3>3. ~m
      BY <1>4, <2>2, Zenon
    <3>4. Bound' = {}
      <4>1. ASSUME NEW r \in Sockets PROVE ~(kind'[r] = "locallistener" /\ mapped'[r])
        <5>1. CASE r = s
          BY <2>1, <3>3, <5>1, Zenon
        <5>2. CASE r # s
          BY <1>1, <2>1, <3>2, <5>2, Zenon DEF Bound
        <5> QED BY <5>1, <5>2, Zenon
      <4> QED BY <4>1, Zenon DEF Bound
    <3> QED BY <1>10, <3>1, <3>2, <3>4, Zenon DEF OneOwner, PathInv
  <2>3. CASE ~(kind[s] = "locallistener" /\ mapped[s] /\ names[s] = 1)
    <3>1. path' = path
      BY <1>3, <1>5, <2>3, Zenon
    <3>2. Bound' = Bound
      <4>1. ASSUME NEW r \in Sockets
            PROVE  (kind'[r] = "locallistener" /\ mapped'[r]) <=> (kind[r] = "locallistener" /\ mapped[r])
        <5>1. CASE r = s
          BY <1>1, <1>4, <2>1, <2>3, <5>1, Zenon
        <5>2. CASE r # s
          BY <1>1, <2>1, <5>2, Zenon
        <5> QED BY <5>1, <5>2, Zenon
      <4> QED BY <4>1, Zenon DEF Bound
    <3> QED BY <1>5, <1>10, <3>1, <3>2, OwnerSame, Zenon DEF SocketInv
  <2> QED BY <2>2, <2>3, Zenon
<1>12. SocketShape'
  BY <1>1, <1>9, <1>11, Zenon DEF SocketInv, SocketShape, SocketTypeOK
<1> QED BY <1>9, <1>10, <1>11, <1>12, Zenon DEF SocketInv

LEMMA RemoveKeeps ==
  ASSUME SocketInv, NEW t \in Threads, NEW v \in Values, remove_socket(t, v)
  PROVE  SocketInv'
<1>1. /\ busy[t] = Idle /\ value[v] # 0 /\ value' = [value EXCEPT ![v] = 0]
      /\ UNCHANGED <<kind, lock, mode, shut, inbox, path, datagram>>
  BY Zenon DEF remove_socket, os
<1>2. PICK s \in Sockets : s = value[v]
  BY <1>1, Zenon DEF SocketInv, SocketShape, SocketTypeOK
<1>3. /\ mapped' = [mapped EXCEPT ![s] = FALSE] /\ names' = [names EXCEPT ![s] = 0]
      /\ busy' = IF mapped[s] /\ Unlinks(s)
                THEN [busy EXCEPT ![t] = [op |-> "unlink", s |-> s, v |-> v]] ELSE busy
  BY <1>2, Zenon DEF remove_socket
<1>4. /\ FreeInv' /\ CountInv' /\ mapped' \in [Sockets -> BOOLEAN] /\ names' \in [Sockets -> Nat]
      /\ value' \in [Values -> Sockets \cup {0}] /\ DOMAIN kind' = Sockets
  <2>1. 0 \in Nat
    OBVIOUS
  <2> QED BY <1>1, <1>2, <1>3, <2>1, ForgetKeeps, Zenon
<1>5. mapped'[s] = FALSE /\ \A r \in Sockets \ {s} : mapped'[r] = mapped[r]
  BY <1>3, Zenon DEF SocketInv, SocketShape, SocketTypeOK
<1>6. TruncationTold'
  BY <1>1, Types, Zenon DEF TruncationTold
<1>7. BusyInv' /\ LockInv' /\ OneOwner' /\ PathInv' /\ DOMAIN busy' = Threads
  <2>1. CASE mapped[s] /\ Unlinks(s)
    <3>1. PICK b : b = [op |-> "unlink", s |-> s, v |-> v]
      BY Zenon
    <3>2. b.op = "unlink"
      BY <3>1
    <3>3. /\ DOMAIN busy' = Threads /\ busy'[t] = b /\ \A u \in Threads \ {t} : busy'[u] = busy[u]
      BY <1>3, <2>1, <3>1, Zenon DEF SocketInv, SocketShape
    <3>4. BusyInv'
      <4>1. ASSUME NEW u \in Threads, busy'[u].op \notin {"idle", "unlink"} PROVE busy'[u].s \in Sockets
        <5>1. u # t
          BY <3>2, <3>3, <4>1, Zenon
        <5> QED BY <3>3, <4>1, <5>1, Zenon DEF SocketInv, BusyInv
      <4> QED BY <4>1, Zenon DEF BusyInv
    <3>5. busy[t].op = "idle"
      BY <1>1 DEF Idle
    <3>6. LockInv'
      <4>1. ASSUME NEW r \in Sockets, lock'[r] # Nobody
            PROVE  busy'[lock'[r]].s = r /\ busy'[lock'[r]].op \notin {"idle", "unlink"}
        <5>1. lock'[r] = lock[r] /\ lock[r] \in Threads
          BY <1>1, <4>1, Zenon DEF SocketInv, SocketShape, SocketTypeOK
        <5>2. busy[lock[r]].s = r /\ busy[lock[r]].op \notin {"idle", "unlink"}
          BY <4>1, <5>1, Zenon DEF SocketInv, LockInv
        <5>3. lock[r] # t
          BY <3>5, <5>2, Zenon
        <5>4. busy'[lock[r]] = busy[lock[r]]
          BY <3>3, <5>1, <5>3, Zenon
        <5> QED BY <5>1, <5>2, <5>4, Zenon
      <4> QED BY <4>1, Zenon DEF LockInv
    <3>7. s \in Bound /\ Bound = {s} /\ Unlinking = {}
      BY <2>1, Zenon DEF Unlinks, Bound, SocketInv, OneOwner
    <3>8. Bound' = {}
      <4>1. ASSUME NEW r \in Sockets PROVE ~(kind'[r] = "locallistener" /\ mapped'[r])
        <5>1. CASE r = s
          BY <1>5, <5>1, Zenon
        <5>2. CASE r # s
          <6>1. ~(kind[r] = "locallistener" /\ mapped[r])
            BY <3>7, <5>2, Zenon DEF Bound
          <6> QED BY <1>1, <1>5, <5>2, <6>1, Zenon
        <5> QED BY <5>1, <5>2, Zenon
      <4> QED BY <4>1, Zenon DEF Bound
    <3>9. Unlinking' = {t}
      <4>1. ASSUME NEW u \in Threads PROVE busy'[u].op = "unlink" <=> u = t
        <5>1. CASE u = t
          BY <3>2, <3>3, <5>1, Zenon
        <5>2. CASE u # t
          BY <3>3, <3>7, <5>2, Zenon DEF Unlinking
        <5> QED BY <5>1, <5>2, Zenon
      <4> QED BY <4>1, Zenon DEF Unlinking
    <3>10. path' = path /\ path
      BY <1>1, <3>7, Zenon DEF SocketInv, PathInv
    <3> QED BY <3>3, <3>4, <3>6, <3>8, <3>9, <3>10, Zenon DEF OneOwner, PathInv
  <2>2. CASE ~(mapped[s] /\ Unlinks(s))
    <3>1. UNCHANGED <<busy, lock>>
      BY <1>1, <1>3, <2>2, Zenon
    <3>2. Bound' = Bound
      <4>1. ASSUME NEW r \in Sockets
            PROVE  (kind'[r] = "locallistener" /\ mapped'[r]) <=> (kind[r] = "locallistener" /\ mapped[r])
        <5>1. CASE r = s
          BY <1>1, <1>5, <2>2, <5>1, Zenon DEF Unlinks
        <5>2. CASE r # s
          BY <1>1, <1>5, <5>2, Zenon
        <5> QED BY <5>1, <5>2, Zenon
      <4> QED BY <4>1, Zenon DEF Bound
    <3> QED BY <1>1, <3>1, <3>2, ThreadSame, OwnerSame, Zenon DEF SocketInv, SocketShape
  <2> QED BY <2>1, <2>2, Zenon
<1>8. SocketShape'
  BY <1>1, <1>4, <1>7, Zenon DEF SocketInv, SocketShape, SocketTypeOK
<1> QED BY <1>4, <1>6, <1>7, <1>8, Zenon DEF SocketInv

LEMMA UnlinkKeeps ==
  ASSUME SocketInv, NEW t \in Threads, UnlinkPath(t)
  PROVE  SocketInv'
<1>1. /\ t \in Unlinking /\ path' = FALSE /\ busy' = [busy EXCEPT ![t] = Idle]
      /\ UNCHANGED table /\ UNCHANGED <<lock, mode, shut, inbox, datagram>>
  BY Zenon DEF UnlinkPath, Unlinking
<1>2. Idle.op = "idle"
  BY DEF Idle
<1>3. DOMAIN busy' = Threads /\ busy'[t] = Idle /\ \A u \in Threads \ {t} : busy'[u] = busy[u]
  BY <1>1, Zenon DEF SocketInv, SocketShape
<1>4. BusyInv'
  BY <1>2, <1>3, Zenon DEF SocketInv, BusyInv
<1>5. LockInv'
  <2>1. ASSUME NEW r \in Sockets, lock'[r] # Nobody
        PROVE  busy'[lock'[r]].s = r /\ busy'[lock'[r]].op \notin {"idle", "unlink"}
    <3>1. lock'[r] = lock[r] /\ lock[r] \in Threads
      BY <1>1, <2>1, Zenon DEF SocketInv, SocketShape, SocketTypeOK
    <3>2. busy[lock[r]].s = r /\ busy[lock[r]].op \notin {"idle", "unlink"}
      BY <2>1, <3>1, Zenon DEF SocketInv, LockInv
    <3>3. lock[r] # t
      BY <1>1, <3>2, Zenon DEF Unlinking
    <3> QED BY <1>3, <3>1, <3>2, <3>3, Zenon
  <2> QED BY <2>1, Zenon DEF LockInv
<1>6. Unlinking = {t} /\ Bound = {}
  BY <1>1, Zenon DEF SocketInv, OneOwner
<1>7. Unlinking' = {} /\ Bound' = {}
  <2>1. Bound' = Bound
    BY <1>1, BoundSame, Zenon DEF table
  <2>2. ASSUME NEW u \in Threads PROVE busy'[u].op # "unlink"
    <3>1. CASE u = t
      BY <1>2, <1>3, <3>1, Zenon
    <3>2. CASE u # t
      BY <1>3, <1>6, <3>2, Zenon DEF Unlinking
    <3> QED BY <3>1, <3>2, Zenon
  <2> QED BY <1>6, <2>1, <2>2, Zenon DEF Unlinking
<1>8. OneOwner' /\ PathInv'
  BY <1>1, <1>7, Zenon DEF OneOwner, PathInv
<1>9. FreeInv' /\ CountInv' /\ TruncationTold'
  BY <1>1, TableSame, Zenon DEF SocketInv, TruncationTold
<1>10. SocketShape'
  BY <1>1, <1>3, Zenon DEF SocketInv, SocketShape, SocketTypeOK, table
<1> QED BY <1>4, <1>5, <1>8, <1>9, <1>10, Zenon DEF SocketInv

LEMMA CallStarts ==
  ASSUME SocketInv, NEW t \in Threads, NEW v \in Values, NEW op, with_socket(t, v, op)
  PROVE  SocketInv'
<1>1. PICK s \in Sockets : s = value[v]
  BY Zenon DEF with_socket, SocketInv, SocketShape, SocketTypeOK
<1>2. /\ busy[t] = Idle /\ op \in OpsOf(kind[s])
      /\ busy' = [busy EXCEPT ![t] = [op |-> op, s |-> s, v |-> v]]
      /\ UNCHANGED table /\ UNCHANGED <<lock, mode, shut, inbox, path, datagram>>
  BY <1>1, Zenon DEF with_socket, Call, os
<1>3. op \notin {"idle", "unlink"}
  BY <1>2, UnlinkNotAnOp, Zenon
<1>4. PICK b : b = [op |-> op, s |-> s, v |-> v]
  BY Zenon
<1>5. b.op = op /\ b.s = s
  BY <1>4
<1>6. DOMAIN busy' = Threads /\ busy'[t] = b /\ \A u \in Threads \ {t} : busy'[u] = busy[u]
  BY <1>2, <1>4, Zenon DEF SocketInv, SocketShape
<1>7. BusyInv'
  <2>1. ASSUME NEW u \in Threads, busy'[u].op \notin {"idle", "unlink"} PROVE busy'[u].s \in Sockets
    <3>1. CASE u = t
      BY <1>5, <1>6, <3>1, Zenon
    <3>2. CASE u # t
      BY <1>6, <2>1, <3>2, Zenon DEF SocketInv, BusyInv
    <3> QED BY <3>1, <3>2, Zenon
  <2> QED BY <2>1, Zenon DEF BusyInv
<1>8. busy[t].op = "idle"
  BY <1>2 DEF Idle
<1>9. LockInv'
  <2>1. ASSUME NEW r \in Sockets, lock'[r] # Nobody
        PROVE  busy'[lock'[r]].s = r /\ busy'[lock'[r]].op \notin {"idle", "unlink"}
    <3>1. lock'[r] = lock[r] /\ lock[r] \in Threads
      BY <1>2, <2>1, Zenon DEF SocketInv, SocketShape, SocketTypeOK
    <3>2. busy[lock[r]].s = r /\ busy[lock[r]].op \notin {"idle", "unlink"}
      BY <2>1, <3>1, Zenon DEF SocketInv, LockInv
    <3>3. lock[r] # t
      BY <1>8, <3>2, Zenon
    <3> QED BY <1>6, <3>1, <3>2, <3>3, Zenon
  <2> QED BY <2>1, Zenon DEF LockInv
<1>10. Unlinking' = Unlinking
  <2>1. ASSUME NEW u \in Threads PROVE busy'[u].op = "unlink" <=> busy[u].op = "unlink"
    <3>1. CASE u = t
      BY <1>3, <1>5, <1>6, <1>8, <3>1, Zenon
    <3>2. CASE u # t
      BY <1>6, <3>2, Zenon
    <3> QED BY <3>1, <3>2, Zenon
  <2> QED BY <2>1, Zenon DEF Unlinking
<1>11. OneOwner' /\ PathInv'
  BY <1>2, <1>10, BoundSame, OwnerSame, Zenon DEF SocketInv, table
<1>12. FreeInv' /\ CountInv' /\ TruncationTold'
  BY <1>2, TableSame, Zenon DEF SocketInv, TruncationTold
<1>13. SocketShape'
  BY <1>2, <1>6, Zenon DEF SocketInv, SocketShape, SocketTypeOK, table
<1> QED BY <1>7, <1>9, <1>11, <1>12, <1>13, Zenon DEF SocketInv

LEMMA LockKeeps ==
  ASSUME SocketInv, NEW t \in Threads, Lock(t)
  PROVE  SocketInv'
<1>1. /\ busy[t].op \notin {"idle", "unlink"} /\ lock' = [lock EXCEPT ![busy[t].s] = t]
      /\ UNCHANGED table /\ UNCHANGED <<busy, mode, shut, inbox, path, datagram>>
  BY Zenon DEF Lock, os
<1>2. PICK s \in Sockets : s = busy[t].s
  BY <1>1, Zenon DEF SocketInv, BusyInv
<1>3. /\ lock' \in [Sockets -> Threads \cup {Nobody}] /\ lock'[s] = t
      /\ \A r \in Sockets \ {s} : lock'[r] = lock[r]
  BY <1>1, <1>2, Zenon DEF SocketInv, SocketShape, SocketTypeOK
<1>4. LockInv'
  <2>1. ASSUME NEW r \in Sockets, lock'[r] # Nobody
        PROVE  busy[lock'[r]].s = r /\ busy[lock'[r]].op \notin {"idle", "unlink"}
    <3>1. CASE r = s
      BY <1>1, <1>2, <1>3, <3>1, Zenon
    <3>2. CASE r # s
      BY <1>3, <2>1, <3>2, Zenon DEF SocketInv, LockInv
    <3> QED BY <3>1, <3>2, Zenon
  <2> QED BY <1>1, <2>1, Zenon DEF LockInv
<1>5. BusyInv' /\ Unlinking' = Unlinking
  BY <1>1, Zenon DEF SocketInv, BusyInv, Unlinking
<1>6. OneOwner' /\ PathInv'
  BY <1>1, <1>5, BoundSame, OwnerSame, Zenon DEF SocketInv, table
<1>7. FreeInv' /\ CountInv' /\ TruncationTold'
  BY <1>1, TableSame, Zenon DEF SocketInv, TruncationTold
<1>8. SocketShape'
  BY <1>1, <1>3, Zenon DEF SocketInv, SocketShape, SocketTypeOK, table
<1> QED BY <1>4, <1>5, <1>6, <1>7, <1>8, Zenon DEF SocketInv

LEMMA ArrivesKeeps ==
  ASSUME SocketInv, NEW s \in Sockets, Arrives(s)
  PROVE  SocketInv'
<1>1. PICK n \in 1..(IF kind[s] = "udp" THEN MaxDatagram ELSE 1) : inbox' = [inbox EXCEPT ![s] = n]
  BY Zenon DEF Arrives
<1>2. n \in Nat
  BY SocketsAssumption
<1>3. inbox' \in [Sockets -> Nat]
  BY <1>1, <1>2, Types, Zenon
<1>4. UNCHANGED table /\ UNCHANGED <<busy, lock, mode, shut, path, datagram>>
  BY Zenon DEF Arrives
<1>5. BusyInv' /\ LockInv' /\ OneOwner' /\ PathInv'
  BY <1>4, ThreadSame, BoundSame, OwnerSame, Zenon DEF SocketInv, table
<1>6. FreeInv' /\ CountInv' /\ TruncationTold'
  BY <1>4, TableSame, Zenon DEF SocketInv, TruncationTold
<1>7. SocketShape'
  BY <1>3, <1>4, Zenon DEF SocketInv, SocketShape, SocketTypeOK, table
<1> QED BY <1>5, <1>6, <1>7, Zenon DEF SocketInv

LEMMA SocketsStart == SocketInit => SocketInv
<1> SUFFICES ASSUME SocketInit PROVE SocketInv
  OBVIOUS
<1>1. Idle.op = "idle" /\ Nobody = "none"
  BY DEF Idle, Nobody
<1>2. \A s \in Sockets : s # 0
  BY SocketsAssumption
<1>3. SocketShape
  BY ZenonT(30) DEF SocketInit, SocketShape, SocketTypeOK, Nobody
<1>4. FreeInv /\ CountInv
  BY <1>2, Zenon DEF SocketInit, FreeInv, CountInv
<1>5. BusyInv /\ LockInv
  BY <1>1, Zenon DEF SocketInit, BusyInv, LockInv
<1>6. OneOwner /\ PathInv
  <2>1. Bound = {} /\ Unlinking = {} /\ path = FALSE
    BY <1>1, Zenon DEF SocketInit, Bound, Unlinking
  <2> QED BY <2>1, Zenon DEF OneOwner, PathInv
<1>7. TruncationTold
  BY DEF SocketInit, NoDatagram, TruncationTold
<1> QED BY <1>3, <1>4, <1>5, <1>6, <1>7, Zenon DEF SocketInv

LEMMA SocketsStutter ==
  ASSUME SocketInv, UNCHANGED socketVars
  PROVE  SocketInv'
<1>1. UNCHANGED table /\ UNCHANGED <<busy, lock, mode, shut, inbox, path, datagram>>
  BY Zenon DEF socketVars, table
<1>2. BusyInv' /\ LockInv' /\ OneOwner' /\ PathInv'
  BY <1>1, ThreadSame, BoundSame, OwnerSame, Zenon DEF SocketInv, table
<1>3. FreeInv' /\ CountInv' /\ TruncationTold'
  BY <1>1, TableSame, Zenon DEF SocketInv, TruncationTold
<1>4. SocketShape'
  BY <1>1, Zenon DEF SocketInv, SocketShape, SocketTypeOK, table
<1> QED BY <1>2, <1>3, <1>4, Zenon DEF SocketInv

(* Sockets, src/net.rs: the inductive invariant.  It adds to what SocketsSound says that a
   handle not given out yet is nowhere, that only a call in progress holds a mutex, and that
   the path has one owner: a listener in the table, or the one thread that is closing it. *)
THEOREM SocketInductive == SocketSpec => []SocketInv
<1>1. SocketInv /\ [SocketNext]_socketVars => SocketInv'
  <2> SUFFICES ASSUME SocketInv, SocketNext PROVE SocketInv'
    BY SocketsStutter, Zenon
  <2>1. ASSUME NEW t \in Threads, UnlinkPath(t) \/ Lock(t) PROVE SocketInv'
    BY <2>1, UnlinkKeeps, LockKeeps, Zenon
  <2>2. ASSUME NEW t \in Threads, tcp_read(t) \/ local_read(t) PROVE SocketInv'
    BY <2>2, ReadKeeps, Zenon DEF tcp_read, local_read
  <2>3. ASSUME NEW t \in Threads, tcp_write(t) \/ local_write(t) \/ send_to(t) PROVE SocketInv'
    BY <2>3, QuickKeeps, Zenon DEF tcp_write, local_write, send_to
  <2>4. ASSUME NEW t \in Threads,
               \/ tcp_set_nonblocking(t) \/ tcp_listener_set_nonblocking(t)
               \/ udp_set_nonblocking(t) \/ local_set_nonblocking(t)
        PROVE  SocketInv'
    BY <2>4, ModeKeeps, Zenon
       DEF tcp_set_nonblocking, tcp_listener_set_nonblocking, udp_set_nonblocking, local_set_nonblocking
  <2>5. ASSUME NEW t \in Threads,
               tcp_set_read_timeout(t) \/ udp_set_read_timeout(t) \/ local_set_read_timeout(t)
        PROVE  SocketInv'
    BY <2>5, ModeKeeps, Zenon DEF tcp_set_read_timeout, udp_set_read_timeout, local_set_read_timeout
  <2>6. ASSUME NEW t \in Threads,
               tcp_options(t) \/ tcp_listener_local_addr(t) \/ local_options(t) \/ udp_options(t)
        PROVE  SocketInv'
    BY <2>6, QuickKeeps, Zenon DEF tcp_options, tcp_listener_local_addr, local_options, udp_options
  <2>7. ASSUME NEW t \in Threads, udp_multicast_v4(t) \/ udp_multicast_v6(t) PROVE SocketInv'
    BY <2>7, QuickKeeps, Zenon DEF udp_multicast_v4, udp_multicast_v6
  <2>8. ASSUME NEW t \in Threads, NEW side \in {"read", "write"},
               tcp_shutdown(t, side) \/ local_shutdown(t, side)
        PROVE  SocketInv'
    BY <2>8, ShutdownKeeps, Zenon DEF tcp_shutdown, local_shutdown
  <2>9. ASSUME NEW t \in Threads, NEW size \in 1..MaxDatagram, recv_from(t, size) PROVE SocketInv'
    BY <2>9, RecvFromKeeps, Zenon
  <2>10. ASSUME NEW t \in Threads, NEW v \in Values, release_socket(t, v) \/ remove_socket(t, v)
         PROVE  SocketInv'
    BY <2>10, ReleaseSocketKeeps, RemoveKeeps, Zenon
  <2>11. ASSUME NEW t \in Threads, NEW v \in Values,
                tcp_listener_accept(t, v) \/ local_listener_accept(t, v)
         PROVE  SocketInv'
    BY <2>11, AcceptKeeps, Zenon DEF tcp_listener_accept, local_listener_accept
  <2>12. ASSUME NEW t \in Threads, NEW v \in Values,
                tcp_connect(t, v) \/ tcp_listener_bind(t, v) \/ udp_bind(t, v) \/ local_connect(t, v)
         PROVE  SocketInv'
    <3>1. PICK k \in {"tcp", "tcplistener", "udp", "local"} : Open(t, v, k) /\ path' = path
      BY <2>12, Zenon DEF tcp_connect, tcp_listener_bind, udp_bind, local_connect
    <3>2. k # "free" /\ k # "locallistener"
      OBVIOUS
    <3>3. (k # "locallistener" /\ path' = path) \/ (k = "locallistener" /\ ~path /\ path' = TRUE)
      BY <3>1, <3>2, Zenon
    <3> QED BY <3>1, <3>2, <3>3, OpenKeeps, ZenonT(30)
  <2>13. ASSUME NEW t \in Threads, NEW v \in Values, local_listener_bind(t, v) PROVE SocketInv'
    BY <2>13, OpenKeeps, Zenon DEF local_listener_bind
  <2>14. ASSUME NEW t \in Threads, NEW v \in Values, NEW w \in Values, copy_socket_handle(t, v, w)
         PROVE  SocketInv'
    BY <2>14, CopyKeeps, Zenon
  <2>15. ASSUME NEW t \in Threads, NEW v \in Values, NEW op, with_socket(t, v, op) PROVE SocketInv'
    BY <2>15, CallStarts, Zenon
  <2>16. ASSUME NEW s \in Sockets, Arrives(s) PROVE SocketInv'
    BY <2>16, ArrivesKeeps, Zenon
  <2> QED
    BY <2>1, <2>2, <2>3, <2>4, <2>5, <2>6, <2>7, <2>8, <2>9, <2>10, <2>11, <2>12, <2>13, <2>14, <2>15,
       <2>16, Zenon DEF SocketNext
<1> QED BY <1>1, SocketsStart, PTL DEF SocketSpec

(* Sockets, src/net.rs: for any number of threads, values and handles, the count of a socket
   in its table is the number of values that name it, a socket's mutex is held by a thread
   that is using the socket, a local listener's path exists exactly while the listener does
   or is being closed, and a datagram that lost a part says so. *)
THEOREM SocketsAreSound == SocketSpec => []SocketsSound
<1>1. SocketInv => SocketsSound
  <2> SUFFICES ASSUME SocketInv PROVE SocketsSound
    OBVIOUS
  <2>1. SocketNamesExact
    <3>1. ASSUME NEW s \in Sockets, lock[s] # Nobody PROVE lock[s] \in Users(s)
      <4>1. lock[s] \in Threads /\ busy[lock[s]].s = s /\ busy[lock[s]].op \notin {"idle", "unlink"}
        BY <3>1, Zenon DEF SocketInv, SocketShape, SocketTypeOK, LockInv
      <4> QED BY <4>1, Zenon DEF Users
    <3> QED BY <3>1, Zenon DEF SocketInv, CountInv, Naming, SocketNamesExact
  <2>2. PathFollowsListener
    <3>1. Bound # {} <=> \E s \in Sockets : kind[s] = "locallistener" /\ mapped[s]
      BY Zenon DEF Bound
    <3>2. Unlinking # {} <=> \E t \in Threads : busy[t].op = "unlink"
      BY Zenon DEF Unlinking
    <3> QED BY <3>1, <3>2, Zenon DEF SocketInv, PathInv, PathFollowsListener
  <2> QED BY <2>1, <2>2, Zenon DEF SocketInv, SocketShape, SocketsSound
<1> QED BY <1>1, SocketInductive, PTL
=============================================================================
