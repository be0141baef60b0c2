----------------------------- MODULE MCServers ------------------------------
(***************************************************************************)
(* The servers that run threads of their own: the worker pool behind an    *)
(* HTTP server, the HTTP/3 listener, the actor that owns an event stream   *)
(* or a WebSocket session, and pollers.  Init picks the component and only *)
(* that one moves; x1, x2, ... are its variables.                          *)
(***************************************************************************)
EXTENDS StreamingActor

CONSTANTS s1, s2, s3, u1, t1, t2, p1, p2, none
VARIABLES part, x1, x2, x3, x4, x5, x6, x7, x8, x9, x10, x11, x12, x13, x14, x15, x16, x17, x18

P == INSTANCE HttpServerPool
  WITH MaxConns <- 2, Settings <- {<<1, 2>>, <<2, 1>>}, MaxPanics <- 1, None <- none,
       worker_count <- x1, max_requests <- x2, main <- x3, token <- x4, cancelled <- x5,
       first_error <- x6, accept_error <- x7, by_caller <- x8, result <- x9, permits <- x10,
       actors <- x11, apc <- x12, queue <- x13, response <- x14, wpc <- x15, job <- x16,
       panics <- x17, outcome <- x18
PoolInit ==
  /\ part = "pool" /\ P!Init /\ Init
PoolNext ==
  /\ part = "pool" /\ P!Next
  /\ UNCHANGED <<part, vars>>

L == INSTANCE Http3Server
  WITH Servers <- {s1, s2, s3}, MaxServed <- 4, QueueCapacity <- 1, SessionCapacity <- 2,
       None <- none, listener <- x1, commands <- x2, queue <- x3, current <- x4, stage <- x5,
       pc <- x6, reply <- x7, handled <- x8, answered <- x9, served <- x10, sessions <- x11,
       worker <- x12
ListenerInit ==
  /\ part = "listener" /\ L!Init /\ Init /\ x13 = 0 /\ x14 = 0 /\ x15 = 0 /\ x16 = 0 /\ x17 = 0
  /\ x18 = 0
ListenerNext ==
  /\ part = "listener" /\ L!Next
  /\ UNCHANGED <<part, vars, x13, x14, x15, x16, x17, x18>>

E == INSTANCE Poller
  WITH Threads <- {t1, t2}, Pollers <- {p1, p2}, Sockets <- {s1}, MaxToken <- 1,
       MaxEvents <- 2, MaxCalls <- 5, refs <- x1, sources <- x2, next_token <- x3, vals <- x4,
       ready <- x5, nonblocking <- x6, registry <- x7, holder <- x8, call <- x9, events <- x10,
       calls <- x11
PollerInit ==
  /\ part = "poller" /\ E!Init /\ Init /\ x12 = 0 /\ x13 = 0 /\ x14 = 0 /\ x15 = 0 /\ x16 = 0
  /\ x17 = 0 /\ x18 = 0
PollerNext ==
  /\ part = "poller" /\ E!Next
  /\ UNCHANGED <<part, vars, x12, x13, x14, x15, x16, x17, x18>>

StreamInit ==
  /\ part = "stream" /\ Init /\ x1 = 0 /\ x2 = 0 /\ x3 = 0 /\ x4 = 0 /\ x5 = 0 /\ x6 = 0
  /\ x7 = 0 /\ x8 = 0 /\ x9 = 0 /\ x10 = 0 /\ x11 = 0 /\ x12 = 0 /\ x13 = 0 /\ x14 = 0
  /\ x15 = 0 /\ x16 = 0 /\ x17 = 0 /\ x18 = 0
StreamNext ==
  /\ part = "stream" /\ Next
  /\ UNCHANGED <<part, x1, x2, x3, x4, x5, x6, x7, x8, x9, x10, x11, x12, x13, x14, x15, x16,
                x17, x18>>

SuiteInit == StreamInit \/ PoolInit \/ ListenerInit \/ PollerInit
SuiteNext == StreamNext \/ PoolNext \/ ListenerNext \/ PollerNext
suiteVars == <<part, vars, x1, x2, x3, x4, x5, x6, x7, x8, x9, x10, x11, x12, x13, x14, x15,
               x16, x17, x18>>

poolVars == P!vars
listenerVars == L!vars
pollerVars == E!vars
SuiteSpec ==
  /\ SuiteInit /\ [][SuiteNext]_suiteVars
  /\ WF_poolVars(part = "pool" /\ P!MainStep)
  /\ \A c \in 1..2 : WF_poolVars(part = "pool" /\ P!ActorStep(c))
  /\ \A w \in 1..2 : WF_poolVars(part = "pool" /\ P!WorkerStep(w))
  /\ WF_listenerVars(part = "listener" /\ (L!Worker \/ L!Joined))
  /\ SF_listenerVars(part = "listener" /\ L!Send(s1))
  /\ \A c \in {s1, s2, s3} :
       WF_listenerVars(part = "listener" /\ (L!Send(c) \/ L!Returned(c)))
  /\ WF_vars(part = "stream" /\ WorkerStep)
  /\ WF_vars(part = "stream" /\ HandlerStarts)
  /\ \A t \in Callers : WF_vars(part = "stream" /\ Proceed(t))
  /\ SF_pollerVars(part = "poller" /\ E!Work(t1))
  /\ WF_pollerVars(part = "poller" /\ E!Work(t2))

\* serve_one says "ok" exactly when its handler's response was sent, and a poller lives as
\* long as values name it.
ServersSound ==
  /\ part = "listener" => L!TypeOK /\ L!ServedTruthfully
  /\ part = "poller" => E!PollersCounted

\* Ending(n) and Ended(n): what the nth promise of a component waits for, and its keeping.
\* The part never changes, and callers of serve_one are alike: one stands for all.
Ending(n) ==
  \/ n = 1 /\ part = "pool" /\ P!Ending
  \/ n = 1 /\ part = "listener" /\ x1 = "dropping"
  \/ n = 2 /\ part = "listener" /\ L!Serving(s1)
  \/ n = 1 /\ part = "stream" /\ Busy(u1)
  \/ n = 1 /\ part = "poller" /\ E!InCall(t1)
  \/ n = 2 /\ part = "stream" /\ Busy(Server)
Ended(n) ==
  \/ n = 1 /\ part = "pool" /\ P!Returned
  \/ n = 1 /\ part = "listener" /\ x1 = "dropped"
  \/ n = 2 /\ part = "listener" /\ ~L!Serving(s1)
  \/ n = 1 /\ part = "stream" /\ ~Busy(u1)
  \/ n = 1 /\ part = "poller" /\ (~E!InCall(t1) \/ E!WaitsOut(t1))
  \/ n = 2 /\ part = "stream" /\ ~Busy(Server)

\* A pool server that is cancelled or has served its maximum returns; a listener that is
\* dropped comes back from the drop and each serve_one returns; every call on a
\* stream returns; and a poll that waits forever stops nobody who uses another poller.
CallsEnd == \A n \in 1..2 : Ending(n) ~> Ended(n)
=============================================================================
