------------------------------- MODULE MCSync -------------------------------
(***************************************************************************)
(* What threads of a program share: channels, thread handles, semaphores,  *)
(* barriers and once cells, locks, counted values, and the ordered map the *)
(* collections are made of.  Init picks the component and only that one    *)
(* moves; x1, x2, ... are its variables.                                   *)
(***************************************************************************)
EXTENDS Channel, Threads, Gates, NativeLocks, OrderedMap

CONSTANTS t1, t2, t3, c1, c2
VARIABLES part, x1, x2, x3, x4, x5, x6, x7, x8, x9, x10, x11, x12, x13, x14, x15, x16, x17

\* "a" and "b" have the same hash.
MCHash == [k \in {"a", "b", "c"} |-> IF k = "c" THEN 1 ELSE 0]

R == INSTANCE Channel
  WITH Threads <- {t1, t2, t3}, ChanCount <- 1, Unbounded <- {},
       Calls <- {"send", "send_timeout", "send_cancelled", "recv", "recv_cancelled", "close", "cancel"},
       buf <- x1, open <- x2, closed <- x3, rlock <- x4, cancelled <- x5, pc <- x6, call <- x7,
       chan <- x8, msg <- x9, pos <- x10, live <- x11, calls <- x12, result <- x13, got <- x14,
       late <- x15, ended <- x16, ready <- x17
ReceiversInit ==
  /\ part = "receivers" /\ R!Init /\ Init
  /\ ThreadInit /\ inner[t1] = NoOne /\ inner[t2] = NoOne
  /\ GateInit /\ kind = "once" /\ held[t1] = 1 /\ LockInit /\ lock_kind = "mutex" /\ MapInit
ReceiversNext ==
  /\ part = "receivers" /\ R!Next
  /\ UNCHANGED <<part, vars, threadVars, gateVars, lockVars, mapVars>>

M == INSTANCE Memory
  WITH Threads <- {t1, t2}, Slots <- 1..4, Types <- {"copy", "shared"}, MaxCalls <- 6,
       heap <- x1, owned <- x2, work <- x3, calls <- x4
MemoryInit ==
  /\ part = "memory" /\ M!Init /\ Init /\ ThreadInit /\ inner[t1] = NoOne /\ inner[t2] = NoOne
  /\ GateInit /\ kind = "once" /\ held[t1] = 1 /\ LockInit /\ lock_kind = "mutex" /\ MapInit
  /\ x5 = 0 /\ x6 = 0 /\ x7 = 0 /\ x8 = 0 /\ x9 = 0 /\ x10 = 0 /\ x11 = 0 /\ x12 = 0 /\ x13 = 0
  /\ x14 = 0 /\ x15 = 0 /\ x16 = 0 /\ x17 = 0
MemoryNext ==
  /\ part = "memory" /\ M!Next
  /\ UNCHANGED <<part, vars, threadVars, gateVars, lockVars, mapVars, x5, x6, x7, x8, x9, x10,
                x11, x12, x13, x14, x15, x16, x17>>

ChannelsInit ==
  /\ part = "channels" /\ Init /\ ThreadInit /\ inner[t1] = NoOne /\ inner[t2] = NoOne
  /\ GateInit /\ kind = "once" /\ held[t1] = 1 /\ LockInit /\ lock_kind = "mutex" /\ MapInit
  /\ x1 = 0 /\ x2 = 0 /\ x3 = 0 /\ x4 = 0 /\ x5 = 0 /\ x6 = 0 /\ x7 = 0 /\ x8 = 0 /\ x9 = 0
  /\ x10 = 0 /\ x11 = 0 /\ x12 = 0 /\ x13 = 0 /\ x14 = 0 /\ x15 = 0 /\ x16 = 0 /\ x17 = 0
ChannelsNext ==
  /\ part = "channels" /\ Next
  /\ UNCHANGED <<part, threadVars, gateVars, lockVars, mapVars, x1, x2, x3, x4, x5, x6, x7, x8,
                x9, x10, x11, x12, x13, x14, x15, x16, x17>>

ThreadsInit ==
  /\ part = "threads" /\ ThreadInit /\ Init /\ GateInit /\ kind = "once" /\ held[t1] = 1
  /\ LockInit /\ lock_kind = "mutex" /\ MapInit /\ x1 = 0 /\ x2 = 0 /\ x3 = 0 /\ x4 = 0
  /\ x5 = 0 /\ x6 = 0 /\ x7 = 0 /\ x8 = 0 /\ x9 = 0 /\ x10 = 0 /\ x11 = 0 /\ x12 = 0 /\ x13 = 0
  /\ x14 = 0 /\ x15 = 0 /\ x16 = 0 /\ x17 = 0
ThreadsNext ==
  /\ part = "threads" /\ ThreadNext
  /\ UNCHANGED <<part, vars, gateVars, lockVars, mapVars, x1, x2, x3, x4, x5, x6, x7, x8, x9,
                x10, x11, x12, x13, x14, x15, x16, x17>>

GatesInit ==
  /\ part = "gates" /\ GateInit /\ Init /\ ThreadInit /\ inner[t1] = NoOne /\ inner[t2] = NoOne
  /\ LockInit /\ lock_kind = "mutex" /\ MapInit /\ x1 = 0 /\ x2 = 0 /\ x3 = 0 /\ x4 = 0
  /\ x5 = 0 /\ x6 = 0 /\ x7 = 0 /\ x8 = 0 /\ x9 = 0 /\ x10 = 0 /\ x11 = 0 /\ x12 = 0 /\ x13 = 0
  /\ x14 = 0 /\ x15 = 0 /\ x16 = 0 /\ x17 = 0
GatesNext ==
  /\ part = "gates" /\ GateNext
  /\ UNCHANGED <<part, vars, threadVars, lockVars, mapVars, x1, x2, x3, x4, x5, x6, x7, x8, x9,
                x10, x11, x12, x13, x14, x15, x16, x17>>

LocksInit ==
  /\ part = "locks" /\ LockInit /\ Init /\ ThreadInit /\ inner[t1] = NoOne /\ inner[t2] = NoOne
  /\ GateInit /\ kind = "once" /\ held[t1] = 1 /\ MapInit /\ x1 = 0 /\ x2 = 0 /\ x3 = 0
  /\ x4 = 0 /\ x5 = 0 /\ x6 = 0 /\ x7 = 0 /\ x8 = 0 /\ x9 = 0 /\ x10 = 0 /\ x11 = 0 /\ x12 = 0
  /\ x13 = 0 /\ x14 = 0 /\ x15 = 0 /\ x16 = 0 /\ x17 = 0
LocksNext ==
  /\ part = "locks" /\ LockNext
  /\ UNCHANGED <<part, vars, threadVars, gateVars, mapVars, x1, x2, x3, x4, x5, x6, x7, x8, x9,
                x10, x11, x12, x13, x14, x15, x16, x17>>

CollectionsInit ==
  /\ part = "collections" /\ MapInit /\ Init
  /\ ThreadInit /\ inner[t1] = NoOne /\ inner[t2] = NoOne
  /\ GateInit /\ kind = "once" /\ held[t1] = 1 /\ LockInit /\ lock_kind = "mutex" /\ x1 = 0
  /\ x2 = 0 /\ x3 = 0 /\ x4 = 0 /\ x5 = 0 /\ x6 = 0 /\ x7 = 0 /\ x8 = 0 /\ x9 = 0 /\ x10 = 0
  /\ x11 = 0 /\ x12 = 0 /\ x13 = 0 /\ x14 = 0 /\ x15 = 0 /\ x16 = 0 /\ x17 = 0
CollectionsNext ==
  /\ part = "collections" /\ MapNext
  /\ UNCHANGED <<part, vars, threadVars, gateVars, lockVars, x1, x2, x3, x4, x5, x6, x7, x8,
                x9, x10, x11, x12, x13, x14, x15, x16, x17>>

SuiteInit == ChannelsInit \/ ThreadsInit \/ GatesInit \/ LocksInit \/ CollectionsInit
  \/ ReceiversInit \/ MemoryInit
SuiteNext == ChannelsNext \/ ThreadsNext \/ GatesNext \/ LocksNext \/ CollectionsNext
  \/ ReceiversNext \/ MemoryNext
suiteVars == <<part, vars, threadVars, gateVars, lockVars, mapVars, x1, x2, x3, x4, x5, x6, x7,
               x8, x9, x10, x11, x12, x13, x14, x15, x16, x17>>

channelVars == R!vars
SuiteSpec ==
  /\ SuiteInit /\ [][SuiteNext]_suiteVars
  /\ \A t \in {t1, t2, t3} : WF_channelVars(part = "receivers" /\ R!Step(t))
  /\ \A i \in {t1, t2} : WF_threadVars(part = "threads" /\ Body(i))
  /\ \A w \in {c1, c2, t1, t2} : WF_threadVars(part = "threads" /\ Continue(w))
  /\ \A t \in {t1, t2, t3} : WF_gateVars(part = "gates" /\ InCall(t))

\* Reference counts are exact.
CountsExact == part = "memory" => M!CountsExact

\* What a call waits for and how it ends, for a thread that stands for all of its kind.
\* The part never changes.
Waiting ==
  \/ part = "receivers" /\ R!Outlived(t1)
  \/ part = "threads" /\ ~Idle(c1)
  \/ part = "gates" /\ OnceDecided(t1)
Back ==
  \/ part = "receivers" /\ R!Returned(t1)
  \/ part = "threads" /\ (Idle(c1) \/ Stuck)
  \/ part = "gates" /\ ~OnceDecided(t1)

\* Calls return: a receive from a channel that is closed, a join, detach or drop of a
\* thread handle (unless a detach waits for itself), and a call of a once cell that
\* another caller has completed.
CallsReturn == Waiting ~> Back
=============================================================================
