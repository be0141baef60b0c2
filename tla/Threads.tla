------------------------------- MODULE Threads --------------------------------
(***************************************************************************)
(* sync.spawn, join, detach and dropping a Thread handle.  A worker thread *)
(* shares the slot for its result with the entry of the THREADS registry;  *)
(* whoever lets go of the slot last releases a result nobody took.  A      *)
(* result may itself own the handle of another thread, so releasing one    *)
(* can come back to the registry.                                          *)
(***************************************************************************)
EXTENDS Naturals, Sequences, FiniteSets

CONSTANTS
  Callers,   \* program threads that use handles
  Ids,       \* threads that get spawned
  MaxOwned,  \* bound: names an owner may have of one handle
  NoOne

(* A thread that was spawned is not one of the program's first threads; a handle can be named. *)
ASSUME ThreadAssumption ==
  Callers \cap Ids = {} /\ NoOne \notin Callers \cup Ids /\ MaxOwned \in Nat \ {0}

VARIABLES
  inner,      \* the program: inner[i] is the thread whose handle i returns, or NoOne
  state,      \* what each worker thread does
  registered, \* the THREADS registry: its entry holds the JoinHandle and the slot
  lock,       \* who holds the mutex of the registry
  closure,    \* references to the closure that spawn retained
  slot,       \* ThreadResult.value
  owns,       \* owns[o][i]: names that owner o has of the handle of i
  todo,       \* what a program thread or a worker still has to do in its call
  taken       \* history: results that join handed out

threadVars == <<inner, state, registered, lock, closure, slot, owns, todo, taken>>

Actors == Callers \cup Ids
Owners == Actors  \* an id owns the names inside its result

(* Every variable has its type. *)
ThreadTypeOK ==
  /\ inner \in [Ids -> Ids \cup {NoOne}]
  /\ state \in [Ids -> {"new", "running", "stored", "exited", "failed"}]
  /\ registered \subseteq Ids
  /\ lock \in Actors \cup {NoOne}
  /\ closure \in [Ids -> 0..1]
  /\ slot \in [Ids -> {"empty", "full", "taken", "released"}]
  /\ owns \in [Owners -> [Ids -> 0..MaxOwned]]
  /\ \A a \in Actors : todo[a] \in Seq([op : {"destroy", "entry", "name", "unlock", "join", "take"},
                                       id : Ids])
  /\ taken \in [Ids -> 0..2]

-----------------------------------------------------------------------------
Idle(a) == todo[a] = <<>>
Doing(a, op) == todo[a] # <<>> /\ Head(todo[a]).op = op
TaskId(a) == Head(todo[a]).id
Task(op, i) == [op |-> op, id |-> i]
(* The head of a's tasks gives way to others. *)
Instead(a, tasks) == todo' = [todo EXCEPT ![a] = tasks \o Tail(@)]
BeginTasks(a, tasks) == todo' = [todo EXCEPT ![a] = tasks]

Named(i) == \E o \in Owners : owns[o][i] > 0

(* mux_sync_spawn by a program thread, or by a worker for its own result.    *)
(* The closure is retained; a thread that cannot be started releases it.     *)
Spawn(o, i) ==
  /\ state[i] = "new" /\ lock = NoOne
  /\ \/ /\ state' = [state EXCEPT ![i] = "running"]
        /\ closure' = [closure EXCEPT ![i] = 1]
        /\ registered' = registered \cup {i}
        /\ owns' = [owns EXCEPT ![o][i] = 1]
     \/ /\ state' = [state EXCEPT ![i] = "failed"]
        /\ UNCHANGED <<closure, registered, owns>>
  /\ UNCHANGED <<lock, slot, todo, taken>>

CallerSpawns(c, i) == Idle(c) /\ (\A j \in Ids : inner[j] # i) /\ Spawn(c, i)
WorkerSpawns(i) == state[i] = "running" /\ inner[i] # NoOne /\ Spawn(i, inner[i])

(* The body returns and its value goes into the slot. *)
StoreResult(i) ==
  /\ state[i] = "running"
  /\ inner[i] # NoOne => state[inner[i]] # "new"
  /\ state' = [state EXCEPT ![i] = "stored"]
  /\ slot' = [slot EXCEPT ![i] = "full"]
  /\ UNCHANGED <<registered, lock, closure, owns, todo, taken>>

(* The thread ends: the guard releases the closure, the slot is let go.      *)
Exit(i) ==
  /\ state[i] = "stored"
  /\ state' = [state EXCEPT ![i] = "exited"]
  /\ closure' = [closure EXCEPT ![i] = 0]
  /\ BeginTasks(i, <<Task("entry", i)>>)
  /\ UNCHANGED <<registered, lock, slot, owns, taken>>

(* A clone of the handle for another program thread *)
Share(c, d, i) ==
  /\ Idle(c) /\ c # d /\ owns[c][i] > 0 /\ owns[d][i] < MaxOwned
  /\ owns' = [owns EXCEPT ![d][i] = @ + 1]
  /\ UNCHANGED <<state, registered, lock, closure, slot, todo, taken>>

(* A name goes out of scope. *)
DropHandle(c, i) ==
  /\ Idle(c) /\ owns[c][i] > 0
  /\ owns' = [owns EXCEPT ![c][i] = @ - 1]
  /\ BeginTasks(c, <<Task("name", i)>>)
  /\ UNCHANGED <<state, registered, lock, closure, slot, taken>>

(* mux_thread_join: the entry is taken out, then the thread waited for.      *)
Join(c, i) ==
  /\ Idle(c) /\ owns[c][i] > 0 /\ lock = NoOne
  /\ IF i \in registered
     THEN registered' = registered \ {i} /\ BeginTasks(c, <<Task("join", i)>>)
     ELSE UNCHANGED <<registered, todo>>
  /\ UNCHANGED <<state, lock, closure, slot, owns, taken>>

Joined(c) ==
  /\ Doing(c, "join") /\ state[TaskId(c)] = "exited" /\ Idle(TaskId(c))
  /\ Instead(c, <<Task("take", TaskId(c))>>)
  /\ UNCHANGED <<state, registered, lock, closure, slot, owns, taken>>

(* Mutant: the value is read out and left in the slot. *)
TakeResult_leaves(c) ==
  /\ Doing(c, "take")
  /\ LET i == TaskId(c) IN
       /\ slot[i] = "full"
       /\ taken' = [taken EXCEPT ![i] = @ + 1]
       /\ Instead(c, <<Task("entry", i)>>)
  /\ UNCHANGED <<state, registered, lock, closure, slot, owns>>

(* The value moves to the caller; the slot goes empty handed. *)
TakeResult(c) ==
  /\ Doing(c, "take")
  /\ LET i == TaskId(c) IN
       /\ slot[i] = "full"
       /\ slot' = [slot EXCEPT ![i] = "taken"]
       /\ taken' = [taken EXCEPT ![i] = @ + 1]
       /\ owns' = [owns EXCEPT ![i] = [j \in Ids |-> 0],
                                 ![c] = [j \in Ids |-> owns[c][j] + owns[i][j]]]
       /\ Instead(c, <<Task("entry", i)>>)
  /\ UNCHANGED <<state, registered, lock, closure>>

(* mux_thread_detach: the entry is dropped while the registry is locked.     *)
Detach(c, i) ==
  /\ Idle(c) /\ owns[c][i] > 0 /\ lock = NoOne
  /\ IF i \in registered
     THEN /\ registered' = registered \ {i}
          /\ lock' = c
          /\ BeginTasks(c, <<Task("entry", i), Task("unlock", i)>>)
     ELSE UNCHANGED <<registered, lock, todo>>
  /\ UNCHANGED <<state, closure, slot, owns, taken>>

(* Mutant: the guard is forgotten. *)
UnlockRegistry_never(c) ==
  /\ Doing(c, "unlock")
  /\ Instead(c, <<>>)
  /\ UNCHANGED <<state, registered, lock, closure, slot, owns, taken>>

UnlockRegistry(c) ==
  /\ Doing(c, "unlock")
  /\ lock' = NoOne
  /\ Instead(c, <<>>)
  /\ UNCHANGED <<state, registered, closure, slot, owns, taken>>

(* Mutant: the object goes without its entry. *)
NameGone_keeps(a) ==
  /\ Doing(a, "name")
  /\ Instead(a, <<>>)
  /\ UNCHANGED <<state, registered, lock, closure, slot, owns, taken>>

(* destroy_thread_object, when the last name has gone *)
NameGone(a) ==
  /\ Doing(a, "name")
  /\ Instead(a, IF Named(TaskId(a)) THEN <<>> ELSE <<Task("destroy", TaskId(a))>>)
  /\ UNCHANGED <<state, registered, lock, closure, slot, owns, taken>>

Destroy(a) ==
  /\ Doing(a, "destroy") /\ lock = NoOne
  /\ registered' = registered \ {TaskId(a)}
  /\ Instead(a, IF TaskId(a) \in registered THEN <<Task("entry", TaskId(a))>> ELSE <<>>)
  /\ UNCHANGED <<state, lock, closure, slot, owns, taken>>

(* Who else can still reach the slot of i: the worker, the registry, a join  *)
(* under way, another thread that is about to drop an entry of it.           *)
Holders(i) ==
  (IF state[i] \in {"running", "stored"} THEN {<<"worker">>} ELSE {})
    \cup (IF i \in registered THEN {<<"registry">>} ELSE {})
    \cup {<<"call", a>> : a \in {b \in Actors : \E k \in 1..Len(todo[b]) :
            todo[b][k] \in {Task("join", i), Task("take", i), Task("entry", i)}}}

(* Mutant: only the worker's end releases what nobody took. *)
DropEntry_workerOnly(a) ==
  /\ Doing(a, "entry")
  /\ LET i == TaskId(a) IN
       IF Holders(i) = {<<"call", a>>} /\ slot[i] = "full" /\ a = i
       THEN /\ slot' = [slot EXCEPT ![i] = "released"]
            /\ owns' = [owns EXCEPT ![i] = [j \in Ids |-> 0]]
            /\ Instead(a, IF inner[i] # NoOne /\ owns[i][inner[i]] > 0
                          THEN <<Task("name", inner[i])>> ELSE <<>>)
       ELSE Instead(a, <<>>) /\ UNCHANGED <<slot, owns>>
  /\ UNCHANGED <<state, registered, lock, closure, taken>>

(* An Arc of the slot is dropped; the last one releases the value in it.     *)
DropEntry(a) ==
  /\ Doing(a, "entry")
  /\ LET i == TaskId(a) IN
       IF Holders(i) = {<<"call", a>>} /\ slot[i] = "full"
       THEN /\ slot' = [slot EXCEPT ![i] = "released"]
            /\ owns' = [owns EXCEPT ![i] = [j \in Ids |-> 0]]
            /\ Instead(a, IF inner[i] # NoOne /\ owns[i][inner[i]] > 0
                          THEN <<Task("name", inner[i])>> ELSE <<>>)
       ELSE Instead(a, <<>>) /\ UNCHANGED <<slot, owns>>
  /\ UNCHANGED <<state, registered, lock, closure, taken>>

-----------------------------------------------------------------------------
(* A thread returns a handle that it got by spawning: no thread returns that *)
(* of one it was spawned by, and no two the same.                            *)
Programs ==
  {f \in [Ids -> Ids \cup {NoOne}] :
     /\ \A i, j \in Ids : f[i] = f[j] /\ f[i] # NoOne => i = j
     /\ \A S \in SUBSET Ids : S # {} => \E i \in S : f[i] \notin S}

ThreadInit ==
  /\ inner \in Programs
  /\ state = [i \in Ids |-> "new"] /\ registered = {} /\ lock = NoOne
  /\ closure = [i \in Ids |-> 0] /\ slot = [i \in Ids |-> "empty"]
  /\ owns = [o \in Owners |-> [i \in Ids |-> 0]]
  /\ todo = [a \in Actors |-> <<>>] /\ taken = [i \in Ids |-> 0]

(* A call or an exit under way goes on. *)
Continue(a) ==
  /\ \/ NameGone(a) \/ Destroy(a) \/ DropEntry(a)
     \/ a \in Callers /\ (Joined(a) \/ TakeResult(a) \/ UnlockRegistry(a))
  /\ UNCHANGED inner

Body(i) == (WorkerSpawns(i) \/ StoreResult(i) \/ Exit(i)) /\ UNCHANGED inner

ThreadNext ==
  \/ /\ \E c \in Callers, i \in Ids :
          \/ CallerSpawns(c, i) \/ DropHandle(c, i) \/ Join(c, i) \/ Detach(c, i)
          \/ \E d \in Callers : Share(c, d, i)
     /\ UNCHANGED inner
  \/ \E i \in Ids : Body(i)
  \/ \E a \in Actors : Continue(a)

ThreadSpec == ThreadInit /\ [][ThreadNext]_threadVars

(* A thread that can go on in a call, or in its body, does. *)
ThreadFairSpec ==
  /\ ThreadSpec
  /\ \A i \in Ids : WF_threadVars(Body(i))
  /\ \A a \in Actors : WF_threadVars(Continue(a))

-----------------------------------------------------------------------------
(* A result leaves its slot once: join never hands out what was released or  *)
(* what another join got, and finds a result whenever the thread has ended.  *)
ResultOnce ==
  /\ \A i \in Ids : taken[i] <= 1 /\ (taken[i] = 1 <=> slot[i] = "taken")
  /\ \A c \in Callers : Doing(c, "take") => slot[TaskId(c)] = "full"

(* A result that nobody can reach any more has been released: no entry in    *)
(* the registry, no worker and no call holds a full slot, then it is not.    *)
NoResultLeft ==
  \A i \in Ids : state[i] = "exited" /\ Holders(i) = {} => slot[i] \in {"taken", "released"}

(* No JoinHandle is left behind: an entry is in the registry only while some *)
(* name of its handle lives, or the last one is just being dropped.          *)
EntryFollowsNames ==
  \A i \in registered :
    Named(i) \/ \E a \in Actors : \E k \in 1..Len(todo[a]) :
                   todo[a][k] \in {Task("name", i), Task("destroy", i)}

(* "If a thread is detached or its handle is dropped without joining, the    *)
(* slot remains responsible for releasing it": the result of a thread that   *)
(* has ended gets released, with all that it owns, and the call that drops   *)
(* the last reference to its slot comes to an end.                           *)
DetachedResultReleased ==
  \A c \in Callers : Doing(c, "entry") ~> Idle(c)

(* A detach that waits for the mutex it holds itself. *)
Stuck == lock # NoOne /\ Doing(lock, "destroy")

(* A thread's result is handed out once or released, and no entry outlives   *)
(* the names of its handle.                                                  *)
ThreadsSound == ThreadTypeOK /\ ResultOnce /\ NoResultLeft /\ EntryFollowsNames
=============================================================================
