----------------------------- MODULE NativeLocks -----------------------------
(***************************************************************************)
(* Mutex, RwLock and CondVar of src/sync.rs: handles over native           *)
(* primitives.  A registry entry owns the primitive; the registry, every   *)
(* operation in progress and every lock that is held keep the entry, and    *)
(* the last of them to let go destroys the primitive.  What a thread holds *)
(* is kept in a stack of its own, which is unwound when the thread ends.   *)
(*                                                                         *)
(* The model is one primitive, a mutex with a condition variable or a      *)
(* read-write lock, and the threads that share its handle.                 *)
(***************************************************************************)
EXTENDS Naturals, Sequences, FiniteSets

CONSTANTS Lockers, LockKinds, NoThread,
          MaxDepth        \* locks of one thread at a time

(* A program has at least one thread, and finitely many. *)
ASSUME LockAssumption ==
  IsFiniteSet(Lockers) /\ Lockers # {} /\ NoThread \notin Lockers /\ MaxDepth \in Nat

VARIABLES lock_kind,
          has,        \* threads that own a reference to the handle
          stack,      \* stack[t]: HELD_MUTEXES or HELD_RWLOCKS of thread t, a stack of modes
          holds,      \* active_holds
          stage, mode,  \* where a thread is, and the mode it wants
          scope,      \* threads inside the callback of with_lock, with_read or with_write
          writer, readers, waiting,   \* the native primitive
          alive       \* it has not been destroyed

native == <<writer, readers>>
lockVars == <<lock_kind, has, stack, holds, stage, mode, scope, native, waiting, alive>>

Modes == {"r", "w"}

LockInit ==
  /\ lock_kind \in LockKinds
  /\ has = Lockers
  /\ stack = [t \in Lockers |-> <<>>]
  /\ holds = 0
  /\ stage = [t \in Lockers |-> "run"]
  /\ mode = [t \in Lockers |-> "w"]
  /\ scope = {}
  /\ writer = NoThread /\ readers = [t \in Lockers |-> 0] /\ waiting = {}
  /\ alive = TRUE

GoOn(t, l) == stage' = [stage EXCEPT ![t] = l]

(* The entry is kept by the registry as long as the handle has references,
   by operations in progress, and by what the threads hold. *)
Kept(h, s, hd, p) ==
  \/ h # {} \/ s # {}
  \/ \E t \in Lockers : hd[t] # <<>> \/ p[t] \in {"lock", "wait", "woken"}

Settle_eager == alive' = (alive /\ has' # {})

(* Destroy the primitive with its last owner, unless it is still locked. *)
Settle == alive' = (alive /\ (Kept(has', scope', stack', stage') \/ holds' # 0))

-----------------------------------------------------------------------------
(* The native primitive, as pthreads documents it. *)

FreeFor(t, m) ==
  /\ writer = NoThread
  /\ m = "w" => \A u \in Lockers : readers[u] = 0

(* pthread_rwlock reports a thread that would wait for its own write lock. *)
WouldWaitForItself(t) == lock_kind = "rwlock" /\ writer = t

Grab(t, m) ==
  /\ writer' = IF m = "w" THEN t ELSE writer
  /\ readers' = IF m = "r" THEN [readers EXCEPT ![t] = @ + 1] ELSE readers

LetGo(t) ==
  IF writer = t
  THEN writer' = NoThread /\ UNCHANGED readers
  ELSE readers' = [readers EXCEPT ![t] = @ - 1] /\ UNCHANGED writer

-----------------------------------------------------------------------------
(* Handles. *)

Running(t) == stage[t] = "run"

DropLock(t) ==
  /\ Running(t) /\ t \in has /\ t \notin scope
  /\ has' = has \ {t}
  /\ UNCHANGED <<lock_kind, stack, holds, stage, mode, scope, native, waiting>>
  /\ Settle

(* The first half of every lock call: look the entry up and go into the
   backend; with a callback, the entry is also kept until that returns. *)
LockCall(t, m, withCallback) ==
  /\ Running(t) /\ t \in has /\ Len(stack[t]) < MaxDepth
  /\ ~ WouldWaitForItself(t)
  /\ mode' = [mode EXCEPT ![t] = m]
  /\ scope' = IF withCallback THEN scope \cup {t} ELSE scope
  /\ withCallback => t \notin scope
  /\ GoOn(t, "lock")
  /\ UNCHANGED <<lock_kind, has, stack, holds, native, waiting>>
  /\ Settle

(* A mutex that this thread holds is refused. *)
MutexLock(t)     == lock_kind = "mutex" /\ stack[t] = <<>> /\ LockCall(t, "w", FALSE)
MutexWithLock(t) == lock_kind = "mutex" /\ stack[t] = <<>> /\ LockCall(t, "w", TRUE)

ReadLock(t)  == lock_kind = "rwlock" /\ LockCall(t, "r", FALSE)
WriteLock(t) == lock_kind = "rwlock" /\ LockCall(t, "w", FALSE)
WithRead(t)  == lock_kind = "rwlock" /\ LockCall(t, "r", TRUE)
WithWrite(t) == lock_kind = "rwlock" /\ LockCall(t, "w", TRUE)

Locked_unpinned(t) ==
  /\ stage[t] = "lock" /\ FreeFor(t, mode[t])
  /\ Grab(t, mode[t])
  /\ GoOn(t, "run")
  /\ UNCHANGED <<lock_kind, has, stack, holds, mode, scope, waiting>>
  /\ Settle

(* The backend grants the lock; the hold is counted and pinned. *)
Locked(t) ==
  /\ stage[t] = "lock" /\ FreeFor(t, mode[t])
  /\ Grab(t, mode[t])
  /\ holds' = holds + 1
  /\ stack' = [stack EXCEPT ![t] = Append(@, mode[t])]
  /\ GoOn(t, "run")
  /\ UNCHANGED <<lock_kind, has, mode, scope, waiting>>
  /\ Settle

(* unlock: refused unless this thread's stack has a hold. *)
PopHold(t) ==
  /\ stack[t] # <<>>
  /\ LetGo(t)
  /\ holds' = holds - 1
  /\ stack' = [stack EXCEPT ![t] = SubSeq(@, 1, Len(@) - 1)]

Unlock(t) ==
  /\ Running(t) /\ t \in has
  /\ PopHold(t)
  /\ UNCHANGED <<lock_kind, has, stage, mode, scope, waiting>>
  /\ Settle

MutexUnlock(t)  == lock_kind = "mutex" /\ Unlock(t)
RwLockUnlock(t) == lock_kind = "rwlock" /\ Unlock(t)

(* The callback returns; the unlock that follows finds nothing if the
   callback unlocked by itself. *)
CallbackReturns(t) ==
  /\ Running(t) /\ t \in scope
  /\ scope' = scope \ {t}
  /\ \/ PopHold(t)
     \/ stack[t] = <<>> /\ UNCHANGED <<stack, holds, native>>
  /\ UNCHANGED <<lock_kind, has, stage, mode, waiting>>
  /\ Settle

-----------------------------------------------------------------------------
(* Condition variable.  The wait gives the native mutex up and takes it back;
   the hold stays in the thread's stack meanwhile. *)

GoToSleep(t) ==
  /\ writer' = NoThread
  /\ waiting' = waiting \cup {t}
  /\ GoOn(t, "wait")
  /\ UNCHANGED <<lock_kind, has, stack, holds, mode, scope, readers>>
  /\ Settle

Wait(t)        == Running(t) /\ t \in has /\ lock_kind = "mutex" /\ stack[t] # <<>> /\ GoToSleep(t)
WaitTimeout(t) == Running(t) /\ t \in has /\ lock_kind = "mutex" /\ stack[t] # <<>> /\ GoToSleep(t)

(* Signalled, all woken, or out of time; a wait without a time limit may also
   return for no reason, which looks the same. *)
Wake(ts) ==
  /\ waiting' = waiting \ ts
  /\ stage' = [u \in Lockers |-> IF u \in ts THEN "woken" ELSE stage[u]]
  /\ UNCHANGED <<lock_kind, has, stack, holds, mode, scope, native>>
  /\ Settle

Signal(t)    == Running(t) /\ t \in has /\ \E u \in waiting : Wake({u})
Broadcast(t) == Running(t) /\ t \in has /\ waiting # {} /\ Wake(waiting)
TimeOut(t)   == t \in waiting /\ Wake({t})

Reacquire(t) ==
  /\ stage[t] = "woken" /\ FreeFor(t, "w")
  /\ Grab(t, "w")
  /\ GoOn(t, "run")
  /\ UNCHANGED <<lock_kind, has, stack, holds, mode, scope, waiting>>
  /\ Settle

-----------------------------------------------------------------------------
(* The thread ends: its references go, then its stack of holds, each of
   which is unlocked first (HeldMutex::drop, HeldRwLock::drop). *)
ThreadExit(t) ==
  /\ Running(t) /\ t \notin scope
  /\ has' = has \ {t}
  /\ stack' = [stack EXCEPT ![t] = <<>>]
  /\ holds' = holds - Len(stack[t])
  /\ writer' = IF writer = t THEN NoThread ELSE writer
  /\ readers' = [readers EXCEPT ![t] = 0]
  /\ GoOn(t, "exited")
  /\ UNCHANGED <<lock_kind, mode, scope, waiting>>
  /\ Settle

LockNext ==
  \E t \in Lockers :
     \/ MutexLock(t) \/ MutexWithLock(t) \/ MutexUnlock(t)
     \/ ReadLock(t) \/ WriteLock(t) \/ WithRead(t) \/ WithWrite(t) \/ RwLockUnlock(t)
     \/ Locked(t) \/ CallbackReturns(t) \/ DropLock(t) \/ ThreadExit(t)
     \/ Wait(t) \/ WaitTimeout(t) \/ TimeOut(t) \/ Reacquire(t)
     \/ Signal(t) \/ Broadcast(t)

LockSpec == LockInit /\ [][LockNext]_lockVars

-----------------------------------------------------------------------------
LockTypeOK ==
  /\ lock_kind \in LockKinds /\ has \subseteq Lockers /\ scope \subseteq Lockers /\ waiting \subseteq Lockers
  /\ stack \in [Lockers -> UNION {[1..n -> Modes] : n \in 0..MaxDepth}]
  /\ holds \in Nat /\ mode \in [Lockers -> Modes]
  /\ stage \in [Lockers -> {"run", "lock", "wait", "woken", "exited"}]
  /\ writer \in Lockers \cup {NoThread} /\ readers \in [Lockers -> 0..MaxDepth]
  /\ alive \in BOOLEAN

Count(t, m) == Cardinality({i \in DOMAIN stack[t] : stack[t][i] = m})

(* What a thread's stack says it holds is what the native primitive has
   granted it, in the right mode, through waits, nested reads, callbacks that
   unlock by themselves and threads that end while they hold the lock. *)
HeldMatchesNative ==
  /\ \A t \in Lockers :
        /\ readers[t] = Count(t, "r")
        /\ (writer = t) <=> (Count(t, "w") = 1 /\ stage[t] \notin {"wait", "woken"})
  /\ holds = Cardinality({p \in Lockers \X (1..MaxDepth) : p[2] \in DOMAIN stack[p[1]]})

(* The primitive is not destroyed while a thread holds it, waits for it or is
   in a call of it, and it does not outlive the last of them. *)
DestroyedWhenUnused ==
  alive <=> \/ has # {}
            \/ \E t \in Lockers : stack[t] # <<>> \/ stage[t] \in {"lock", "wait", "woken"} \/ writer = t

(* What a thread believes it holds is what the native lock grants it, and the
   lock is destroyed with its last user. *)
LocksSound == LockTypeOK /\ HeldMatchesNative /\ DestroyedWhenUnused
=============================================================================
