-------------------------------- MODULE Gates --------------------------------
(***************************************************************************)
(* The coordination objects of src/sync_primitives.rs other than channels  *)
(* and pools: semaphore, once, barrier, cancellation token and the two     *)
(* atomics.  Each lives in a registry of reference-counted entries; the    *)
(* program holds handles, which it copies and drops.                       *)
(*                                                                         *)
(* The model is one object, of any kind, and the threads that share it.    *)
(* A critical section of the object's mutex is one step; a thread that     *)
(* waits on the condition variable is asleep until it is notified, until   *)
(* its timeout passes or for no reason at all, and then awake: it has to   *)
(* take the mutex again before it looks at the state.                      *)
(***************************************************************************)
EXTENDS Integers, FiniteSets

CONSTANTS Sharers,
          Kinds,        \* kinds of object to look at
          MaxPermits,   \* a semaphore has 0..MaxPermits permits
          Size,         \* of the barrier
          Modulus,      \* an atomic integer holds 0 .. Modulus - 1 and wraps: 2^64 in the code
          MaxNames      \* bound on the number of handles

(* A program has finitely many threads. *)
ASSUME GateAssumption == IsFiniteSet(Sharers) /\ MaxPermits \in Nat /\ Modulus \in Nat \ {0}

VARIABLES kind,
          names,     \* the entry's count of names
          reg,       \* the entry is in the registry
          held,      \* held[t]: handles thread t owns
          doing,
          max, permits, asleep, awake,        \* semaphore (asleep, awake: once too)
          status, runs, passed,               \* once
          arrived,                            \* barrier
          token,
          value                               \* atomics

handleVars == <<names, reg, held>>
waitVars   == <<asleep, awake>>
onceVars   == <<status, runs, passed>>
gateVars == <<kind, handleVars, doing, max, permits, waitVars, onceVars, arrived, token, value>>

Becomes(t, l) == doing' = [doing EXCEPT ![t] = l]

GateInit ==
  /\ kind \in Kinds
  /\ names = 1 /\ reg = TRUE
  /\ held \in {[t \in Sharers |-> IF t = o THEN 1 ELSE 0] : o \in Sharers}
  /\ doing = [t \in Sharers |-> "idle"]
  /\ max \in IF kind = "semaphore" THEN 0..MaxPermits ELSE {0}
  /\ permits = max
  /\ asleep = {} /\ awake = {}
  /\ status = "pending" /\ runs = 0 /\ passed = {}
  /\ arrived = {}
  /\ token = FALSE
  /\ value = 0

-----------------------------------------------------------------------------
(* Handles. *)

(* copy_map finds the entry under the registry's lock and counts the new
   name after it has let go of the lock. *)
CopyFind(t) ==
  /\ doing[t] = "idle" /\ held[t] > 0 /\ names < MaxNames
  /\ IF reg THEN Becomes(t, "copy") ELSE UNCHANGED doing     \* else the copy is the null handle
  /\ UNCHANGED <<kind, handleVars, max, permits, waitVars, onceVars, arrived, token, value>>

CopyCount_uncounted(t) ==
  /\ doing[t] = "copy"
  /\ held' = [held EXCEPT ![t] = @ + 1]
  /\ Becomes(t, "idle")
  /\ UNCHANGED <<kind, names, reg, max, permits, waitVars, onceVars, arrived, token, value>>

CopyCount(t) ==
  /\ doing[t] = "copy"
  /\ names' = names + 1
  /\ held' = [held EXCEPT ![t] = @ + 1]
  /\ Becomes(t, "idle")
  /\ UNCHANGED <<kind, reg, max, permits, waitVars, onceVars, arrived, token, value>>

(* drop_counted: the last name takes the entry out of the registry. *)
DropGate(t) ==
  /\ doing[t] = "idle" /\ held[t] > 0
  /\ held' = [held EXCEPT ![t] = @ - 1]
  /\ names' = IF reg THEN names - 1 ELSE names
  /\ reg' = (reg /\ names > 1)
  /\ UNCHANGED <<kind, doing, max, permits, waitVars, onceVars, arrived, token, value>>

(* The program hands a handle to another thread. *)
Give(t, u) ==
  /\ doing[t] = "idle" /\ held[t] > 0 /\ t # u
  /\ held' = [held EXCEPT ![t] = @ - 1, ![u] = @ + 1]
  /\ UNCHANGED <<kind, names, reg, doing, max, permits, waitVars, onceVars, arrived, token, value>>

(* A call on a handle finds the entry and keeps it alive until it returns. *)
CallOn(t, k) == kind = k /\ doing[t] = "idle" /\ held[t] > 0 /\ reg

-----------------------------------------------------------------------------
(* Semaphore. *)

(* Under the mutex: take a permit or wait for one. *)
TakeOrSleep(t, l) ==
  \/ /\ permits > 0
     /\ permits' = permits - 1
     /\ awake' = awake \ {t}
     /\ Becomes(t, "idle")
     /\ UNCHANGED asleep
  \/ /\ permits = 0
     /\ asleep' = asleep \cup {t} /\ awake' = awake \ {t}
     /\ Becomes(t, l)
     /\ UNCHANGED permits

SemRest == UNCHANGED <<kind, handleVars, max, onceVars, arrived, token, value>>

Acquire(t) ==
  /\ \/ CallOn(t, "semaphore")
     \/ doing[t] = "acquire" /\ t \in awake
  /\ TakeOrSleep(t, "acquire")
  /\ SemRest

AcquireTimeout(t) ==
  /\ \/ CallOn(t, "semaphore")
     \/ doing[t] = "timed" /\ t \in awake
  /\ TakeOrSleep(t, "timed")
  /\ SemRest

(* The wait gives up: a waiter whose time has passed. *)
Expire(t) ==
  /\ doing[t] = "timed" /\ t \in asleep
  /\ asleep' = asleep \ {t} /\ awake' = awake \cup {t}
  /\ Becomes(t, "expired")
  /\ UNCHANGED permits /\ SemRest

(* Variant: the waiter trusts the timeout and does not look again. *)
Expired_trusts(t) ==
  /\ \/ doing[t] = "expired"
     \/ doing[t] = "timed" /\ t \in awake
  /\ awake' = awake \ {t}
  /\ Becomes(t, "idle")
  /\ UNCHANGED <<permits, asleep>> /\ SemRest

(* wait_timeout_while looks at the state once more before it reports that
   the time has passed. *)
Expired(t) ==
  /\ \/ doing[t] = "expired"
     \/ doing[t] = "timed" /\ t \in awake /\ permits = 0     \* notified, but late
  /\ permits' = IF permits = 0 THEN 0 ELSE permits - 1
  /\ awake' = awake \ {t}
  /\ Becomes(t, "idle")
  /\ UNCHANGED asleep /\ SemRest

TryAcquire(t) ==
  /\ CallOn(t, "semaphore")
  /\ permits > 0
  /\ permits' = permits - 1
  /\ UNCHANGED <<doing, waitVars>> /\ SemRest

NotifyOne ==
  \/ /\ asleep = {}
     /\ UNCHANGED waitVars
  \/ \E w \in asleep : asleep' = asleep \ {w} /\ awake' = awake \cup {w}

(* A release beyond the initial permits is refused. *)
Release(t) ==
  /\ CallOn(t, "semaphore")
  /\ permits # max
  /\ permits' = permits + 1
  /\ NotifyOne
  /\ UNCHANGED doing /\ SemRest

(* Condition variables may wake for no reason. *)
SpuriousWakeup(t) ==
  /\ t \in asleep
  /\ asleep' = asleep \ {t} /\ awake' = awake \cup {t}
  /\ UNCHANGED <<doing, permits>> /\ SemRest

-----------------------------------------------------------------------------
(* Once. *)

OnceRest == UNCHANGED <<kind, handleVars, max, permits, arrived, token, value>>

(* The loop of mux_once_call, from the call or from a wakeup. *)
OnceEnter(t) ==
  /\ \/ CallOn(t, "once")
     \/ doing[t] = "once" /\ t \in awake
  /\ \/ /\ status = "complete"
        /\ passed' = passed \cup {t}
        /\ awake' = awake \ {t} /\ Becomes(t, "idle")
        /\ UNCHANGED <<status, asleep>>
     \/ /\ status = "pending"
        /\ status' = "running"
        /\ awake' = awake \ {t} /\ Becomes(t, "callback")
        /\ UNCHANGED <<passed, asleep>>
     \/ /\ status = "running"
        /\ asleep' = asleep \cup {t} /\ awake' = awake \ {t}
        /\ Becomes(t, "once")
        /\ UNCHANGED <<status, passed>>
  /\ UNCHANGED runs /\ OnceRest

(* Variant: a failed callback leaves without waking the others. *)
OnceLeave_silent(t) ==
  /\ doing[t] = "callback"
  /\ \/ /\ status' = "complete" /\ runs' = runs + 1
        /\ passed' = passed \cup {t}
        /\ awake' = awake \cup asleep /\ asleep' = {}
     \/ /\ status' = "pending"
        /\ UNCHANGED <<runs, passed, waitVars>>
  /\ Becomes(t, "idle")
  /\ OnceRest

(* The callback ran without the mutex; it fails when there is no function. *)
OnceLeave(t) ==
  /\ doing[t] = "callback"
  /\ \/ /\ status' = "complete" /\ runs' = runs + 1
        /\ passed' = passed \cup {t}
     \/ /\ status' = "pending"
        /\ UNCHANGED <<runs, passed>>
  /\ awake' = awake \cup asleep /\ asleep' = {}
  /\ Becomes(t, "idle")
  /\ OnceRest

-----------------------------------------------------------------------------
(* Barrier, cancellation token and atomics. *)

(* std's barrier: the thread that completes the group leads and all leave. *)
BarrierWait(t) ==
  /\ CallOn(t, "barrier")
  /\ IF Cardinality(arrived) + 1 = Size
     THEN /\ arrived' = {}
          /\ doing' = [u \in Sharers |-> IF u \in arrived THEN "idle" ELSE doing[u]]
     ELSE /\ arrived' = arrived \cup {t}
          /\ Becomes(t, "barrier")
  /\ UNCHANGED <<kind, handleVars, max, permits, waitVars, onceVars, token, value>>

CancelToken(t) ==
  /\ CallOn(t, "cancellation")
  /\ token' = TRUE
  /\ UNCHANGED <<kind, handleVars, doing, max, permits, waitVars, onceVars, arrived, value>>

AtomRest == UNCHANGED <<kind, handleVars, doing, max, permits, waitVars, onceVars, arrived, token>>

(* fetch_add wraps. *)
FetchAdd(t, d) ==
  /\ CallOn(t, "atomic")
  /\ value' = (value + d) % Modulus
  /\ AtomRest

(* store and swap differ in what they return. *)
Store(t, v) ==
  /\ CallOn(t, "atomic")
  /\ value' = v
  /\ AtomRest

CompareExchange(t, expected, v) ==
  /\ CallOn(t, "atomic")
  /\ value' = IF value = expected THEN v ELSE value
  /\ AtomRest

-----------------------------------------------------------------------------
HandleStep(t) == CopyFind(t) \/ CopyCount(t) \/ DropGate(t) \/ \E u \in Sharers : Give(t, u)
SemStep(t)    == Acquire(t) \/ AcquireTimeout(t) \/ Expire(t) \/ Expired(t) \/ TryAcquire(t) \/ Release(t)
OnceStep(t)   == OnceEnter(t) \/ OnceLeave(t)
AtomStep(t)   == \/ FetchAdd(t, 1)
                 \/ \E v \in 0 .. Modulus - 1 : Store(t, v) \/ \E e \in 0 .. Modulus - 1 : CompareExchange(t, e, v)

GateNext ==
  \E t \in Sharers :
     \/ HandleStep(t) \/ SemStep(t) \/ OnceStep(t) \/ AtomStep(t)
     \/ BarrierWait(t) \/ CancelToken(t) \/ SpuriousWakeup(t)

GateSpec == GateInit /\ [][GateNext]_gateVars

(* A thread inside a call goes on: it is scheduled, the callback of a once
   returns, a notified waiter gets the mutex. *)
InCall(t) ==
  /\ doing[t] \in {"copy", "acquire", "timed", "expired", "once", "callback"}
  /\ CopyCount(t) \/ Acquire(t) \/ AcquireTimeout(t) \/ Expired(t) \/ OnceStep(t)

-----------------------------------------------------------------------------
GateTypeOK ==
  /\ kind \in Kinds /\ names \in Nat /\ reg \in BOOLEAN
  /\ held \in [Sharers -> Nat]
  /\ doing \in [Sharers -> {"idle", "copy", "acquire", "timed", "expired", "once", "callback", "barrier"}]
  /\ max \in 0..MaxPermits /\ permits \in 0..max
  /\ asleep \subseteq Sharers /\ awake \subseteq Sharers /\ asleep \cap awake = {}
  /\ status \in {"pending", "running", "complete"} /\ runs \in Nat /\ passed \subseteq Sharers
  /\ arrived \subseteq Sharers /\ token \in BOOLEAN
  /\ value \in 0 .. Modulus - 1

(* Every handle the program owns finds the entry, however copies, drops and
   moves between threads interleave, and the entry goes with the last one. *)
HandlesFindEntry ==
  reg <=> \E t \in Sharers : held[t] > 0

(* No wakeup of a semaphore is lost: while someone sleeps, each free permit
   is already promised to a thread that is on its way to take it.  The
   notification of mux_semaphore_release may go to a waiter whose timeout
   has just passed; it must not be wasted there. *)
NoPermitIdle ==
  kind = "semaphore" /\ asleep # {} => permits <= Cardinality(awake)

(* mux_once_call: one callback at a time and one success at most, callers
   return success only after it, and none sleeps unless a callback runs. *)
OnceSound ==
  kind = "once" =>
    /\ (status = "running") <=> (\E t \in Sharers : doing[t] = "callback")
    /\ \A t, u \in Sharers : doing[t] = "callback" /\ doing[u] = "callback" => t = u
    /\ runs = IF status = "complete" THEN 1 ELSE 0
    /\ passed # {} => status = "complete"
    /\ asleep # {} => status = "running"

(* Copies of handles are counted, no permit is free while its waiters sleep,
   and a once cell runs one callback at a time and succeeds once. *)
GatesSound == GateTypeOK /\ HandlesFindEntry /\ NoPermitIdle /\ OnceSound

(* Once a callback has succeeded, every call that waits for it returns. *)
OnceDecided(t) == doing[t] = "once" /\ status = "complete"
=============================================================================
