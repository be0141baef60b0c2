--------------------------- MODULE WorkerPoolProofs ---------------------------
(***************************************************************************)
(* Proofs about the worker pool, for any number of workers, clients and    *)
(* tasks and any queue capacity.  The inductive invariant IInv says who    *)
(* holds the mutex, whose hands each task is in, why a submitter that read *)
(* the pool as open still has a worker when it pushes, and where every     *)
(* join handle is.                                                         *)
(***************************************************************************)
EXTENDS WorkerPool, TLAPS

(* A thread is inside a critical section exactly when it owns the mutex. *)
LockInv ==
  /\ \A w \in Workers : pc[w] \in {"scan", "sleep"} <=> qlock = w
  /\ \A c \in Clients : pc[c] \in {"scan", "room"} <=> qlock = c

(* Workers leave a pool only once it is closed, or it never came into being; *)
(* a submitter between its check of the flag and its push still has a worker *)
(* to serve it.                                                              *)
ExitInv ==
  /\ \A w \in Workers : pc[w] = "exited" =>
        closed \/ (names = {} /\ \A c \in Clients : pc[c] \in {"abort", "gone"})
  /\ \A c \in Clients : pc[c] = "room" => \E w \in Workers : pc[w] # "exited"
  /\ queue # <<>> => \E w \in Workers : pc[w] # "exited"

ExitFrame ==
  \/ \E w \in Workers : WorkerExit(w)
  \/ \A w \in Workers : pc'[w] = "exited" <=> pc[w] = "exited"

(* Every worker is gone, or its join handle is in the pool or in the hands  *)
(* of a closing client; the client that drops the last name takes what is   *)
(* left.                                                                    *)
JoinInv ==
  /\ \A w \in Workers : \/ pc[w] = "exited" \/ w \in handles
                        \/ \E c \in Clients : w \in joining[c]
  /\ \A c \in Clients : joining[c] # {} => pc[c] = "join"
  /\ \A c \in names : pc[c] # "gone"
  /\ names = {} /\ handles # {} =>
        \E c \in Clients : pc[c] \in {"abort", "store", "drain", "shut", "notify"}

(* The task in a thread's hands is in the place its control state says, and *)
(* in no other thread's hands.                                              *)
Running(w) == pc[w] \in {"run", "finish"}
Offering(c) == pc[c] \in {"offer", "scan", "room", "blocked", "expired"}
CurInv ==
  /\ \A w \in Workers : IF Running(w) THEN cur[w] \in Tasks /\ at[cur[w]] = "running"
                                      ELSE cur[w] = NoOne
  /\ \A c \in Clients : IF Offering(c) THEN cur[c] \in Tasks /\ at[cur[c]] = "offered"
                                       ELSE cur[c] = NoOne
  /\ \A s, t \in Threads : cur[s] = cur[t] /\ cur[s] # NoOne => s = t
  /\ \A t \in Tasks : at[t] = "running" => \E w \in Workers : cur[w] = t

(* Tasks taken out by a cancelling client are its own until released. *)
DrainInv ==
  /\ \A c \in Clients : pc[c] \notin {"release", "shut"} => drained[c] = {}
  /\ \A c \in Clients : \A t \in drained[c] : at[t] = "drained"
  /\ \A c, d \in Clients : c # d => drained[c] \cap drained[d] = {}

(* A client is given a result channel only with an accepted task. *)
OwnInv == \A t \in own : at[t] \notin {"new", "offered"}

(* `taken` tells refused tasks from answered ones. *)
TakenInv ==
  \A t \in Tasks : /\ at[t] \in {"new", "offered"} => t \notin taken
                   /\ at[t] \in {"queued", "running", "drained"} => t \in taken

TaskInv == CurInv /\ DrainInv /\ OwnInv /\ TakenInv /\ RefsBalanced /\ QueueExact

(* The steps that move a task, and what all others leave alone. *)
TaskStep ==
  \/ \E w \in Workers : WorkerPop(w) \/ WorkerFinish(w)
  \/ \E c \in Clients :
       \/ \E t \in Tasks, m \in Modes : Submit(c, t, m)
       \/ ClientFindsClosed(c) \/ FindsFull(c) \/ ExpiredGiveUp(c) \/ Push(c)
       \/ Drain(c) \/ \E t \in Tasks : ReleaseDrained(c, t)
  \/ \E t \in Tasks : DropResult(t)

TaskFrame ==
  /\ UNCHANGED <<queue, cur, at, taken, own, drained, refs, shut>>
  /\ \A w \in Workers : Running(w)' <=> Running(w)
  /\ \A c \in Clients : Offering(c)' <=> Offering(c)
  /\ \A c \in Clients : pc[c] \in {"release", "shut"} /\ drained[c] # {} =>
                           pc'[c] \in {"release", "shut"}
  /\ sent' = sent \/ \E w \in Workers : Running(w) /\ sent' = sent \cup {cur[w]}

-----------------------------------------------------------------------------
(* Every step keeps mutex ownership and control state in agreement, keeps a *)
(* worker alive for whoever may still push, accounts for every join handle,  *)
(* and lets workers leave through WorkerExit only.                           *)
LEMMA ThreadStep == TypeOK /\ LockInv /\ ExitInv /\ JoinInv /\ [Next]_vars => (LockInv' /\ ExitInv' /\ JoinInv' /\ ExitFrame)
<1> SUFFICES ASSUME TypeOK, LockInv, ExitInv, JoinInv, [Next]_vars PROVE (LockInv' /\ ExitInv' /\ JoinInv' /\ ExitFrame)
  BY Zenon
<1>a. /\ pc \in [Threads -> WorkerStates \cup ClientStates]
      /\ Workers \subseteq Threads /\ Clients \subseteq Threads
  BY Zenon DEF TypeOK, Threads
<1>b. /\ \A w \in Workers : w # NoOne /\ w \notin Clients
      /\ \A c \in Clients : c # NoOne
  BY PoolAssumption, Zenon
<1>c. /\ names \subseteq Clients /\ handles \subseteq Workers /\ Workers # {}
      /\ joining \in [Clients -> SUBSET Workers] /\ queue \in Seq(Tasks)
  BY PoolAssumption, Zenon DEF TypeOK
<1> USE <1>a, <1>b, <1>c
<1> USE DEF syncVars, taskVars, ownVars, LockInv, ExitInv, JoinInv, ExitFrame
<1>1. CASE \E w \in Workers : WorkerStep(w)
  <2> PICK w \in Workers : WorkerStep(w)
    BY <1>1, Zenon
  <2>1. CASE WorkerLock(w)
    BY <2>1 DEF WorkerLock, Lock, Goto
  <2>2. CASE WorkerPop(w)
    BY <2>2 DEF WorkerPop, Unlock, Goto, NotifyOne
  <2>3. CASE WorkerExit(w)
    BY <2>3, Zenon DEF WorkerExit, Unlock, Goto
  <2>4. CASE WorkerFindsOpen(w)
    BY <2>4 DEF WorkerFindsOpen, Goto
  <2>5. CASE WorkerSleep(w)
    BY <2>5 DEF WorkerSleep, Unlock, Goto
  <2>6. CASE WorkerCall(w)
    BY <2>6 DEF WorkerCall, Goto
  <2>7. CASE WorkerFinish(w)
    BY <2>7 DEF WorkerFinish, Dispose, WorkerRest, Goto
  <2> QED
    BY <2>1, <2>2, <2>3, <2>4, <2>5, <2>6, <2>7, Zenon DEF WorkerStep
<1>2. CASE \E c \in Clients : ClientCall(c)
  <2> PICK c \in Clients : ClientCall(c)
    BY <1>2, Zenon
  <2>1. CASE \E t \in Tasks, m \in Modes : Submit(c, t, m)
    BY <2>1 DEF Submit, Goto
  <2>2. CASE CancelPending(c)
    BY <2>2 DEF CancelPending, Goto
  <2>3. CASE Close(c)
    BY <2>3 DEF Close, Goto
  <2>4. CASE DropName(c)
    BY <2>4 DEF DropName, Goto
  <2> QED
    BY <2>1, <2>2, <2>3, <2>4, Zenon DEF ClientCall
<1>3. CASE \E c \in Clients : ClientStep(c)
  <2> PICK c \in Clients : ClientStep(c)
    BY <1>3, Zenon
  <2>1. CASE ClientLock(c)
    BY <2>1 DEF ClientLock, Lock, Goto
  <2>2. CASE ClientFindsClosed(c)
    BY <2>2 DEF ClientFindsClosed, ReleaseOffer, Unlock, Dispose, Goto
  <2>3. CASE ClientFindsOpen(c)
    BY <2>3 DEF ClientFindsOpen, Goto
  <2>4. CASE Push(c)
    BY <2>4, Zenon DEF Push, Enqueue, HasRoom, Unlock, Goto, NotifyOne
  <2>5. CASE FindsFull(c)
    BY <2>5 DEF FindsFull, HasRoom, ReleaseOffer, Unlock, Dispose, Goto
  <2>6. CASE Block(c)
    BY <2>6 DEF Block, StartWait, HasRoom, Unlock, Goto
  <2>7. CASE Expire(c)
    BY <2>7 DEF Expire, Goto
  <2>8. CASE ExpiredRetry(c)
    BY <2>8 DEF ExpiredRetry, HasRoom, Lock, Goto
  <2>9. CASE ExpiredGiveUp(c)
    BY <2>9 DEF ExpiredGiveUp, HasRoom, Dispose, Goto
  <2>10. CASE StoreClosed(c)
    BY <2>10 DEF StoreClosed, Goto
  <2>11. CASE Drain(c)
    BY <2>11 DEF Drain, Goto
  <2>12. CASE \E t \in Tasks : ReleaseDrained(c, t)
    BY <2>12 DEF ReleaseDrained, Dispose
  <2>13. CASE AllReleased(c)
    BY <2>13 DEF AllReleased, Goto
  <2>14. CASE NotifyAll(c)
    BY <2>14 DEF NotifyAll, TakeHandles, Goto
  <2>15. CASE Join(c)
    BY <2>15 DEF Join, EndClose, Goto
  <2> QED
    BY <2>1, <2>2, <2>3, <2>4, <2>5, <2>6, <2>7, <2>8, <2>9, <2>10, <2>11, <2>12, <2>13, <2>14, <2>15, Zenon DEF ClientStep
<1>4. CASE \E t \in Tasks : DropResult(t)
  BY <1>4 DEF DropResult
<1>5. CASE \E t \in Threads : SpuriousWakeup(t)
  BY <1>5 DEF SpuriousWakeup
<1>6. CASE UNCHANGED vars
  BY <1>6, Zenon DEF vars
<1> QED
  BY <1>1, <1>2, <1>3, <1>4, <1>5, <1>6, Zenon DEF Next

(* A step moves a task or leaves every task where it is. *)
LEMMA FrameStep == TypeOK /\ [Next]_vars => (TaskStep \/ TaskFrame)
<1> SUFFICES ASSUME TypeOK, [Next]_vars PROVE (TaskStep \/ TaskFrame)
  BY Zenon
<1>a. /\ pc \in [Threads -> WorkerStates \cup ClientStates]
      /\ Workers \subseteq Threads /\ Clients \subseteq Threads
  BY Zenon DEF TypeOK, Threads
<1>b. /\ \A w \in Workers : w # NoOne /\ w \notin Clients
      /\ \A c \in Clients : c # NoOne
  BY PoolAssumption, Zenon
<1> USE <1>a, <1>b
<1> USE DEF syncVars, taskVars, ownVars, TaskFrame, Offering, Running
<1>1. CASE \E w \in Workers : WorkerStep(w)
  <2> PICK w \in Workers : WorkerStep(w)
    BY <1>1, Zenon
  <2>1. CASE WorkerLock(w)
    BY <2>1, Zenon DEF WorkerLock, Lock, Goto
  <2>2. CASE WorkerPop(w)
    BY <2>2, Zenon DEF TaskStep
  <2>3. CASE WorkerExit(w)
    BY <2>3, Zenon DEF WorkerExit, Unlock, Goto
  <2>4. CASE WorkerFindsOpen(w)
    BY <2>4, Zenon DEF WorkerFindsOpen, Goto
  <2>5. CASE WorkerSleep(w)
    BY <2>5, Zenon DEF WorkerSleep, Unlock, Goto
  <2>6. CASE WorkerCall(w)
    BY <2>6, Zenon DEF WorkerCall, Goto
  <2>7. CASE WorkerFinish(w)
    BY <2>7, Zenon DEF TaskStep
  <2> QED
    BY <2>1, <2>2, <2>3, <2>4, <2>5, <2>6, <2>7, Zenon DEF WorkerStep
<1>2. CASE \E c \in Clients : ClientCall(c)
  <2> PICK c \in Clients : ClientCall(c)
    BY <1>2, Zenon
  <2>1. CASE \E t \in Tasks, m \in Modes : Submit(c, t, m)
    BY <2>1, Zenon DEF TaskStep
  <2>2. CASE CancelPending(c)
    BY <2>2, Zenon DEF CancelPending, Goto
  <2>3. CASE Close(c)
    BY <2>3, Zenon DEF Close, Goto
  <2>4. CASE DropName(c)
    BY <2>4, Zenon DEF DropName, Goto
  <2> QED
    BY <2>1, <2>2, <2>3, <2>4, Zenon DEF ClientCall
<1>3. CASE \E c \in Clients : ClientStep(c)
  <2> PICK c \in Clients : ClientStep(c)
    BY <1>3, Zenon
  <2>1. CASE ClientLock(c)
    BY <2>1, Zenon DEF ClientLock, Lock, Goto
  <2>2. CASE ClientFindsClosed(c)
    BY <2>2, Zenon DEF TaskStep
  <2>3. CASE ClientFindsOpen(c)
    BY <2>3, Zenon DEF ClientFindsOpen, Goto
  <2>4. CASE Push(c)
    BY <2>4, Zenon DEF TaskStep
  <2>5. CASE FindsFull(c)
    BY <2>5, Zenon DEF TaskStep
  <2>6. CASE Block(c)
    BY <2>6, Zenon DEF Block, StartWait, HasRoom, Unlock, Goto
  <2>7. CASE Expire(c)
    BY <2>7, Zenon DEF Expire, Goto
  <2>8. CASE ExpiredRetry(c)
    BY <2>8, Zenon DEF ExpiredRetry, HasRoom, Lock, Goto
  <2>9. CASE ExpiredGiveUp(c)
    BY <2>9, Zenon DEF TaskStep
  <2>10. CASE StoreClosed(c)
    BY <2>10, Zenon DEF StoreClosed, Goto
  <2>11. CASE Drain(c)
    BY <2>11, Zenon DEF TaskStep
  <2>12. CASE \E t \in Tasks : ReleaseDrained(c, t)
    BY <2>12, Zenon DEF TaskStep
  <2>13. CASE AllReleased(c)
    BY <2>13, Zenon DEF AllReleased, Goto
  <2>14. CASE NotifyAll(c)
    BY <2>14, Zenon DEF NotifyAll, TakeHandles, Goto
  <2>15. CASE Join(c)
    BY <2>15, Zenon DEF Join, EndClose, Goto
  <2> QED
    BY <2>1, <2>2, <2>3, <2>4, <2>5, <2>6, <2>7, <2>8, <2>9, <2>10, <2>11, <2>12, <2>13, <2>14, <2>15, Zenon DEF ClientStep
<1>4. CASE \E t \in Tasks : DropResult(t)
  BY <1>4, Zenon DEF TaskStep
<1>5. CASE \E t \in Threads : SpuriousWakeup(t)
  BY <1>5, Zenon DEF SpuriousWakeup
<1>6. CASE UNCHANGED vars
  BY <1>6, Zenon DEF vars
<1> QED
  BY <1>1, <1>2, <1>3, <1>4, <1>5, <1>6, Zenon DEF Next

(* Every step keeps the types. *)
LEMMA TypeStep == TypeOK /\ TaskInv /\ [Next]_vars => TypeOK'
<1> SUFFICES ASSUME TypeOK, TaskInv, [Next]_vars PROVE TypeOK'
  BY Zenon
<1>a. /\ pc \in [Threads -> WorkerStates \cup ClientStates]
      /\ Workers \subseteq Threads /\ Clients \subseteq Threads
  BY Zenon DEF TypeOK, Threads
<1>b. /\ \A w \in Workers : w # NoOne /\ w \notin Clients
      /\ \A c \in Clients : c # NoOne
  BY PoolAssumption, Zenon
<1>c. /\ Modes \subseteq AllModes
      /\ \A w \in Workers : Running(w) => cur[w] \in Tasks /\ at[cur[w]] = "running"
      /\ \A c \in Clients : Offering(c) => cur[c] \in Tasks /\ at[cur[c]] = "offered"
      /\ \A c \in Clients : \A t \in drained[c] : at[t] = "drained"
      /\ \A w \in Workers : pc[w] \in {"run", "finish"} => Running(w)
      /\ \A c \in Clients : pc[c] \in {"scan", "room", "expired"} => Offering(c)
      /\ queue # <<>> => Head(queue) \in Tasks /\ Tail(queue) \in Seq(Tasks)
  BY PoolAssumption DEF TypeOK, TaskInv, CurInv, DrainInv, Offering, Running
<1>d. \A t \in Tasks : /\ at[t] \in {"running", "drained"} => refs[t] - 1 \in Nat
                       /\ at[t] = "offered" => refs[t] - 2 \in Nat
                       /\ t \in own => refs[t] - 1 \in Nat
  BY DEF TypeOK, TaskInv, RefsBalanced, PoolShare, CallerShare
<1> USE <1>a, <1>b, <1>c, <1>d
<1> USE DEF syncVars, taskVars, ownVars, TypeOK, WorkerStates, ClientStates, Places
<1>1. CASE \E w \in Workers : WorkerStep(w)
  <2> PICK w \in Workers : WorkerStep(w)
    BY <1>1, Zenon
  <2>1. CASE WorkerLock(w)
    BY <2>1, SMTT(20) DEF WorkerLock, Lock, Goto
  <2>2. CASE WorkerPop(w)
    BY <2>2, SMTT(20) DEF WorkerPop, Unlock, Goto, NotifyOne
  <2>3. CASE WorkerExit(w)
    BY <2>3, SMTT(20) DEF WorkerExit, Unlock, Goto
  <2>4. CASE WorkerFindsOpen(w)
    BY <2>4, SMTT(20) DEF WorkerFindsOpen, Goto
  <2>5. CASE WorkerSleep(w)
    BY <2>5, SMTT(20) DEF WorkerSleep, Unlock, Goto
  <2>6. CASE WorkerCall(w)
    BY <2>6, SMTT(20) DEF WorkerCall, Goto
  <2>7. CASE WorkerFinish(w)
    BY <2>7, SMTT(20) DEF WorkerFinish, Dispose, WorkerRest, Goto
  <2> QED
    BY <2>1, <2>2, <2>3, <2>4, <2>5, <2>6, <2>7, Zenon DEF WorkerStep
<1>2. CASE \E c \in Clients : ClientCall(c)
  <2> PICK c \in Clients : ClientCall(c)
    BY <1>2, Zenon
  <2>1. CASE \E t \in Tasks, m \in Modes : Submit(c, t, m)
    BY <2>1, SMTT(20) DEF Submit, Goto
  <2>2. CASE CancelPending(c)
    BY <2>2, SMTT(20) DEF CancelPending, Goto
  <2>3. CASE Close(c)
    BY <2>3, SMTT(20) DEF Close, Goto
  <2>4. CASE DropName(c)
    BY <2>4, SMTT(20) DEF DropName, Goto
  <2> QED
    BY <2>1, <2>2, <2>3, <2>4, Zenon DEF ClientCall
<1>3. CASE \E c \in Clients : ClientStep(c)
  <2> PICK c \in Clients : ClientStep(c)
    BY <1>3, Zenon
  <2>1. CASE ClientLock(c)
    BY <2>1, SMTT(20) DEF ClientLock, Lock, Goto
  <2>2. CASE ClientFindsClosed(c)
    BY <2>2, SMTT(20) DEF ClientFindsClosed, ReleaseOffer, Unlock, Dispose, Goto
  <2>3. CASE ClientFindsOpen(c)
    BY <2>3, SMTT(20) DEF ClientFindsOpen, Goto
  <2>4. CASE Push(c)
    BY <2>4, SMTT(20) DEF Push, Enqueue, HasRoom, Unlock, Goto, NotifyOne
  <2>5. CASE FindsFull(c)
    BY <2>5, SMTT(20) DEF FindsFull, HasRoom, ReleaseOffer, Unlock, Dispose, Goto
  <2>6. CASE Block(c)
    BY <2>6, SMTT(20) DEF Block, StartWait, HasRoom, Unlock, Goto
  <2>7. CASE Expire(c)
    BY <2>7, SMTT(20) DEF Expire, Goto
  <2>8. CASE ExpiredRetry(c)
    BY <2>8, SMTT(20) DEF ExpiredRetry, HasRoom, Lock, Goto
  <2>9. CASE ExpiredGiveUp(c)
    BY <2>9, SMTT(20) DEF ExpiredGiveUp, HasRoom, Dispose, Goto
  <2>10. CASE StoreClosed(c)
    BY <2>10, SMTT(20) DEF StoreClosed, Goto
  <2>11. CASE Drain(c)
    BY <2>11, SMTT(20) DEF Drain, Goto
  <2>12. CASE \E t \in Tasks : ReleaseDrained(c, t)
    BY <2>12, SMTT(20) DEF ReleaseDrained, Dispose
  <2>13. CASE AllReleased(c)
    BY <2>13, SMTT(20) DEF AllReleased, Goto
  <2>14. CASE NotifyAll(c)
    BY <2>14, SMTT(20) DEF NotifyAll, TakeHandles, Goto
  <2>15. CASE Join(c)
    BY <2>15, SMTT(20) DEF Join, EndClose, Goto
  <2> QED
    BY <2>1, <2>2, <2>3, <2>4, <2>5, <2>6, <2>7, <2>8, <2>9, <2>10, <2>11, <2>12, <2>13, <2>14, <2>15, Zenon DEF ClientStep
<1>4. CASE \E t \in Tasks : DropResult(t)
  BY <1>4 DEF DropResult
<1>5. CASE \E t \in Threads : SpuriousWakeup(t)
  BY <1>5 DEF SpuriousWakeup
<1>6. CASE UNCHANGED vars
  BY <1>6, Zenon DEF vars
<1> QED
  BY <1>1, <1>2, <1>3, <1>4, <1>5, <1>6, Zenon DEF Next

-----------------------------------------------------------------------------
(* The queue of tasks. *)

LEMMA HeadQueued ==
  ASSUME queue \in Seq(Tasks), QueueExact, queue # <<>>
  PROVE  Head(queue) \in Tasks /\ at[Head(queue)] = "queued"
<1>1. Len(queue) \in Nat /\ 1 \in 1..Len(queue) /\ Head(queue) = queue[1]
  OBVIOUS
<1> QED BY <1>1 DEF QueueExact

(* A step that moves no task into or out of the queue. *)
LEMMA QueueFrame ==
  ASSUME QueueExact, at \in [Tasks -> Places], queue' = queue,
         \A t \in Tasks : at'[t] = "queued" <=> at[t] = "queued"
  PROVE  QueueExact'
<1>1. {t \in Tasks : at'[t] = "queued"} = {t \in Tasks : at[t] = "queued"}
  BY Zenon
<1> QED BY <1>1 DEF QueueExact

(* The head leaves: what remains is still everything queued, once. *)
LEMMA QueuePop ==
  ASSUME QueueExact, at \in [Tasks -> Places], queue \in Seq(Tasks), queue # <<>>,
         queue' = Tail(queue), NEW k \in Tasks, k = Head(queue),
         at' = [at EXCEPT ![k] = "running"]
  PROVE  QueueExact'
<1>1. /\ Len(queue) \in Nat /\ Len(queue') = Len(queue) - 1 /\ k = queue[1]
      /\ \A i \in 1..Len(queue') : queue'[i] = queue[i + 1]
  <2>1. Len(queue) \in Nat /\ Len(Tail(queue)) = Len(queue) - 1 /\ Head(queue) = queue[1]
    OBVIOUS
  <2>2. \A i \in 1..Len(Tail(queue)) : Tail(queue)[i] = queue[i + 1]
    OBVIOUS
  <2> QED BY <2>1, <2>2, Zenon
<1>2. /\ Len(queue) <= queue_capacity
      /\ \A i \in 1..Len(queue) : queue[i] \in Tasks /\ at[queue[i]] = "queued"
      /\ \A t \in Tasks : at[t] = "queued" => \E i \in 1..Len(queue) : queue[i] = t
      /\ \A i, j \in 1..Len(queue) : queue[i] = queue[j] => i = j
  BY DEF QueueExact
<1>3. Len(queue') <= queue_capacity
  BY <1>1, <1>2, PoolAssumption
<1>4. \A i, j \in 1..Len(queue') : queue'[i] = queue'[j] => i = j
  <2> TAKE i, j \in 1..Len(queue')
  <2>1. i + 1 \in 1..Len(queue) /\ j + 1 \in 1..Len(queue)
    BY <1>1
  <2> QED BY <2>1, <1>1, <1>2
<1>5. ASSUME NEW i \in 1..Len(queue')
      PROVE  queue'[i] \in Tasks /\ at'[queue'[i]] = "queued"
  <2>1. i + 1 \in 1..Len(queue) /\ 1 \in 1..Len(queue) /\ i + 1 # 1
    BY <1>1
  <2>2. queue[i + 1] # k /\ queue[i + 1] \in Tasks /\ at[queue[i + 1]] = "queued"
    BY <2>1, <1>1, <1>2
  <2> QED BY <2>2, <1>1, Zenon
<1>6. ASSUME NEW t \in Tasks, at'[t] = "queued"
      PROVE  \E i \in 1..Len(queue') : queue'[i] = t
  <2>1. t # k /\ at[t] = "queued"
    BY <1>6, Zenon
  <2>2. PICK j \in 1..Len(queue) : queue[j] = t
    BY <2>1, <1>2, Zenon
  <2>3. j # 1 /\ j - 1 \in 1..Len(queue') /\ (j - 1) + 1 = j
    BY <2>1, <2>2, <1>1
  <2> QED BY <2>2, <2>3, <1>1, Zenon
<1>7. {queue'[i] : i \in 1..Len(queue')} = {t \in Tasks : at'[t] = "queued"}
  BY <1>5, <1>6
<1> QED BY <1>3, <1>4, <1>7, Zenon DEF QueueExact

(* A task joins at the tail, with room for it. *)
LEMMA QueuePush ==
  ASSUME QueueExact, at \in [Tasks -> Places], queue \in Seq(Tasks),
         Len(queue) < queue_capacity,
         NEW k \in Tasks, at[k] = "offered", queue' = Append(queue, k),
         at' = [at EXCEPT ![k] = "queued"]
  PROVE  QueueExact'
<1>1. /\ Len(queue) \in Nat /\ Len(queue') = Len(queue) + 1
      /\ queue'[Len(queue) + 1] = k
      /\ \A i \in 1..Len(queue) : queue'[i] = queue[i]
  OBVIOUS
<1>2. /\ \A i \in 1..Len(queue) : queue[i] \in Tasks /\ at[queue[i]] = "queued"
      /\ \A t \in Tasks : at[t] = "queued" => \E i \in 1..Len(queue) : queue[i] = t
      /\ \A i, j \in 1..Len(queue) : queue[i] = queue[j] => i = j
  BY DEF QueueExact
<1>3. Len(queue') <= queue_capacity
  BY <1>1, PoolAssumption
<1>4. \A i \in 1..Len(queue') : i \in 1..Len(queue) \/ i = Len(queue) + 1
  BY <1>1
<1>5. \A i \in 1..Len(queue) : queue[i] # k
  BY <1>2, Zenon
<1>6. \A i, j \in 1..Len(queue') : queue'[i] = queue'[j] => i = j
  BY <1>1, <1>2, <1>4, <1>5
<1>7. ASSUME NEW i \in 1..Len(queue')
      PROVE  queue'[i] \in Tasks /\ at'[queue'[i]] = "queued"
  BY <1>1, <1>2, <1>4
<1>8. ASSUME NEW t \in Tasks, at'[t] = "queued"
      PROVE  \E i \in 1..Len(queue') : queue'[i] = t
  <2>1. CASE t = k
    BY <2>1, <1>1
  <2>2. CASE t # k
    <3>0. at[t] = "queued"
      BY <2>2, <1>8, Zenon
    <3>1. PICK i \in 1..Len(queue) : queue[i] = t
      BY <3>0, <1>2, Zenon
    <3>2. i \in 1..Len(queue')
      BY <1>1
    <3> QED BY <3>1, <3>2, <1>1, Zenon
  <2> QED BY <2>1, <2>2, Zenon
<1>9. {queue'[i] : i \in 1..Len(queue')} = {t \in Tasks : at'[t] = "queued"}
  BY <1>7, <1>8
<1> QED BY <1>3, <1>6, <1>9, Zenon DEF QueueExact

-----------------------------------------------------------------------------
(* Task by task. *)

(* What no step that leaves the tasks alone can disturb. *)
LEMMA FrameKeeps ==
  ASSUME TaskInv, TaskFrame
  PROVE  TaskInv'
<1>1. CurInv'
  BY Zenon DEF TaskInv, TaskFrame, CurInv
<1>2. DrainInv'
  BY Zenon DEF TaskInv, TaskFrame, DrainInv
<1>3. OwnInv'
  BY Zenon DEF TaskInv, TaskFrame, OwnInv
<1>4. TakenInv'
  BY Zenon DEF TaskInv, TaskFrame, TakenInv
<1>5. RefsBalanced'
  BY Zenon DEF TaskInv, TaskFrame, RefsBalanced, PoolShare, CallerShare
<1>6. QueueExact'
  <2>1. QueueExact /\ queue' = queue /\ at' = at
    BY Zenon DEF TaskInv, TaskFrame
  <2> QED BY <2>1 DEF QueueExact
<1> QED BY <1>1, <1>2, <1>3, <1>4, <1>5, <1>6, Zenon DEF TaskInv

(* A worker that is done with a task. *)
LEMMA FinishTask ==
  ASSUME TypeOK, TaskInv, NEW w \in Workers, WorkerFinish(w)
  PROVE  TaskInv'
<1>a. /\ pc \in [Threads -> WorkerStates \cup ClientStates] /\ cur \in [Threads -> Tasks \cup {NoOne}]
      /\ at \in [Tasks -> Places] /\ refs \in [Tasks -> Nat]
      /\ drained \in [Clients -> SUBSET Tasks] /\ queue \in Seq(Tasks)
      /\ taken \subseteq Tasks /\ own \subseteq Tasks /\ shut \subseteq Tasks
  BY Zenon DEF TypeOK
<1>b. /\ Workers \subseteq Threads /\ Clients \subseteq Threads /\ Threads = Workers \cup Clients
      /\ \A v \in Workers : v \notin Clients
      /\ NoOne \notin Tasks
  BY PoolAssumption, Zenon DEF Threads
<1>1. /\ Running(w) /\ UNCHANGED <<queue, drained, own, taken>>
      /\ pc' = [pc EXCEPT ![w] = "idle"]
      /\ cur' = [cur EXCEPT ![w] = NoOne]
      /\ at' = [at EXCEPT ![cur[w]] = "released"]
      /\ refs' = [refs EXCEPT ![cur[w]] = @ - 1]
      /\ shut' = shut \cup {cur[w]}
  BY <1>a, <1>b, Zenon DEF WorkerFinish, Dispose, WorkerRest, Goto, Running, syncVars, taskVars, ownVars
<1>2. cur[w] \in Tasks /\ at[cur[w]] = "running"
  BY <1>1, Zenon DEF TaskInv, CurInv, Running
<1>3. CurInv'
  <2>1. (\A v \in Workers : IF Running(v) THEN cur[v] \in Tasks /\ at[cur[v]] = "running"
                                         ELSE cur[v] = NoOne)'
    BY <1>a, <1>b, <1>1, <1>2 DEF TaskInv, CurInv, Running, Offering
  <2>2. (\A x \in Clients : IF Offering(x) THEN cur[x] \in Tasks /\ at[cur[x]] = "offered"
                                          ELSE cur[x] = NoOne)'
    BY <1>a, <1>b, <1>1, <1>2, Zenon DEF TaskInv, CurInv, Running, Offering
  <2>3. (\A x, y \in Threads : cur[x] = cur[y] /\ cur[x] # NoOne => x = y)'
    BY <1>a, <1>b, <1>1, <1>2, Zenon DEF TaskInv, CurInv, Running, Offering
  <2>4. (\A x \in Tasks : at[x] = "running" => \E v \in Workers : cur[v] = x)'
    BY <1>a, <1>b, <1>1, <1>2 DEF TaskInv, CurInv, Running, Offering
  <2> QED BY <2>1, <2>2, <2>3, <2>4, Zenon DEF CurInv
<1>4. DrainInv'
  BY <1>a, <1>b, <1>1, <1>2, Zenon DEF TaskInv, DrainInv
<1>5. OwnInv'
  BY <1>a, <1>b, <1>1, <1>2, Zenon DEF TaskInv, OwnInv
<1>6. TakenInv'
  BY <1>a, <1>b, <1>1, <1>2, Zenon DEF TaskInv, TakenInv
<1>7. RefsBalanced'
  BY <1>a, <1>b, <1>1, <1>2 DEF TaskInv, RefsBalanced, PoolShare, CallerShare
<1>8. QueueExact'
  BY <1>a, <1>1, <1>2, QueueFrame, Zenon DEF TaskInv, QueueExact
<1> QED BY <1>3, <1>4, <1>5, <1>6, <1>7, <1>8, Zenon DEF TaskInv

(* A submitter that is turned away. *)
LEMMA RefuseTask ==
  ASSUME TypeOK, TaskInv, NEW c \in Clients,
         ClientFindsClosed(c) \/ FindsFull(c) \/ ExpiredGiveUp(c)
  PROVE  TaskInv'
<1>a. /\ pc \in [Threads -> WorkerStates \cup ClientStates] /\ cur \in [Threads -> Tasks \cup {NoOne}]
      /\ at \in [Tasks -> Places] /\ refs \in [Tasks -> Nat]
      /\ drained \in [Clients -> SUBSET Tasks] /\ queue \in Seq(Tasks)
      /\ taken \subseteq Tasks /\ own \subseteq Tasks /\ shut \subseteq Tasks
  BY Zenon DEF TypeOK
<1>b. /\ Workers \subseteq Threads /\ Clients \subseteq Threads /\ Threads = Workers \cup Clients
      /\ \A v \in Workers : v \notin Clients
      /\ NoOne \notin Tasks
  BY PoolAssumption, Zenon DEF Threads
<1>1. /\ Offering(c) /\ UNCHANGED <<queue, drained, own, taken>>
      /\ pc' = [pc EXCEPT ![c] = "idle"]
      /\ cur' = [cur EXCEPT ![c] = NoOne]
      /\ at' = [at EXCEPT ![cur[c]] = "released"]
      /\ refs' = [refs EXCEPT ![cur[c]] = @ - 2]
      /\ shut' = shut \cup {cur[c]}
  BY <1>a, <1>b, Zenon DEF ClientFindsClosed, ReleaseOffer, Unlock, Dispose, Goto, FindsFull, ExpiredGiveUp, Offering, syncVars, taskVars, ownVars
<1>2. cur[c] \in Tasks /\ at[cur[c]] = "offered"
  BY <1>1, Zenon DEF TaskInv, CurInv, Offering
<1>3. CurInv'
  <2>1. (\A v \in Workers : IF Running(v) THEN cur[v] \in Tasks /\ at[cur[v]] = "running"
                                         ELSE cur[v] = NoOne)'
    BY <1>a, <1>b, <1>1, <1>2, Zenon DEF TaskInv, CurInv, Running, Offering
  <2>2. (\A x \in Clients : IF Offering(x) THEN cur[x] \in Tasks /\ at[cur[x]] = "offered"
                                          ELSE cur[x] = NoOne)'
    BY <1>a, <1>b, <1>1, <1>2 DEF TaskInv, CurInv, Running, Offering
  <2>3. (\A x, y \in Threads : cur[x] = cur[y] /\ cur[x] # NoOne => x = y)'
    BY <1>a, <1>b, <1>1, <1>2, Zenon DEF TaskInv, CurInv, Running, Offering
  <2>4. (\A x \in Tasks : at[x] = "running" => \E v \in Workers : cur[v] = x)'
    BY <1>a, <1>b, <1>1, <1>2 DEF TaskInv, CurInv, Running, Offering
  <2> QED BY <2>1, <2>2, <2>3, <2>4, Zenon DEF CurInv
<1>4. DrainInv'
  BY <1>a, <1>b, <1>1, <1>2, Zenon DEF TaskInv, DrainInv, Offering
<1>5. OwnInv'
  BY <1>a, <1>b, <1>1, <1>2, Zenon DEF TaskInv, OwnInv
<1>6. TakenInv'
  BY <1>a, <1>b, <1>1, <1>2, Zenon DEF TaskInv, TakenInv
<1>7. RefsBalanced'
  BY <1>a, <1>b, <1>1, <1>2 DEF TaskInv, RefsBalanced, PoolShare, CallerShare, OwnInv
<1>8. QueueExact'
  BY <1>a, <1>1, <1>2, QueueFrame, Zenon DEF TaskInv, QueueExact
<1> QED BY <1>3, <1>4, <1>5, <1>6, <1>7, <1>8, Zenon DEF TaskInv

(* A new submission. *)
LEMMA SubmitTask ==
  ASSUME TypeOK, TaskInv, NEW c \in Clients, NEW t \in Tasks, NEW m \in Modes, Submit(c, t, m)
  PROVE  TaskInv'
<1>a. /\ pc \in [Threads -> WorkerStates \cup ClientStates] /\ cur \in [Threads -> Tasks \cup {NoOne}]
      /\ at \in [Tasks -> Places] /\ refs \in [Tasks -> Nat]
      /\ drained \in [Clients -> SUBSET Tasks] /\ queue \in Seq(Tasks)
      /\ taken \subseteq Tasks /\ own \subseteq Tasks /\ shut \subseteq Tasks
  BY Zenon DEF TypeOK
<1>b. /\ Workers \subseteq Threads /\ Clients \subseteq Threads /\ Threads = Workers \cup Clients
      /\ \A v \in Workers : v \notin Clients
      /\ NoOne \notin Tasks
  BY PoolAssumption, Zenon DEF Threads
<1>1. /\ pc[c] = "idle" /\ at[t] = "new" /\ UNCHANGED <<queue, drained, own, taken, shut>>
      /\ pc' = [pc EXCEPT ![c] = "offer"]
      /\ cur' = [cur EXCEPT ![c] = t]
      /\ at' = [at EXCEPT ![t] = "offered"]
      /\ refs' = [refs EXCEPT ![t] = 2]
  BY <1>a, <1>b, Zenon DEF Submit, Goto, syncVars, taskVars, ownVars
<1>2. cur[c] = NoOne /\ t \notin own /\ \A s \in Threads : cur[s] # t
  <2>1. cur[c] = NoOne /\ t \notin own
    BY <1>1, Zenon DEF TaskInv, CurInv, OwnInv, Offering
  <2>2. \A s \in Workers : cur[s] # t
    BY <1>b, <1>1, Zenon DEF TaskInv, CurInv
  <2>3. \A s \in Clients : cur[s] # t
    BY <1>b, <1>1, Zenon DEF TaskInv, CurInv
  <2> QED BY <1>b, <2>1, <2>2, <2>3, Zenon
<1>3. CurInv'
  <2>1. (\A v \in Workers : IF Running(v) THEN cur[v] \in Tasks /\ at[cur[v]] = "running"
                                         ELSE cur[v] = NoOne)'
    BY <1>a, <1>b, <1>1, <1>2 DEF TaskInv, CurInv, Running, Offering
  <2>2. (\A x \in Clients : IF Offering(x) THEN cur[x] \in Tasks /\ at[cur[x]] = "offered"
                                          ELSE cur[x] = NoOne)'
    BY <1>a, <1>b, <1>1, <1>2 DEF TaskInv, CurInv, Running, Offering
  <2>3. (\A x, y \in Threads : cur[x] = cur[y] /\ cur[x] # NoOne => x = y)'
    BY <1>a, <1>b, <1>1, <1>2, Zenon DEF TaskInv, CurInv, Running, Offering
  <2>4. (\A x \in Tasks : at[x] = "running" => \E v \in Workers : cur[v] = x)'
    BY <1>a, <1>b, <1>1, <1>2 DEF TaskInv, CurInv, Running, Offering
  <2> QED BY <2>1, <2>2, <2>3, <2>4, Zenon DEF CurInv
<1>4. DrainInv'
  BY <1>a, <1>b, <1>1, <1>2, Zenon DEF TaskInv, DrainInv
<1>5. OwnInv'
  BY <1>a, <1>b, <1>1, <1>2, Zenon DEF TaskInv, OwnInv
<1>6. TakenInv'
  BY <1>a, <1>b, <1>1, <1>2, Zenon DEF TaskInv, TakenInv
<1>7. RefsBalanced'
  BY <1>a, <1>b, <1>1, <1>2 DEF TaskInv, RefsBalanced, PoolShare, CallerShare
<1>8. QueueExact'
  BY <1>a, <1>1, <1>2, QueueFrame, Zenon DEF TaskInv, QueueExact
<1> QED BY <1>3, <1>4, <1>5, <1>6, <1>7, <1>8, Zenon DEF TaskInv

(* The caller's share of a result channel is given up. *)
LEMMA DropTask ==
  ASSUME TypeOK, TaskInv, NEW t \in Tasks, DropResult(t)
  PROVE  TaskInv'
<1>a. /\ pc \in [Threads -> WorkerStates \cup ClientStates] /\ cur \in [Threads -> Tasks \cup {NoOne}]
      /\ at \in [Tasks -> Places] /\ refs \in [Tasks -> Nat]
      /\ drained \in [Clients -> SUBSET Tasks] /\ queue \in Seq(Tasks)
      /\ taken \subseteq Tasks /\ own \subseteq Tasks /\ shut \subseteq Tasks
  BY Zenon DEF TypeOK
<1>b. /\ Workers \subseteq Threads /\ Clients \subseteq Threads /\ Threads = Workers \cup Clients
      /\ \A v \in Workers : v \notin Clients
      /\ NoOne \notin Tasks
  BY PoolAssumption, Zenon DEF Threads
<1>1. /\ t \in own /\ own' = own \ {t} /\ refs' = [refs EXCEPT ![t] = @ - 1]
      /\ UNCHANGED <<pc, cur, queue, drained, at, taken, shut>>
  BY <1>a, <1>b, Zenon DEF DropResult, syncVars, taskVars, ownVars
<1>2. at[t] \notin {"new", "offered"}
  BY <1>1, Zenon DEF TaskInv, OwnInv
<1>3. CurInv'
  <2>1. (\A v \in Workers : IF Running(v) THEN cur[v] \in Tasks /\ at[cur[v]] = "running"
                                         ELSE cur[v] = NoOne)'
    BY <1>a, <1>b, <1>1, <1>2, Zenon DEF TaskInv, CurInv, Running, Offering
  <2>2. (\A x \in Clients : IF Offering(x) THEN cur[x] \in Tasks /\ at[cur[x]] = "offered"
                                          ELSE cur[x] = NoOne)'
    BY <1>a, <1>b, <1>1, <1>2, Zenon DEF TaskInv, CurInv, Running, Offering
  <2>3. (\A x, y \in Threads : cur[x] = cur[y] /\ cur[x] # NoOne => x = y)'
    BY <1>a, <1>b, <1>1, <1>2, Zenon DEF TaskInv, CurInv, Running, Offering
  <2>4. (\A x \in Tasks : at[x] = "running" => \E v \in Workers : cur[v] = x)'
    BY <1>a, <1>b, <1>1, <1>2, Zenon DEF TaskInv, CurInv, Running, Offering
  <2> QED BY <2>1, <2>2, <2>3, <2>4, Zenon DEF CurInv
<1>4. DrainInv'
  BY <1>a, <1>b, <1>1, <1>2, Zenon DEF TaskInv, DrainInv
<1>5. OwnInv'
  BY <1>a, <1>b, <1>1, <1>2, Zenon DEF TaskInv, OwnInv
<1>6. TakenInv'
  BY <1>a, <1>b, <1>1, <1>2, Zenon DEF TaskInv, TakenInv
<1>7. RefsBalanced'
  BY <1>a, <1>b, <1>1, <1>2 DEF TaskInv, RefsBalanced, PoolShare, CallerShare
<1>8. QueueExact'
  BY <1>a, <1>1, <1>2, QueueFrame, Zenon DEF TaskInv, QueueExact
<1> QED BY <1>3, <1>4, <1>5, <1>6, <1>7, <1>8, Zenon DEF TaskInv

(* A drained task is released. *)
LEMMA ReleaseTask ==
  ASSUME TypeOK, TaskInv, NEW c \in Clients, NEW t \in Tasks, ReleaseDrained(c, t)
  PROVE  TaskInv'
<1>a. /\ pc \in [Threads -> WorkerStates \cup ClientStates] /\ cur \in [Threads -> Tasks \cup {NoOne}]
      /\ at \in [Tasks -> Places] /\ refs \in [Tasks -> Nat]
      /\ drained \in [Clients -> SUBSET Tasks] /\ queue \in Seq(Tasks)
      /\ taken \subseteq Tasks /\ own \subseteq Tasks /\ shut \subseteq Tasks
  BY Zenon DEF TypeOK
<1>b. /\ Workers \subseteq Threads /\ Clients \subseteq Threads /\ Threads = Workers \cup Clients
      /\ \A v \in Workers : v \notin Clients
      /\ NoOne \notin Tasks
  BY PoolAssumption, Zenon DEF Threads
<1>1. /\ pc[c] \in {"release", "shut"} /\ t \in drained[c]
      /\ drained' = [drained EXCEPT ![c] = @ \ {t}]
      /\ at' = [at EXCEPT ![t] = "released"]
      /\ refs' = [refs EXCEPT ![t] = @ - 1]
      /\ shut' = shut \cup {t}
      /\ UNCHANGED <<pc, cur, queue, own, taken>>
  BY <1>a, <1>b, Zenon DEF ReleaseDrained, Dispose, syncVars, taskVars, ownVars
<1>2. at[t] = "drained"
  BY <1>1, Zenon DEF TaskInv, DrainInv
<1>3. CurInv'
  <2>1. (\A v \in Workers : IF Running(v) THEN cur[v] \in Tasks /\ at[cur[v]] = "running"
                                         ELSE cur[v] = NoOne)'
    BY <1>a, <1>b, <1>1, <1>2, Zenon DEF TaskInv, CurInv, Running, Offering
  <2>2. (\A x \in Clients : IF Offering(x) THEN cur[x] \in Tasks /\ at[cur[x]] = "offered"
                                          ELSE cur[x] = NoOne)'
    BY <1>a, <1>b, <1>1, <1>2, Zenon DEF TaskInv, CurInv, Running, Offering
  <2>3. (\A x, y \in Threads : cur[x] = cur[y] /\ cur[x] # NoOne => x = y)'
    BY <1>a, <1>b, <1>1, <1>2, Zenon DEF TaskInv, CurInv, Running, Offering
  <2>4. (\A x \in Tasks : at[x] = "running" => \E v \in Workers : cur[v] = x)'
    BY <1>a, <1>b, <1>1, <1>2, Zenon DEF TaskInv, CurInv, Running, Offering
  <2> QED BY <2>1, <2>2, <2>3, <2>4, Zenon DEF CurInv
<1>4. DrainInv'
  BY <1>a, <1>b, <1>1, <1>2 DEF TaskInv, DrainInv
<1>5. OwnInv'
  BY <1>a, <1>b, <1>1, <1>2, Zenon DEF TaskInv, OwnInv
<1>6. TakenInv'
  BY <1>a, <1>b, <1>1, <1>2, Zenon DEF TaskInv, TakenInv
<1>7. RefsBalanced'
  BY <1>a, <1>b, <1>1, <1>2 DEF TaskInv, RefsBalanced, PoolShare, CallerShare
<1>8. QueueExact'
  BY <1>a, <1>1, <1>2, QueueFrame, Zenon DEF TaskInv, QueueExact
<1> QED BY <1>3, <1>4, <1>5, <1>6, <1>7, <1>8, Zenon DEF TaskInv

(* A closing or cancelling client empties the queue. *)
LEMMA DrainTask ==
  ASSUME TypeOK, TaskInv, NEW c \in Clients, Drain(c)
  PROVE  TaskInv'
<1>a. /\ pc \in [Threads -> WorkerStates \cup ClientStates] /\ cur \in [Threads -> Tasks \cup {NoOne}]
      /\ at \in [Tasks -> Places] /\ refs \in [Tasks -> Nat]
      /\ drained \in [Clients -> SUBSET Tasks] /\ queue \in Seq(Tasks)
      /\ taken \subseteq Tasks /\ own \subseteq Tasks /\ shut \subseteq Tasks
  BY Zenon DEF TypeOK
<1>b. /\ Workers \subseteq Threads /\ Clients \subseteq Threads /\ Threads = Workers \cup Clients
      /\ \A v \in Workers : v \notin Clients
      /\ NoOne \notin Tasks
  BY PoolAssumption, Zenon DEF Threads
<1>1. /\ pc[c] \in {"cancel", "drain"} /\ queue' = <<>>
      /\ drained' = [drained EXCEPT ![c] = {t \in Tasks : at[t] = "queued"}]
      /\ at' = [t \in Tasks |-> IF at[t] = "queued" THEN "drained" ELSE at[t]]
      /\ pc' = [pc EXCEPT ![c] = IF pc[c] = "cancel" THEN "release" ELSE "shut"]
      /\ UNCHANGED <<cur, own, taken, refs, shut>>
  BY <1>a, <1>b, Zenon DEF Drain, Goto, syncVars, taskVars, ownVars
<1>2. /\ drained[c] = {}
      /\ \A t \in Tasks : at[t] = "queued" => at'[t] = "drained"
      /\ \A t \in Tasks : at[t] # "queued" => at'[t] = at[t]
      /\ at' \in [Tasks -> Places] /\ 0 <= queue_capacity
  <2>1. drained[c] = {}
    BY <1>1, Zenon DEF TaskInv, DrainInv
  <2>2. 0 <= queue_capacity
    BY PoolAssumption
  <2> QED BY <1>a, <1>1, <2>1, <2>2, Zenon DEF Places
<1>3. CurInv'
  <2>1. (\A v \in Workers : IF Running(v) THEN cur[v] \in Tasks /\ at[cur[v]] = "running"
                                         ELSE cur[v] = NoOne)'
    BY <1>a, <1>b, <1>1, <1>2, Zenon DEF TaskInv, CurInv, Running, Offering
  <2>2. (\A x \in Clients : IF Offering(x) THEN cur[x] \in Tasks /\ at[cur[x]] = "offered"
                                          ELSE cur[x] = NoOne)'
    BY <1>a, <1>b, <1>1, <1>2 DEF TaskInv, CurInv, Running, Offering
  <2>3. (\A x, y \in Threads : cur[x] = cur[y] /\ cur[x] # NoOne => x = y)'
    BY <1>a, <1>b, <1>1, <1>2, Zenon DEF TaskInv, CurInv, Running, Offering
  <2>4. (\A x \in Tasks : at[x] = "running" => \E v \in Workers : cur[v] = x)'
    BY <1>a, <1>b, <1>1, <1>2 DEF TaskInv, CurInv, Running, Offering
  <2> QED BY <2>1, <2>2, <2>3, <2>4, Zenon DEF CurInv
<1>4. DrainInv'
  BY <1>a, <1>b, <1>1, <1>2 DEF TaskInv, DrainInv
<1>5. OwnInv'
  BY <1>a, <1>b, <1>1, <1>2, Zenon DEF TaskInv, OwnInv
<1>6. TakenInv'
  BY <1>a, <1>b, <1>1, <1>2, Zenon DEF TaskInv, TakenInv
<1>7. RefsBalanced'
  BY <1>a, <1>b, <1>1, <1>2, Zenon DEF TaskInv, RefsBalanced, PoolShare, CallerShare
<1>8. QueueExact'
  <2>1. Len(queue') = 0 /\ 1..0 = {} /\ {t \in Tasks : at'[t] = "queued"} = {}
    BY <1>1, <1>2
  <2> QED BY <1>1, <1>2, <2>1, Zenon DEF QueueExact
<1> QED BY <1>3, <1>4, <1>5, <1>6, <1>7, <1>8, Zenon DEF TaskInv

(* A worker takes the task at the head of the queue. *)
LEMMA PopTask ==
  ASSUME TypeOK, TaskInv, NEW w \in Workers, WorkerPop(w)
  PROVE  TaskInv'
<1>a. /\ pc \in [Threads -> WorkerStates \cup ClientStates] /\ cur \in [Threads -> Tasks \cup {NoOne}]
      /\ at \in [Tasks -> Places] /\ refs \in [Tasks -> Nat]
      /\ drained \in [Clients -> SUBSET Tasks]
      /\ taken \subseteq Tasks /\ own \subseteq Tasks /\ shut \subseteq Tasks
  BY Zenon DEF TypeOK
<1>q. queue \in Seq(Tasks)
  BY Zenon DEF TypeOK
<1>b. /\ Workers \subseteq Threads /\ Clients \subseteq Threads /\ Threads = Workers \cup Clients
      /\ \A v \in Workers : v \notin Clients
      /\ NoOne \notin Tasks
  BY PoolAssumption, Zenon DEF Threads
<1>1. /\ pc[w] = "scan" /\ queue # <<>> /\ queue' = Tail(queue)
      /\ cur' = [cur EXCEPT ![w] = Head(queue)]
      /\ at' = [at EXCEPT ![Head(queue)] = "running"]
      /\ pc' = [pc EXCEPT ![w] = "run"]
      /\ UNCHANGED <<drained, own, taken, refs, shut>>
  BY <1>a, <1>q, <1>b, Zenon DEF WorkerPop, Unlock, Goto, NotifyOne, syncVars, taskVars, ownVars
<1>2. PICK k \in Tasks : /\ k = Head(queue) /\ at[k] = "queued"
                          /\ at' = [at EXCEPT ![k] = "running"] /\ cur' = [cur EXCEPT ![w] = k]
                          /\ cur[w] = NoOne /\ \A s \in Threads : cur[s] # k
                          /\ pc[w] = "scan" /\ pc' = [pc EXCEPT ![w] = "run"]
                          /\ UNCHANGED <<drained, own, taken, refs, shut>>
  <2>1. Head(queue) \in Tasks /\ at[Head(queue)] = "queued"
    BY <1>q, <1>1, HeadQueued, Zenon DEF TaskInv
  <2>2. cur[w] = NoOne
    BY <1>1, Zenon DEF TaskInv, CurInv, Running
  <2>3. \A s \in Workers : cur[s] # Head(queue)
    BY <1>b, <2>1, Zenon DEF TaskInv, CurInv
  <2>4. \A s \in Clients : cur[s] # Head(queue)
    BY <1>b, <2>1, Zenon DEF TaskInv, CurInv
  <2> QED BY <1>b, <1>1, <2>1, <2>2, <2>3, <2>4, Zenon
<1>3. CurInv'
  <2>1. (\A v \in Workers : IF Running(v) THEN cur[v] \in Tasks /\ at[cur[v]] = "running"
                                         ELSE cur[v] = NoOne)'
    BY <1>a, <1>b, <1>2 DEF TaskInv, CurInv, Running, Offering
  <2>2. (\A x \in Clients : IF Offering(x) THEN cur[x] \in Tasks /\ at[cur[x]] = "offered"
                                          ELSE cur[x] = NoOne)'
    BY <1>a, <1>b, <1>2 DEF TaskInv, CurInv, Running, Offering
  <2>3. (\A x, y \in Threads : cur[x] = cur[y] /\ cur[x] # NoOne => x = y)'
    BY <1>a, <1>b, <1>2, Zenon DEF TaskInv, CurInv, Running, Offering
  <2>4. (\A x \in Tasks : at[x] = "running" => \E v \in Workers : cur[v] = x)'
    BY <1>a, <1>b, <1>2 DEF TaskInv, CurInv, Running, Offering
  <2> QED BY <2>1, <2>2, <2>3, <2>4, Zenon DEF CurInv
<1>4. DrainInv'
  BY <1>a, <1>b, <1>2, Zenon DEF TaskInv, DrainInv
<1>5. OwnInv'
  BY <1>a, <1>b, <1>2, Zenon DEF TaskInv, OwnInv
<1>6. TakenInv'
  BY <1>a, <1>b, <1>2, Zenon DEF TaskInv, TakenInv
<1>7. RefsBalanced'
  BY <1>a, <1>b, <1>2 DEF TaskInv, RefsBalanced, PoolShare, CallerShare
<1>8. QueueExact'
  BY <1>a, <1>q, <1>1, <1>2, QueuePop, Zenon DEF TaskInv
<1> QED BY <1>3, <1>4, <1>5, <1>6, <1>7, <1>8, Zenon DEF TaskInv

(* A submitter's task enters the queue. *)
LEMMA PushTask ==
  ASSUME TypeOK, TaskInv, NEW c \in Clients, Push(c)
  PROVE  TaskInv'
<1>a. /\ pc \in [Threads -> WorkerStates \cup ClientStates] /\ cur \in [Threads -> Tasks \cup {NoOne}]
      /\ at \in [Tasks -> Places] /\ refs \in [Tasks -> Nat]
      /\ drained \in [Clients -> SUBSET Tasks]
      /\ taken \subseteq Tasks /\ own \subseteq Tasks /\ shut \subseteq Tasks
  BY Zenon DEF TypeOK
<1>q. queue \in Seq(Tasks)
  BY Zenon DEF TypeOK
<1>b. /\ Workers \subseteq Threads /\ Clients \subseteq Threads /\ Threads = Workers \cup Clients
      /\ \A v \in Workers : v \notin Clients
      /\ NoOne \notin Tasks
  BY PoolAssumption, Zenon DEF Threads
<1>1. /\ pc[c] = "room" /\ Offering(c) /\ Len(queue) < queue_capacity
      /\ queue' = Append(queue, cur[c])
      /\ pc' = [pc EXCEPT ![c] = "idle"]
      /\ cur' = [cur EXCEPT ![c] = NoOne]
      /\ at' = [at EXCEPT ![cur[c]] = "queued"]
      /\ taken' = taken \cup {cur[c]} /\ own' = own \cup {cur[c]}
      /\ UNCHANGED <<drained, refs, shut>>
  BY <1>a, <1>q, <1>b, Zenon DEF Push, Enqueue, HasRoom, Unlock, Goto, NotifyOne, Offering, syncVars, taskVars, ownVars
<1>2. /\ cur[c] \in Tasks /\ at[cur[c]] = "offered" /\ pc[c] = "room"
      /\ pc' = [pc EXCEPT ![c] = "idle"] /\ cur' = [cur EXCEPT ![c] = NoOne]
      /\ at' = [at EXCEPT ![cur[c]] = "queued"]
      /\ taken' = taken \cup {cur[c]} /\ own' = own \cup {cur[c]}
      /\ UNCHANGED <<drained, refs, shut>>
  BY <1>1, Zenon DEF TaskInv, CurInv, Offering
<1>3. CurInv'
  <2>1. (\A v \in Workers : IF Running(v) THEN cur[v] \in Tasks /\ at[cur[v]] = "running"
                                         ELSE cur[v] = NoOne)'
    BY <1>a, <1>b, <1>2, Zenon DEF TaskInv, CurInv, Running, Offering
  <2>2. (\A x \in Clients : IF Offering(x) THEN cur[x] \in Tasks /\ at[cur[x]] = "offered"
                                          ELSE cur[x] = NoOne)'
    BY <1>a, <1>b, <1>2 DEF TaskInv, CurInv, Running, Offering
  <2>3. (\A x, y \in Threads : cur[x] = cur[y] /\ cur[x] # NoOne => x = y)'
    BY <1>a, <1>b, <1>2, Zenon DEF TaskInv, CurInv, Running, Offering
  <2>4. ASSUME NEW x \in Tasks, at'[x] = "running"
        PROVE  \E v \in Workers : cur'[v] = x
    <3>1. at[x] = "running"
      BY <1>a, <1>2, <2>4, Zenon
    <3>2. PICK v \in Workers : cur[v] = x
      BY <3>1, Zenon DEF TaskInv, CurInv
    <3>3. cur'[v] = cur[v]
      BY <1>a, <1>b, <1>2, Zenon
    <3> QED BY <3>2, <3>3, Zenon
  <2> QED BY <2>1, <2>2, <2>3, <2>4, Zenon DEF CurInv
<1>4. DrainInv'
  BY <1>a, <1>b, <1>2, Zenon DEF TaskInv, DrainInv
<1>5. OwnInv'
  BY <1>a, <1>b, <1>2 DEF TaskInv, OwnInv
<1>6. TakenInv'
  BY <1>a, <1>b, <1>2, Zenon DEF TaskInv, TakenInv
<1>7. RefsBalanced'
  BY <1>a, <1>b, <1>2, Zenon DEF TaskInv, RefsBalanced, PoolShare, CallerShare
<1>8. QueueExact'
  BY <1>a, <1>q, <1>1, <1>2, QueuePush, Zenon DEF TaskInv
<1> QED BY <1>3, <1>4, <1>5, <1>6, <1>7, <1>8, Zenon DEF TaskInv

-----------------------------------------------------------------------------
(* The inductive invariant. *)

IInv == TypeOK /\ LockInv /\ ExitInv /\ JoinInv /\ TaskInv

LEMMA IInvInit ==
  ASSUME Init
  PROVE  IInv
<1>1. /\ qlock = NoOne /\ queue = <<>> /\ closed = FALSE /\ wake = {} /\ space = {}
      /\ cur = [t \in Threads |-> NoOne] /\ mode = [c \in Clients |-> "forever"]
      /\ joining = [c \in Clients |-> {}] /\ drained = [c \in Clients |-> {}]
      /\ at = [t \in Tasks |-> "new"] /\ refs = [t \in Tasks |-> 0]
      /\ taken = {} /\ own = {} /\ sent = {} /\ shut = {} /\ spurious = 0
  BY Zenon DEF Init
<1>2. /\ pc \in [Threads -> {"idle", "abort", "exited", "gone"}]
      /\ \A w \in Workers : pc[w] \in {"idle", "exited"}
      /\ \A c \in Clients : pc[c] \in {"idle", "abort", "gone"}
      /\ names \subseteq Clients /\ handles \subseteq Workers
      /\ \A w \in Workers : pc[w] = "exited" =>
            names = {} /\ \A c \in Clients : pc[c] \in {"abort", "gone"}
      /\ \A w \in Workers : pc[w] = "exited" \/ w \in handles
      /\ \A c \in names : pc[c] # "gone"
      /\ names = {} => \E c \in Clients : pc[c] = "abort"
  <2>1. CASE InitCreated
    BY <2>1, PoolAssumption, Zenon DEF InitCreated, Threads
  <2>2. CASE InitSpawnFailed
    BY <2>2, PoolAssumption DEF InitSpawnFailed, Threads
  <2> QED BY <2>1, <2>2, Zenon DEF Init
<1>3. TypeOK
  <2>1. /\ pc \in [Threads -> WorkerStates \cup ClientStates]
        /\ \A w \in Workers : pc[w] \in WorkerStates
        /\ \A c \in Clients : pc[c] \in ClientStates
    BY <1>2, Zenon DEF WorkerStates, ClientStates
  <2>2. /\ cur \in [Threads -> Tasks \cup {NoOne}] /\ mode \in [Clients -> AllModes]
        /\ joining \in [Clients -> SUBSET Workers] /\ drained \in [Clients -> SUBSET Tasks]
        /\ at \in [Tasks -> Places] /\ refs \in [Tasks -> Nat]
    BY <1>1, Zenon DEF Places, AllModes
  <2>6. queue \in Seq(Tasks)
    BY <1>1
  <2>3. /\ qlock \in Threads \cup {NoOne} /\ closed \in BOOLEAN
        /\ wake \subseteq Workers /\ space \subseteq Clients
        /\ taken \subseteq Tasks /\ own \subseteq Tasks /\ sent \subseteq Tasks
        /\ shut \subseteq Tasks
    BY <1>1, Zenon
  <2>5. spurious \in Nat
    BY <1>1, Zenon
  <2>4. names \subseteq Clients /\ handles \subseteq Workers
    BY <1>2, Zenon
  <2> QED BY <2>1, <2>2, <2>3, <2>4, <2>5, <2>6, Zenon DEF TypeOK
<1>4. LockInv /\ ExitInv /\ JoinInv
  BY <1>1, <1>2, PoolAssumption, Zenon DEF LockInv, ExitInv, JoinInv
<1>5. CurInv /\ DrainInv
  BY <1>1, <1>2, PoolAssumption, Zenon DEF CurInv, DrainInv, Running, Offering, Threads
<1>6. OwnInv /\ TakenInv /\ RefsBalanced
  BY <1>1 DEF OwnInv, TakenInv, RefsBalanced, PoolShare, CallerShare
<1>7. QueueExact
  <2>1. Len(queue) = 0 /\ 1..0 = {} /\ 0 <= queue_capacity
    BY <1>1, PoolAssumption
  <2> QED BY <1>1, <2>1, Zenon DEF QueueExact
<1> QED BY <1>3, <1>4, <1>5, <1>6, <1>7, Zenon DEF IInv, TaskInv

LEMMA TaskInvStep ==
  ASSUME TypeOK, TaskInv, [Next]_vars
  PROVE  TaskInv'
<1>1. CASE TaskFrame
  BY <1>1, FrameKeeps, Zenon
<1>2. CASE TaskStep
  BY <1>2, PopTask, FinishTask, SubmitTask, RefuseTask, PushTask, DrainTask,
     ReleaseTask, DropTask, Zenon DEF TaskStep
<1> QED BY <1>1, <1>2, FrameStep, Zenon

LEMMA IInvStep ==
  ASSUME IInv, [Next]_vars
  PROVE  IInv'
<1>1. TypeOK /\ LockInv /\ ExitInv /\ JoinInv /\ TaskInv
  BY Zenon DEF IInv
<1>2. TypeOK'
  BY <1>1, TypeStep, Zenon
<1>3. LockInv' /\ ExitInv' /\ JoinInv'
  BY <1>1, ThreadStep, Zenon
<1>6. TaskInv'
  BY <1>1, TaskInvStep, Zenon
<1> QED BY <1>2, <1>3, <1>6, Zenon DEF IInv

(* IInv holds in every reachable state of the pool. *)
THEOREM Invariance == Spec => []IInv
<1>1. Init => IInv
  BY IInvInit, Zenon
<1>2. IInv /\ [Next]_vars => IInv'
  BY IInvStep, Zenon
<1> QED BY <1>1, <1>2, PTL DEF Spec

-----------------------------------------------------------------------------
(* What follows from it. *)

(* Types, for any pool. *)
THEOREM TypeCorrect == Spec => []TypeOK
<1>1. IInv => TypeOK
  BY Zenon DEF IInv
<1> QED BY <1>1, Invariance, PTL

(* Racing submitters never push past queue_capacity, and no queued task is *)
(* lost or doubled.                                                        *)
THEOREM QueueStaysExact == Spec => []QueueExact
<1>1. IInv => QueueExact
  BY Zenon DEF IInv, TaskInv
<1> QED BY <1>1, Invariance, PTL

(* Every path through the pool gives back exactly the channel references it *)
(* took.                                                                    *)
THEOREM RefsStayBalanced == Spec => []RefsBalanced
<1>1. IInv => RefsBalanced
  BY Zenon DEF IInv, TaskInv
<1> QED BY <1>1, Invariance, PTL

LEMMA StrandedNow ==
  ASSUME IInv
  PROVE  NoTaskStranded
<1> SUFFICES ASSUME AllExited, NEW t \in Tasks, at[t] \in {"queued", "running"}
             PROVE  FALSE
  BY Zenon DEF NoTaskStranded
<1>1. at[t] # "running"
  <2>1. /\ at[t] = "running" => \E w \in Workers : cur[w] = t
        /\ \A w \in Workers : ~Running(w) => cur[w] = NoOne
    BY Zenon DEF IInv, TaskInv, CurInv
  <2>2. \A w \in Workers : ~Running(w)
    BY Zenon DEF AllExited, Running
  <2> QED BY <2>1, <2>2, PoolAssumption, Zenon
<1>2. queue # <<>>
  <2>1. t \in {queue[i] : i \in 1..Len(queue)}
    BY <1>1, Zenon DEF IInv, TaskInv, QueueExact
  <2> QED BY <2>1
<1> QED BY <1>2, Zenon DEF IInv, ExitInv, AllExited

(* The last worker to leave leaves no accepted task behind. *)
THEOREM Stranded == Spec => []NoTaskStranded
<1>1. IInv => NoTaskStranded
  BY StrandedNow, Zenon
<1> QED BY <1>1, Invariance, PTL

(* When the last drop_pool has returned, every worker thread has ended. *)
THEOREM Joined == Spec => []DropJoinsWorkers
<1>1. IInv => DropJoinsWorkers
  <2> SUFFICES ASSUME IInv, \A c \in Clients : pc[c] = "gone", NEW w \in Workers
               PROVE  pc[w] = "exited"
    BY Zenon DEF DropJoinsWorkers, AllExited
  <2>1. /\ names \subseteq Clients
        /\ \A c \in Clients : joining[c] # {} => pc[c] = "join"
        /\ \A c \in names : pc[c] # "gone"
        /\ \/ pc[w] = "exited" \/ w \in handles
           \/ \E c \in Clients : w \in joining[c]
        /\ names = {} /\ handles # {} =>
             \E c \in Clients : pc[c] \in {"abort", "store", "drain", "shut", "notify"}
    BY Zenon DEF IInv, TypeOK, JoinInv
  <2> QED BY <2>1, Zenon
<1> QED BY <1>1, Invariance, PTL

(* The queue, the references and the workers, together: what a pool keeps  *)
(* true on every path of pool_enqueue, pool_worker and close_pool.         *)
THEOREM Sound == Spec => []PoolSound
<1> QED BY TypeCorrect, QueueStaysExact, RefsStayBalanced, Joined, PTL DEF PoolSound

-----------------------------------------------------------------------------
(* Refinement of the task service.  Each step that moves a task is one step *)
(* of the service; WorkerExit is one when the last worker leaves; all other *)
(* steps stutter.                                                           *)

(* A step of one task from place a to place b, `taken` telling afterwards *)
(* whether it had been accepted.                                          *)
Legal == {<<"new", "offered">>, <<"offered", "released">>, <<"offered", "queued">>,
          <<"queued", "running">>, <<"running", "released">>, <<"drained", "released">>}
MoveOf(t, a, b) ==
  /\ <<a, b>> \in Legal
  /\ at[t] = a /\ at' = [at EXCEPT ![t] = b]
  /\ \A u \in Tasks \ {t} : u \in taken' <=> u \in taken
  /\ b = "released" => (t \in taken' <=> a # "offered")

(* All a moving step does to the tasks; no worker leaves by one. *)
TaskMove ==
  /\ \A w \in Workers : pc'[w] = "exited" <=> pc[w] = "exited"
  /\ sent' = sent
  /\ \/ \E t \in Tasks, a \in Places, b \in Places : MoveOf(t, a, b)
     \/ /\ at' = [t \in Tasks |-> IF at[t] = "queued" THEN "drained" ELSE at[t]]
        /\ taken' = taken
     \/ at' = at /\ taken' = taken

LEMMA TaskMoves ==
  ASSUME TypeOK, TaskInv, TaskStep
  PROVE  TaskMove
<1>a. /\ pc \in [Threads -> WorkerStates \cup ClientStates]
      /\ Workers \subseteq Threads /\ Clients \subseteq Threads
      /\ \A v \in Workers : v \notin Clients
  BY PoolAssumption, Zenon DEF TypeOK, Threads
<1>b. /\ \A v \in Workers : Running(v) => cur[v] \in Tasks /\ at[cur[v]] = "running"
      /\ \A d \in Clients : Offering(d) => cur[d] \in Tasks /\ at[cur[d]] = "offered"
      /\ \A t \in Tasks : at[t] = "offered" => t \notin taken
      /\ \A t \in Tasks : at[t] \in {"running", "drained"} => t \in taken
      /\ \A d \in Clients, t \in Tasks : t \in drained[d] => at[t] = "drained"
      /\ queue # <<>> => Head(queue) \in Tasks /\ at[Head(queue)] = "queued"
  BY HeadQueued, Zenon DEF TypeOK, TaskInv, CurInv, DrainInv, TakenInv
<1>c. ASSUME NEW t \in Tasks, NEW a, NEW b, MoveOf(t, a, b),
             \A w \in Workers : pc'[w] = "exited" <=> pc[w] = "exited", sent' = sent
      PROVE  TaskMove
  <2>1. a \in Places /\ b \in Places
    BY <1>c, Zenon DEF MoveOf, Legal, Places
  <2> QED BY <1>c, <2>1, Zenon DEF TaskMove
<1> USE <1>a, <1>b DEF syncVars, taskVars, ownVars
<1>1. ASSUME NEW w \in Workers, WorkerPop(w)
      PROVE  TaskMove
  <2>1. /\ MoveOf(Head(queue), "queued", "running") /\ Head(queue) \in Tasks
        /\ sent' = sent /\ \A v \in Workers : pc'[v] = "exited" <=> pc[v] = "exited"
    BY <1>1, Zenon DEF WorkerPop, Goto, MoveOf, Legal
  <2> QED BY <2>1, <1>c, Zenon
<1>2. ASSUME NEW w \in Workers, WorkerFinish(w)
      PROVE  TaskMove
  <2>1. /\ MoveOf(cur[w], "running", "released") /\ cur[w] \in Tasks
        /\ sent' = sent /\ \A v \in Workers : pc'[v] = "exited" <=> pc[v] = "exited"
    BY <1>2, Zenon DEF WorkerFinish, Dispose, WorkerRest, Goto, MoveOf, Legal, Running
  <2> QED BY <2>1, <1>c, Zenon
<1>3. ASSUME NEW c \in Clients, NEW t \in Tasks, NEW m \in Modes, Submit(c, t, m)
      PROVE  TaskMove
  <2>1. /\ MoveOf(t, "new", "offered")
        /\ sent' = sent /\ \A v \in Workers : pc'[v] = "exited" <=> pc[v] = "exited"
    BY <1>3, Zenon DEF Submit, Goto, MoveOf, Legal
  <2> QED BY <2>1, <1>c, Zenon
<1>4. ASSUME NEW c \in Clients, ClientFindsClosed(c) \/ FindsFull(c) \/ ExpiredGiveUp(c)
      PROVE  TaskMove
  <2>1. /\ MoveOf(cur[c], "offered", "released") /\ cur[c] \in Tasks
        /\ sent' = sent /\ \A v \in Workers : pc'[v] = "exited" <=> pc[v] = "exited"
    BY <1>4, Zenon DEF ClientFindsClosed, FindsFull, ExpiredGiveUp, ReleaseOffer, Dispose,
                Goto, MoveOf, Legal, Offering
  <2> QED BY <2>1, <1>c, Zenon
<1>5. ASSUME NEW c \in Clients, Push(c)
      PROVE  TaskMove
  <2>1. /\ MoveOf(cur[c], "offered", "queued") /\ cur[c] \in Tasks
        /\ sent' = sent /\ \A v \in Workers : pc'[v] = "exited" <=> pc[v] = "exited"
    BY <1>5, Zenon DEF Push, Enqueue, Goto, MoveOf, Legal, Offering
  <2> QED BY <2>1, <1>c, Zenon
<1>6. ASSUME NEW c \in Clients, Drain(c)
      PROVE  TaskMove
  BY <1>6, Zenon DEF Drain, Goto, TaskMove
<1>7. ASSUME NEW c \in Clients, NEW t \in Tasks, ReleaseDrained(c, t)
      PROVE  TaskMove
  <2>1. /\ MoveOf(t, "drained", "released")
        /\ sent' = sent /\ \A v \in Workers : pc'[v] = "exited" <=> pc[v] = "exited"
    BY <1>7, Zenon DEF ReleaseDrained, Dispose, MoveOf, Legal
  <2> QED BY <2>1, <1>c, Zenon
<1>8. ASSUME NEW t \in Tasks, DropResult(t)
      PROVE  TaskMove
  BY <1>8, Zenon DEF DropResult, TaskMove
<1> QED BY <1>1, <1>2, <1>3, <1>4, <1>5, <1>6, <1>7, <1>8, Zenon DEF TaskStep

(* A released task stays released, and its channel gets no further value. *)
ReleasedStays ==
  \A t \in Tasks : at[t] = "released" =>
    /\ at'[t] = "released"
    /\ t \in sent' <=> t \in sent

LEMMA ReleasedStep ==
  ASSUME IInv, [Next]_vars
  PROVE  ReleasedStays
<1>0. TypeOK /\ TaskInv
  BY Zenon DEF IInv
<1>1. CASE TaskFrame
  <2>1. \A w \in Workers : Running(w) => cur[w] \in Tasks /\ at[cur[w]] = "running"
    BY <1>0, Zenon DEF TaskInv, CurInv
  <2>2. /\ at' = at
        /\ sent' = sent \/ \E w \in Workers : Running(w) /\ sent' = sent \cup {cur[w]}
    BY <1>1, Zenon DEF TaskFrame
  <2> QED BY <2>1, <2>2, Zenon DEF ReleasedStays
<1>2. CASE TaskStep
  <2>1. TaskMove
    BY <1>0, <1>2, TaskMoves, Zenon
  <2> QED BY <1>0, <2>1, Zenon DEF TaskMove, MoveOf, Legal, ReleasedStays, TypeOK
<1> QED BY <1>0, <1>1, <1>2, FrameStep, Zenon

(* Every result channel is answered once: nothing is sent into it, and its *)
(* task is not touched, after it was released.                             *)
THEOREM Answered == Spec => AnsweredOnce
<1>1. IInv /\ [Next]_vars => [ReleasedStays]_vars
  BY ReleasedStep, Zenon
<1>2. Spec => [][ReleasedStays]_vars
  BY <1>1, Invariance, PTL DEF Spec
<1> QED BY <1>2, PTL DEF AnsweredOnce, ReleasedStays

LEMMA PhaseFrame ==
  ASSUME at' = at, taken' = taken
  PROVE  phaseMap' = phaseMap
BY Zenon DEF phaseMap

LEMMA PhaseMove ==
  ASSUME TypeOK, NEW t \in Tasks, NEW a \in Places, NEW b \in Places,
         at[t] = a, at' = [at EXCEPT ![t] = b],
         \A u \in Tasks \ {t} : u \in taken' <=> u \in taken
  PROVE  phaseMap' = [phaseMap EXCEPT ![t] = phaseMap'[t]]
<1>1. \A u \in Tasks \ {t} : at'[u] = at[u]
  BY Zenon DEF TypeOK
<1>2. \A u \in Tasks \ {t} : phaseMap'[u] = phaseMap[u]
  BY <1>1, Zenon DEF phaseMap
<1>3. phaseMap' = [u \in Tasks |-> phaseMap'[u]]
  BY Zenon DEF phaseMap
<1>4. phaseMap = [u \in Tasks |-> phaseMap[u]]
  BY Zenon DEF phaseMap
<1> QED BY <1>2, <1>3, <1>4, Zenon

(* One task moves while the set of workers that left stays the same. *)
LEMMA ServiceMove ==
  ASSUME IInv, IInv', NEW t \in Tasks, NEW a \in Places, NEW b \in Places,
         MoveOf(t, a, b), AllExited' <=> AllExited
  PROVE  Service!Next
<1>0. /\ at[t] = a /\ at' = [at EXCEPT ![t] = b] /\ <<a, b>> \in Legal
      /\ \A u \in Tasks \ {t} : u \in taken' <=> u \in taken
      /\ b = "released" => (t \in taken' <=> a # "offered")
  BY Zenon DEF MoveOf
<1>1. phaseMap' = [phaseMap EXCEPT ![t] = phaseMap'[t]]
  BY <1>0, PhaseMove, Zenon DEF IInv
<1>2. at'[t] = b
  BY <1>0, Zenon DEF IInv, TypeOK
<1>3. /\ phaseMap[t] = CASE a = "new" -> "unknown" [] a = "offered" -> "offered"
                         [] a = "queued" -> "taken" [] a = "running" -> "started"
                         [] OTHER -> "withdrawn"
      /\ phaseMap'[t] = CASE b = "offered" -> "offered" [] b = "queued" -> "taken"
                          [] b = "running" -> "started"
                          [] OTHER -> IF a = "offered" THEN "refused" ELSE "answered"
  BY <1>0, <1>2, Zenon DEF phaseMap, Legal
<1>4. b = "queued" => ~AllExited
  <2>1. NoTaskStranded'
    BY StrandedNow, PTL
  <2> QED BY <1>2, <2>1, Zenon DEF NoTaskStranded
<1>5. a = "queued" => ~AllExited
  BY <1>0, StrandedNow, Zenon DEF NoTaskStranded
<1> HIDE DEF phaseMap, AllExited, IInv
<1>6. AllExited' = AllExited
  BY Zenon DEF AllExited
<1> QED
  BY <1>0, <1>1, <1>3, <1>4, <1>5, <1>6, Zenon
  DEF Legal, Service!Next, Service!Move, Service!Take, Service!Start, Service!Answer

LEMMA ServiceStep ==
  ASSUME IInv, IInv', [Next]_vars
  PROVE  [Service!Next]_(Service!vars)
<1>0. TypeOK /\ LockInv /\ ExitInv /\ JoinInv /\ TaskInv
  BY Zenon DEF IInv
<1>e. (\E w \in Workers : WorkerExit(w)) \/ (AllExited' <=> AllExited)
  BY <1>0, ThreadStep, Zenon DEF ExitFrame, AllExited
<1>1. CASE TaskFrame
  <2>1. phaseMap' = phaseMap
    BY <1>1, PhaseFrame, Zenon DEF TaskFrame
  <2>2. CASE AllExited' <=> AllExited
    <3>1. AllExited' = AllExited
      BY <2>2, Zenon DEF AllExited
    <3> QED BY <2>1, <3>1, Zenon DEF Service!vars
  <2>3. CASE ~AllExited /\ AllExited'
    <3>1. NoTaskStranded'
      BY StrandedNow, PTL
    <3>2. \A t \in Tasks : at[t] \notin {"queued", "running"}
      BY <2>3, <3>1, <1>1, Zenon DEF NoTaskStranded, TaskFrame
    <3>3. \A t \in Tasks : phaseMap[t] \notin {"taken", "started"}
      BY <3>2, Zenon DEF phaseMap
    <3>4. AllExited' = TRUE
      BY <2>3, Zenon DEF AllExited
    <3> QED BY <2>1, <3>3, <3>4, Zenon DEF Service!Next, Service!Retire
  <2>4. CASE AllExited /\ ~AllExited'
    BY <2>4, <1>e, <1>0, Zenon DEF WorkerExit, Goto, AllExited, TypeOK, Threads
  <2> QED BY <2>2, <2>3, <2>4, Zenon
<1>2. CASE TaskStep
  <2>1. TaskMove
    BY <1>0, <1>2, TaskMoves, Zenon
  <2>2. AllExited' = AllExited
    BY <2>1, Zenon DEF TaskMove, AllExited
  <2>3. CASE \E t \in Tasks, a \in Places, b \in Places : MoveOf(t, a, b)
    BY <2>2, <2>3, ServiceMove, Zenon
  <2>4. CASE /\ at' = [t \in Tasks |-> IF at[t] = "queued" THEN "drained" ELSE at[t]]
             /\ taken' = taken
    <3>1. \A t \in Tasks : at'[t] = IF at[t] = "queued" THEN "drained" ELSE at[t]
      BY <2>4, Zenon
    <3>2. phaseMap' = [t \in Tasks |-> IF phaseMap[t] = "taken" THEN "withdrawn" ELSE phaseMap[t]]
      BY <1>0, <2>4, <3>1, Zenon DEF phaseMap, TypeOK, Places
    <3> QED BY <2>2, <3>2, Zenon DEF Service!Next, Service!Withdraw
  <2>5. CASE at' = at /\ taken' = taken
    BY <2>2, <2>5, PhaseFrame, Zenon DEF Service!vars
  <2> QED BY <2>1, <2>3, <2>4, <2>5, Zenon DEF TaskMove
<1> QED BY <1>0, <1>1, <1>2, FrameStep, Zenon

(* The pool is a task service, whatever its size. *)
THEOREM Implements == Spec => ImplementsService
<1>1. Init => Service!Init
  <2>1. Init => phaseMap = [t \in Tasks |-> "unknown"]
    BY Zenon DEF Init, phaseMap
  <2>2. AllExited \in BOOLEAN
    BY Zenon DEF AllExited
  <2> QED BY <2>1, <2>2, Zenon DEF Service!Init
<1>2. IInv /\ IInv' /\ [Next]_vars => [Service!Next]_(Service!vars)
  BY ServiceStep, Zenon
<1> QED BY <1>1, <1>2, Invariance, PTL DEF Spec, ImplementsService, Service!Spec
=============================================================================
