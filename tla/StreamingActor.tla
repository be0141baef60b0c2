--------------------------- MODULE StreamingActor ---------------------------
(***************************************************************************)
(* The server side of an SSE stream or a WebSocket session (src/net.rs).   *)
(* A StreamingSocketActor owns the socket: its thread takes commands from  *)
(* a bounded queue, writes heartbeats when the queue stays empty, and      *)
(* stops when it finds the actor cancelled or an operation of the socket   *)
(* fails.  The threads that hold a name of the stream submit one command   *)
(* at a time and wait for its answer; the server thread is one of them,    *)
(* sends the response headers, runs the handler and closes the stream.     *)
(*                                                                         *)
(* Closing and dropping keep the lock of the registry while they wait for  *)
(* the actor's thread, as the code does.                                   *)
(***************************************************************************)
EXTENDS Naturals, Sequences, FiniteSets, TLAPS

CONSTANTS Users, Server, Nobody,
          QueueCapacity,
          MaxCalls, MaxBeats     \* bounds on calls and heartbeats

Callers == Users \cup {Server}
ASSUME StreamAssumption ==
  /\ Nobody \notin Callers
  /\ QueueCapacity \in Nat /\ MaxCalls \in Nat /\ MaxBeats \in Nat

VARIABLES origin,       \* how the stream came about: "none", "sse", "ws", "tcp"
          entry,        \* it is registered
          names,        \* the threads that hold a name of it
          lock,         \* who holds the registry
          cancelled, shut, handle,      \* of the actor; handle: its thread is not joined yet
          queue, worker, cur, result,   \* the actor's thread and the command it works on
          wire,         \* the bytes on the socket: "whole", "torn", or "mixed" when more follows
          sent,         \* the callers whose current command has its frame on the wire
          beats, calls,
          pc, op, reply, then,          \* per caller
          closed        \* a close has returned

actor == <<cancelled, shut, handle>>
thread == <<queue, worker, cur, result, wire, sent, beats>>
stream == <<origin, entry, names, lock>>
vars == <<stream, actor, thread, calls, pc, op, reply, then, closed>>

TypeOK ==
  /\ origin \in {"none", "sse", "ws", "tcp"} /\ entry \in BOOLEAN
  /\ names \subseteq Callers /\ lock \in Callers \cup {Nobody}
  /\ cancelled \in BOOLEAN /\ shut \in BOOLEAN /\ handle \in BOOLEAN
  /\ queue \in Seq(Callers) /\ cur \in Callers \cup {Nobody}
  /\ worker \in {"none", "loop", "receive", "got", "send", "failed", "exited"}
  /\ result \in {"none", "ok", "failed"} /\ wire \in {"whole", "torn", "mixed"}
  /\ sent \subseteq Callers /\ beats \in 0..MaxBeats /\ calls \in 0..MaxCalls
  /\ pc \in [Callers -> {"accept", "parsed", "stopped", "idle", "enqueue", "wait",
                         "cancel", "shutdown", "take", "join", "closed"}]
  /\ op \in [Callers -> {"none", "event", "flush", "frame", "read", "close", "headers"}]
  /\ reply \in [Callers -> {"none", "ok", "failed", "gone"}]
  /\ then \in [Callers -> {"idle", "accept", "join", "answer"}]
  /\ closed \in BOOLEAN

Init ==
  /\ origin = "none" /\ entry = FALSE /\ names = {} /\ lock = Nobody
  /\ cancelled = FALSE /\ shut = FALSE /\ handle = FALSE
  /\ queue = <<>> /\ worker = "none" /\ cur = Nobody /\ result = "none"
  /\ wire = "whole" /\ sent = {} /\ beats = 0 /\ calls = 0
  /\ pc = [t \in Callers |-> IF t = Server THEN "accept" ELSE "idle"]
  /\ op = [t \in Callers |-> "none"] /\ reply = [t \in Callers |-> "none"]
  /\ then = [t \in Callers |-> "idle"]
  /\ closed = FALSE

Goto(t, l) == pc' = [pc EXCEPT ![t] = l]
Written == IF wire = "whole" THEN "whole" ELSE "mixed"
Torn == IF wire = "whole" THEN "torn" ELSE "mixed"
Busy(t) == pc[t] \notin {"idle", "accept", "parsed", "stopped"}

-----------------------------------------------------------------------------
(* The actor's thread. *)

(* An answer reaches a caller that still waits for it. *)
Answer(ts, r) == [t \in Callers |-> IF t \in ts /\ pc[t] = "wait" THEN r ELSE reply[t]]

(* The thread ends: the receiver goes, and with it the commands still in the
   queue and the senders of their answers. *)
Stop_keepsQueue ==
  /\ worker' = "exited" /\ queue' = <<>> /\ cur' = Nobody
  /\ reply' = Answer({cur}, "gone")

Stop ==
  /\ worker' = "exited" /\ queue' = <<>> /\ cur' = Nobody
  /\ reply' = Answer({cur} \cup {queue[i] : i \in DOMAIN queue}, "gone")

LoopCancelled ==
  /\ worker = "loop" /\ cancelled
  /\ Stop
  /\ UNCHANGED <<stream, actor, result, wire, sent, beats, calls, pc, op, then, closed>>

LoopGoesOn ==
  /\ worker = "loop" /\ ~ cancelled
  /\ worker' = "receive"
  /\ UNCHANGED <<stream, actor, queue, cur, result, wire, sent, beats, calls, pc, op, reply, then, closed>>

Receive ==
  /\ worker = "receive" /\ queue # <<>>
  /\ cur' = Head(queue) /\ queue' = Tail(queue)
  /\ worker' = "got"
  /\ UNCHANGED <<stream, actor, result, wire, sent, beats, calls, pc, op, reply, then, closed>>

(* The queue stayed empty for a while, and no heartbeat is due. *)
ReceiveTimeout ==
  /\ worker = "receive" /\ queue = <<>>
  /\ worker' = "loop"
  /\ UNCHANGED <<stream, actor, queue, cur, result, wire, sent, beats, calls, pc, op, reply, then, closed>>

(* write_due_streaming_heartbeat *)
Heartbeat ==
  /\ worker = "receive" /\ queue = <<>>
  /\ origin \in {"sse", "ws"} /\ beats < MaxBeats
  /\ \/ /\ ~ shut
        /\ wire' = Written /\ beats' = beats + 1
        /\ worker' = "loop" /\ UNCHANGED cancelled
     \/ /\ wire' \in {wire, Torn}
        /\ shut => wire' = wire
        /\ UNCHANGED beats
        /\ cancelled' = TRUE /\ worker' = "failed"
  /\ UNCHANGED <<stream, shut, handle, queue, cur, result, sent, calls, pc, op, reply, then, closed>>

GotCancelled ==
  /\ worker = "got" /\ cancelled
  /\ Stop
  /\ UNCHANGED <<stream, actor, result, wire, sent, beats, calls, pc, op, then, closed>>

(* handle_streaming_socket_command: the operation of the socket. *)
Handle ==
  /\ worker = "got" /\ ~ cancelled
  /\ worker' = "send"
  /\ \/ /\ ~ shut
        /\ result' = "ok"
        /\ IF op[cur] = "read" THEN UNCHANGED <<wire, sent>>
           ELSE wire' = Written /\ sent' = sent \cup {cur}
        /\ UNCHANGED cancelled
     \/ /\ result' = "failed"
        /\ wire' \in {wire, Torn}
        /\ (op[cur] = "read" \/ shut) => wire' = wire
        /\ UNCHANGED sent
        /\ cancelled' = (op[cur] = "read")
  /\ UNCHANGED <<stream, shut, handle, queue, cur, beats, calls, pc, op, reply, then, closed>>

(* The answer; a failed command ends the loop. *)
SendResult_goesOn ==
  /\ worker = "send"
  /\ reply' = Answer({cur}, result)
  /\ worker' = "loop" /\ cur' = Nobody /\ result' = "none"
  /\ UNCHANGED <<stream, actor, queue, wire, sent, beats, calls, pc, op, then, closed>>

SendResult ==
  /\ worker = "send"
  /\ reply' = Answer({cur}, result)
  /\ worker' = IF result = "ok" THEN "loop" ELSE "failed"
  /\ cur' = Nobody /\ result' = "none"
  /\ UNCHANGED <<stream, actor, queue, wire, sent, beats, calls, pc, op, then, closed>>

Failed ==
  /\ worker = "failed"
  /\ cancelled' = TRUE
  /\ Stop
  /\ UNCHANGED <<stream, shut, handle, result, wire, sent, beats, calls, pc, op, then, closed>>

-----------------------------------------------------------------------------
(* StreamingSocketActor: what a caller does.  A caller that answers with an
   error may cancel the actor first: a flag, then the shutdown. *)

(* Mutant: the last reference goes without a join. *)
Return_undropped(t) ==
  /\ Goto(t, IF then[t] = "accept" THEN "accept" ELSE "idle")
  /\ then' = [then EXCEPT ![t] = "idle"]
  /\ op' = [op EXCEPT ![t] = "none"] /\ reply' = [reply EXCEPT ![t] = "none"]

(* The end of a call.  Who gives up the last reference to the actor runs its
   drop, which cancels and joins like close. *)
Return(t) ==
  /\ LET last == ~ entry /\ handle /\ \A u \in Callers \ {t} : ~ Busy(u) IN
     IF last THEN Goto(t, "cancel") /\ then' = [then EXCEPT ![t] = "join"]
     ELSE /\ Goto(t, IF then[t] = "accept" THEN "accept" ELSE "idle")
          /\ then' = [then EXCEPT ![t] = "idle"]
  /\ op' = [op EXCEPT ![t] = "none"] /\ reply' = [reply EXCEPT ![t] = "none"]

(* After its command: back to the caller, or on with the close. *)
Answered(t) ==
  IF op[t] = "close"
  THEN /\ Goto(t, "cancel") /\ then' = [then EXCEPT ![t] = "join"]
       /\ op' = [op EXCEPT ![t] = "none"] /\ reply' = [reply EXCEPT ![t] = "none"]
  ELSE Return(t)

Enqueue(t) ==
  /\ pc[t] = "enqueue"
  /\ \/ /\ worker # "exited" /\ Len(queue) < QueueCapacity
        /\ queue' = Append(queue, t)
        /\ Goto(t, "wait") /\ UNCHANGED <<op, reply, then>>
     \/ /\ worker # "exited" /\ Len(queue) = QueueCapacity       \* full, and the deadline has passed
        /\ Goto(t, "cancel") /\ then' = [then EXCEPT ![t] = "answer"] /\ UNCHANGED <<queue, op, reply>>
     \/ /\ worker = "exited"
        /\ Answered(t) /\ UNCHANGED queue
  /\ UNCHANGED <<stream, actor, worker, cur, result, wire, sent, beats, calls, closed>>

GetReply(t) ==
  /\ pc[t] = "wait" /\ reply[t] # "none"
  /\ Answered(t)
  /\ UNCHANGED <<stream, actor, thread, calls, closed>>

(* The answer does not come in time. *)
TimeOut(t) ==
  /\ pc[t] = "wait" /\ reply[t] = "none"
  /\ Goto(t, "cancel") /\ then' = [then EXCEPT ![t] = "answer"]
  /\ UNCHANGED <<stream, actor, thread, calls, op, reply, closed>>

(* The flag alone, for the thread to find. *)
CancelFlag_only(t) ==
  /\ pc[t] = "cancel"
  /\ cancelled' = TRUE
  /\ Goto(t, IF then[t] = "join" THEN "closed" ELSE "shutdown")
  /\ UNCHANGED <<stream, shut, handle, thread, calls, op, reply, then, closed>>

CancelFlag(t) ==
  /\ pc[t] = "cancel"
  /\ cancelled' = TRUE
  /\ Goto(t, "shutdown")
  /\ UNCHANGED <<stream, shut, handle, thread, calls, op, reply, then, closed>>

Shutdown(t) ==
  /\ pc[t] = "shutdown"
  /\ shut' = TRUE
  /\ IF then[t] = "answer"
     THEN Answered(t)
     ELSE Goto(t, "take") /\ UNCHANGED <<op, reply, then>>
  /\ UNCHANGED <<stream, cancelled, handle, thread, calls, closed>>

(* close joins the thread if nobody did. *)
TakeHandle(t) ==
  /\ pc[t] = "take"
  /\ handle' = FALSE
  /\ Goto(t, IF handle THEN "join" ELSE "closed")
  /\ UNCHANGED <<stream, cancelled, shut, thread, calls, op, reply, then, closed>>

Join(t) ==
  /\ pc[t] = "join" /\ worker = "exited"
  /\ Goto(t, "closed")
  /\ UNCHANGED <<stream, actor, thread, calls, op, reply, then, closed>>

Closed(t) ==
  /\ pc[t] = "closed"
  /\ closed' = TRUE
  /\ IF lock = t THEN entry' = FALSE /\ lock' = Nobody ELSE UNCHANGED <<entry, lock>>
  /\ pc' = [pc EXCEPT ![t] = "idle"] /\ then' = [then EXCEPT ![t] = "idle"]
  /\ UNCHANGED <<origin, names, actor, thread, calls, op, reply>>

-----------------------------------------------------------------------------
(* Operations on a stream or a session. *)

(* Looking up the actor; a cancelled one refuses at once. *)
Call(t, o) ==
  /\ pc[t] = "idle" /\ t \in names /\ entry /\ lock = Nobody
  /\ calls < MaxCalls /\ calls' = calls + 1
  /\ ~ cancelled
  /\ op' = [op EXCEPT ![t] = o]
  /\ sent' = sent \ {t}
  /\ Goto(t, "enqueue")
  /\ UNCHANGED <<stream, actor, queue, worker, cur, result, wire, beats, reply, then, closed>>

SseStreamSend(t)  == origin # "ws" /\ Call(t, "event")
SseStreamFlush(t) == origin # "ws" /\ Call(t, "flush")
SessionSend(t)    == origin = "ws" /\ Call(t, "frame")
SessionReceive(t) == origin = "ws" /\ Call(t, "read")

SseStreamClose(t) ==
  /\ pc[t] = "idle" /\ t \in names /\ origin # "ws" /\ entry /\ lock = Nobody
  /\ lock' = t /\ entry' = FALSE /\ names' = names \ {t}
  /\ Goto(t, "cancel") /\ then' = [then EXCEPT ![t] = "join"]
  /\ UNCHANGED <<origin, actor, thread, calls, op, reply, closed>>

(* The close frame goes first, unless the actor is cancelled already. *)
SessionClose(t) ==
  /\ pc[t] = "idle" /\ t \in names /\ origin = "ws" /\ entry /\ lock = Nobody
  /\ lock' = t /\ names' = names \ {t}
  /\ IF cancelled
     THEN Goto(t, "cancel") /\ then' = [then EXCEPT ![t] = "join"] /\ UNCHANGED <<op, sent>>
     ELSE /\ Goto(t, "enqueue") /\ op' = [op EXCEPT ![t] = "close"] /\ UNCHANGED then
          /\ sent' = sent \ {t}
  /\ UNCHANGED <<origin, entry, actor, queue, worker, cur, result, wire, beats, calls, reply, closed>>

CopyName(t) ==
  /\ \E u \in names : u # t /\ pc[u] = "idle"
  /\ t \in Users \ names /\ pc[t] = "idle" /\ entry /\ lock = Nobody
  /\ names' = names \cup {t}
  /\ UNCHANGED <<origin, entry, lock, actor, thread, calls, pc, op, reply, then, closed>>

(* The last name closes the actor with the registry locked. *)
DropName(t) ==
  /\ pc[t] = "idle" /\ t \in names /\ lock = Nobody
  /\ names' = names \ {t}
  /\ IF names = {t} /\ entry
     THEN lock' = t /\ Goto(t, "cancel") /\ then' = [then EXCEPT ![t] = "join"]
     ELSE UNCHANGED <<lock, pc, then>>
  /\ UNCHANGED <<origin, entry, actor, thread, calls, op, reply, closed>>

-----------------------------------------------------------------------------
(* The server thread. *)

ReadRequest ==
  /\ pc[Server] = "accept" /\ origin = "none"
  /\ Goto(Server, "parsed")
  /\ UNCHANGED <<stream, actor, thread, calls, op, reply, then, closed>>

(* A request that is refused is answered on the socket; one that cannot be
   read ends the server. *)
Reject ==
  /\ pc[Server] = "parsed"
  /\ pc' \in {[pc EXCEPT ![Server] = "accept"], [pc EXCEPT ![Server] = "stopped"]}
  /\ UNCHANGED <<stream, actor, thread, calls, op, reply, then, closed>>

(* The actor starts and is asked to send the headers; the stream has no entry
   before they are sent. *)
Accept(p) ==
  /\ pc[Server] = "parsed"
  /\ origin' = p /\ worker' = "loop" /\ handle' = TRUE
  /\ Goto(Server, "enqueue") /\ op' = [op EXCEPT ![Server] = "headers"]
  /\ then' = [then EXCEPT ![Server] = "accept"]
  /\ UNCHANGED <<entry, names, lock, cancelled, shut, queue, cur, result, wire, sent, beats, calls, reply, closed>>

(* The headers are sent: the handler gets the stream. *)
HandlerStarts ==
  /\ pc[Server] = "wait" /\ op[Server] = "headers" /\ reply[Server] = "ok"
  /\ entry' = TRUE /\ names' = {Server}
  /\ Goto(Server, "idle")
  /\ op' = [op EXCEPT ![Server] = "none"] /\ reply' = [reply EXCEPT ![Server] = "none"]
  /\ then' = [then EXCEPT ![Server] = "idle"]
  /\ UNCHANGED <<origin, lock, actor, thread, calls, closed>>

FromTcp ==
  /\ pc[Server] = "accept" /\ origin = "none"
  /\ origin' = "tcp" /\ worker' = "loop" /\ handle' = TRUE
  /\ entry' = TRUE /\ names' = {Server}
  /\ Goto(Server, "idle")
  /\ UNCHANGED <<lock, cancelled, shut, queue, cur, result, wire, sent, beats, calls, op, reply, then, closed>>

-----------------------------------------------------------------------------
WorkerStep == LoopCancelled \/ LoopGoesOn \/ Receive \/ ReceiveTimeout \/ GotCancelled \/ Handle \/ SendResult \/ Failed

Proceed(t) ==
  \/ Enqueue(t) \/ CancelFlag(t) \/ Shutdown(t) \/ TakeHandle(t) \/ Join(t) \/ Closed(t)
  \/ (op[t] = "headers" => reply[t] # "ok") /\ GetReply(t)

Next ==
  \/ WorkerStep \/ Heartbeat
  \/ \E t \in Callers :
       \/ Proceed(t) \/ TimeOut(t)
       \/ SseStreamSend(t) \/ SseStreamFlush(t) \/ SessionSend(t) \/ SessionReceive(t)
       \/ SseStreamClose(t) \/ SessionClose(t) \/ CopyName(t) \/ DropName(t)
  \/ ReadRequest \/ Reject \/ HandlerStarts \/ FromTcp
  \/ \E p \in {"sse", "ws"} : Accept(p)

Spec == Init /\ [][Next]_vars

-----------------------------------------------------------------------------
(* What the peer sees is well formed: nothing follows a frame that was cut
   off, and a command is told "ok" only when its frame is on the wire. *)
WireSound ==
  /\ wire # "mixed"
  /\ \A t \in Callers : (reply[t] = "ok" /\ op[t] # "read") => t \in sent

(* Who gives up the last reference to an actor waits for its thread: with no
   entry and no call under way there is none left. *)
NoThreadLeft ==
  (~ entry /\ \A t \in Callers : ~ Busy(t)) => worker \in {"none", "exited"}

(* A stream is well typed, its bytes are well formed and acknowledged
   truthfully, and its thread does not outlive it. *)
StreamSound == TypeOK /\ WireSound /\ NoThreadLeft

(* Once a close has returned, in whichever thread, nothing is written. *)
QuietStep == closed => sent' \subseteq sent /\ wire' = wire /\ beats' = beats
QuietAfterClose == [][QuietStep]_vars

-----------------------------------------------------------------------------
(***************************************************************************)
(* The stream of a server keeps its promises, for any number of users,     *)
(* commands and heartbeats and any capacity of the queue.  The invariant   *)
(* says where a command can be: with its caller, in the queue or with the  *)
(* actor's thread, once, and only with a caller that waits for it or has   *)
(* given up, which cancels the actor before that caller may go on.         *)
(***************************************************************************)
Pending(t) == t = cur \/ \E i \in 1..Len(queue) : queue[i] = t

(* The actor's thread: what it works on, and what it may have torn. *)
ThreadInv ==
  /\ origin = "none" <=> worker = "none"
  /\ pc[Server] = "parsed" => origin = "none"
  /\ worker = "none" => names = {} /\ ~entry /\ \A t \in Callers : ~Busy(t)
  /\ worker \in {"got", "send"} <=> cur \in Callers
  /\ worker \in {"none", "exited"} => queue = <<>>
  /\ wire = "torn" => worker \in {"failed", "exited"} \/ (worker = "send" /\ result = "failed")
  /\ wire # "mixed"

(* No command is queued twice. *)
QueueInv ==
  /\ \A i \in 1..Len(queue) : queue[i] # cur
  /\ \A i, j \in 1..Len(queue) : queue[i] = queue[j] => i = j

(* Whose command is under way waits for it, or has given it up and cancels. *)
CommandInv ==
  /\ \A t \in Callers : Pending(t) =>
       \/ pc[t] = "wait" /\ reply[t] = "none"
       \/ pc[t] = "cancel"
       \/ cancelled /\ pc[t] \notin {"enqueue", "wait"}
  /\ \A t \in Callers : reply[t] # "none" => pc[t] = "wait"

(* An answer "ok", on its way or arrived, is about a frame on the wire. *)
AckInv ==
  /\ worker = "send" /\ result = "ok" /\ pc[cur] = "wait" => op[cur] = "read" \/ cur \in sent
  /\ \A t \in Callers : reply[t] = "ok" => op[t] = "read" \/ t \in sent

(* A close shuts the socket down before it joins, and somebody joins. *)
CloseInv ==
  /\ \A t \in Callers : pc[t] \in {"take", "join", "closed"} => shut
  /\ \A t \in Callers : pc[t] \in {"join", "closed"} => ~handle
  /\ closed => shut
  /\ worker \in {"none", "exited"} \/ handle \/ \E t \in Callers : pc[t] = "join"
  /\ handle /\ ~entry => \E t \in Callers : Busy(t)

IInv == TypeOK /\ ThreadInv /\ QueueInv /\ CommandInv /\ AckInv /\ CloseInv

-----------------------------------------------------------------------------
(* What the end of a call changes. *)
LEMMA AnsweredMoves ==
  ASSUME TypeOK, NEW t \in Callers, Answered(t)
  PROVE  /\ pc'[t] \in {"cancel", "accept", "idle"} /\ then'[t] \in {"join", "idle"}
         /\ op'[t] = "none" /\ reply'[t] = "none"
         /\ \A u \in Callers \ {t} : /\ pc'[u] = pc[u] /\ then'[u] = then[u]
                                     /\ op'[u] = op[u] /\ reply'[u] = reply[u]
         /\ ~entry /\ handle => pc'[t] = "cancel" \/ \E u \in Callers \ {t} : Busy(u)
         /\ DOMAIN pc' = Callers /\ DOMAIN then' = Callers
         /\ DOMAIN op' = Callers /\ DOMAIN reply' = Callers
  BY DEF TypeOK, Answered, Return, Goto

LEMMA AnsweredType ==
  ASSUME TypeOK, NEW t \in Callers, Answered(t)
  PROVE  /\ pc' \in [Callers -> {"accept", "parsed", "stopped", "idle", "enqueue", "wait",
                                 "cancel", "shutdown", "take", "join", "closed"}]
         /\ op' \in [Callers -> {"none", "event", "flush", "frame", "read", "close", "headers"}]
         /\ reply' \in [Callers -> {"none", "ok", "failed", "gone"}]
         /\ then' \in [Callers -> {"idle", "accept", "join", "answer"}]
<1>1. /\ \E l \in {"cancel", "accept", "idle"} : pc' = [pc EXCEPT ![t] = l]
      /\ \E n \in {"join", "idle"} : then' = [then EXCEPT ![t] = n]
      /\ op' = [op EXCEPT ![t] = "none"] /\ reply' = [reply EXCEPT ![t] = "none"]
  BY Zenon DEF Answered, Return, Goto
<1>2. pc' \in [Callers -> {"accept", "parsed", "stopped", "idle", "enqueue", "wait",
                           "cancel", "shutdown", "take", "join", "closed"}]
  BY <1>1 DEF TypeOK
<1>3. then' \in [Callers -> {"idle", "accept", "join", "answer"}]
  BY <1>1 DEF TypeOK
<1> QED BY <1>1, <1>2, <1>3 DEF TypeOK

(* Who is left waiting when the thread ends is told so. *)
LEMMA StopMoves ==
  ASSUME TypeOK, Stop
  PROVE  /\ worker' = "exited" /\ queue' = <<>> /\ cur' = Nobody
         /\ reply' \in [Callers -> {"none", "ok", "failed", "gone"}]
         /\ \A t \in Callers : reply'[t] = reply[t] \/ (pc[t] = "wait" /\ reply'[t] = "gone")
  BY Zenon DEF TypeOK, Stop, Answer

LEMMA TypeInit ==
  ASSUME Init
  PROVE  TypeOK
<1>1. queue \in Seq(Callers) /\ beats \in 0..MaxBeats /\ calls \in 0..MaxCalls
  BY StreamAssumption DEF Init
<1>2. pc \in [Callers -> {"accept", "parsed", "stopped", "idle", "enqueue", "wait",
                          "cancel", "shutdown", "take", "join", "closed"}]
  BY Zenon DEF Init
<1> QED BY <1>1, <1>2, Zenon DEF Init, TypeOK

LEMMA TypeStep ==
  ASSUME TypeOK, ThreadInv, [Next]_vars
  PROVE  TypeOK'
<1> USE StreamAssumption DEF actor, thread, stream
<1>1. CASE UNCHANGED vars
  BY <1>1 DEF TypeOK, vars
<1>2. CASE WorkerStep
  <2>1. CASE LoopCancelled \/ GotCancelled \/ Failed
    <3>1. Stop /\ UNCHANGED <<stream, shut, handle, result, wire, sent, beats, calls, pc, op, then, closed>>
      BY <2>1, Zenon DEF LoopCancelled, GotCancelled, Failed
    <3>2. cancelled' \in BOOLEAN
      BY <2>1, Zenon DEF TypeOK, LoopCancelled, GotCancelled, Failed
    <3>3. /\ worker' = "exited" /\ queue' \in Seq(Callers) /\ cur' = Nobody
          /\ reply' \in [Callers -> {"none", "ok", "failed", "gone"}]
      BY <3>1, StopMoves
    <3> QED BY <3>1, <3>2, <3>3 DEF TypeOK
  <2>2. CASE LoopGoesOn \/ ReceiveTimeout
    BY <2>2 DEF TypeOK, LoopGoesOn, ReceiveTimeout
  <2>3. CASE Receive
    BY <2>3 DEF TypeOK, Receive
  <2>4. CASE Handle
    <3>1. cancelled' \in BOOLEAN
      BY <2>4, Zenon DEF TypeOK, Handle
    <3>2. wire' \in {"whole", "torn", "mixed"} /\ result' \in {"none", "ok", "failed"}
      BY <2>4, Zenon DEF TypeOK, Handle, Written, Torn
    <3>3. sent' \subseteq Callers
      BY <2>4 DEF TypeOK, ThreadInv, Handle
    <3> QED BY <2>4, <3>1, <3>2, <3>3 DEF TypeOK, Handle
  <2>5. CASE SendResult
    BY <2>5 DEF TypeOK, SendResult, Answer
  <2> QED BY <1>2, <2>1, <2>2, <2>3, <2>4, <2>5, Zenon DEF WorkerStep
<1>3. CASE Heartbeat
  <2>1. cancelled' \in BOOLEAN /\ worker' \in {"loop", "failed"}
    BY <1>3, Zenon DEF TypeOK, Heartbeat
  <2>2. wire' \in {"whole", "torn", "mixed"} /\ beats' \in 0..MaxBeats
    BY <1>3 DEF TypeOK, Heartbeat, Written, Torn
  <2> QED BY <1>3, <2>1, <2>2 DEF TypeOK, Heartbeat
<1>4. ASSUME NEW t \in Callers, Proceed(t)
      PROVE  TypeOK'
  <2>1. CASE Enqueue(t)
    <3>1. queue' \in Seq(Callers)
      BY <2>1 DEF TypeOK, Enqueue
    <3>2. CASE Answered(t)
      BY <2>1, <3>1, <3>2, AnsweredType DEF TypeOK, Enqueue
    <3>3. CASE ~Answered(t)
      BY <2>1, <3>1, <3>3 DEF TypeOK, Enqueue, Goto
    <3> QED BY <3>2, <3>3, Zenon
  <2>2. CASE CancelFlag(t)
    BY <2>2 DEF TypeOK, CancelFlag, Goto
  <2>3. CASE Shutdown(t)
    BY <2>3, AnsweredType DEF TypeOK, Shutdown, Goto
  <2>4. CASE TakeHandle(t)
    <3>1. pc' \in [Callers -> {"accept", "parsed", "stopped", "idle", "enqueue", "wait",
                               "cancel", "shutdown", "take", "join", "closed"}]
      BY <2>4, Zenon DEF TypeOK, TakeHandle, Goto
    <3>2. handle' \in BOOLEAN
      BY <2>4, Zenon DEF TakeHandle
    <3> QED BY <2>4, <3>1, <3>2 DEF TypeOK, TakeHandle
  <2>5. CASE Join(t)
    BY <2>5 DEF TypeOK, Join, Goto
  <2>6. CASE Closed(t)
    <3>1. entry' \in BOOLEAN /\ lock' \in Callers \cup {Nobody} /\ closed' \in BOOLEAN
      BY <2>6, Zenon DEF TypeOK, Closed
    <3> QED BY <2>6, <3>1 DEF TypeOK, Closed
  <2>7. CASE GetReply(t)
    BY <2>7, AnsweredType DEF TypeOK, GetReply
  <2> QED BY <1>4, <2>1, <2>2, <2>3, <2>4, <2>5, <2>6, <2>7, Zenon DEF Proceed
<1>5. ASSUME NEW t \in Callers, TimeOut(t)
      PROVE  TypeOK'
  BY <1>5 DEF TypeOK, TimeOut, Goto
<1>6. ASSUME NEW t \in Callers, NEW o \in {"event", "flush", "frame", "read"}, Call(t, o)
      PROVE  TypeOK'
  BY <1>6 DEF TypeOK, Call, Goto
<1>7. ASSUME NEW t \in Callers, SseStreamClose(t)
      PROVE  TypeOK'
  <2>1. entry' \in BOOLEAN /\ lock' \in Callers \cup {Nobody} /\ names' \subseteq Callers
    BY <1>7, Zenon DEF TypeOK, SseStreamClose
  <2> QED BY <1>7, <2>1 DEF TypeOK, SseStreamClose, Goto
<1>8. ASSUME NEW t \in Callers, SessionClose(t)
      PROVE  TypeOK'
  BY <1>8 DEF TypeOK, SessionClose, Goto
<1>9. ASSUME NEW t \in Callers, CopyName(t) \/ DropName(t)
      PROVE  TypeOK'
  BY <1>9 DEF TypeOK, CopyName, DropName, Goto
<1>10. CASE ReadRequest \/ Reject
  BY <1>10 DEF TypeOK, ReadRequest, Reject, Goto
<1>11. CASE HandlerStarts \/ FromTcp
  <2>1. entry' \in BOOLEAN /\ handle' \in BOOLEAN /\ names' \subseteq Callers
    BY <1>11, Zenon DEF TypeOK, HandlerStarts, FromTcp, Callers
  <2>2. CASE HandlerStarts
    BY <2>1, <2>2 DEF TypeOK, HandlerStarts, Goto
  <2>3. CASE FromTcp
    BY <2>1, <2>3 DEF TypeOK, FromTcp, Goto
  <2> QED BY <1>11, <2>2, <2>3, Zenon
<1>12. ASSUME NEW p \in {"sse", "ws"}, Accept(p)
       PROVE  TypeOK'
  BY <1>12, ZenonT(30) DEF TypeOK, Accept, Goto
<1> QED BY <1>1, <1>2, <1>3, <1>4, <1>5, <1>6, <1>7, <1>8, <1>9, <1>10, <1>11, <1>12, Zenon
        DEF Next, SseStreamSend, SseStreamFlush, SessionSend, SessionReceive

LEMMA ThreadStep ==
  ASSUME TypeOK, ThreadInv, [Next]_vars
  PROVE  ThreadInv'
<1> USE StreamAssumption DEF actor, thread, stream
<1>s. Server \in Callers
  BY Zenon DEF Callers
(* The callers leave the thread alone. *)
<1>1. ASSUME UNCHANGED <<origin, worker, cur, queue, result, wire>>,
             pc'[Server] = "parsed" => pc[Server] = "parsed" \/ origin = "none",
             worker = "none" => names' = {} /\ ~entry' /\ \A t \in Callers : ~Busy(t)'
      PROVE  ThreadInv'
  BY <1>1, Zenon DEF ThreadInv
<1>b. ASSUME UNCHANGED <<origin, worker, cur, queue, result, wire>>,
             pc'[Server] = "parsed" => pc[Server] = "parsed",
             NEW t \in Callers, Busy(t) \/ t \in names
      PROVE  ThreadInv'
  BY <1>b, <1>1, Zenon DEF ThreadInv
<1>2. CASE UNCHANGED vars
  BY <1>1, <1>2, Zenon DEF vars, ThreadInv, Busy
<1>3. CASE WorkerStep
  <2>1. CASE LoopCancelled \/ GotCancelled \/ Failed
    <3>1. UNCHANGED <<origin, wire, pc>> /\ Stop /\ worker # "none" /\ worker # "send"
      BY <2>1, Zenon DEF LoopCancelled, GotCancelled, Failed
    <3> QED BY <3>1, StopMoves, Zenon DEF ThreadInv
  <2>2. CASE LoopGoesOn \/ ReceiveTimeout
    BY <2>2, Zenon DEF ThreadInv, LoopGoesOn, ReceiveTimeout
  <2>3. CASE Receive
    <3>1. cur' \in Callers
      BY <2>3 DEF TypeOK, Receive
    <3> QED BY <2>3, <3>1, Zenon DEF ThreadInv, Receive
  <2>4. CASE Handle
    <3>1. wire = "whole"
      BY <2>4, Zenon DEF TypeOK, ThreadInv, Handle
    <3>2. wire' # "mixed" /\ (wire' = "torn" => result' = "failed")
      BY <2>4, <3>1, Zenon DEF Handle, Written, Torn
    <3> QED BY <2>4, <3>2, Zenon DEF ThreadInv, Handle
  <2>5. CASE SendResult
    BY <2>5, Zenon DEF ThreadInv, SendResult
  <2> QED BY <1>3, <2>1, <2>2, <2>3, <2>4, <2>5, Zenon DEF WorkerStep
<1>4. CASE Heartbeat
  <2>1. wire = "whole"
    BY <1>4, Zenon DEF TypeOK, ThreadInv, Heartbeat
  <2>2. wire' # "mixed" /\ (wire' = "torn" => worker' = "failed") /\ worker' \in {"loop", "failed"}
    BY <1>4, <2>1, Zenon DEF Heartbeat, Written, Torn
  <2> QED BY <1>4, <2>2, Zenon DEF ThreadInv, Heartbeat
<1>5. ASSUME NEW t \in Callers, Proceed(t)
      PROVE  ThreadInv'
  <2>1. CASE Enqueue(t)
    <3>1. /\ pc'[Server] = "parsed" => pc[Server] = "parsed"
          /\ UNCHANGED <<origin, worker, cur, result, wire>>
      BY <1>s, <2>1, AnsweredMoves DEF TypeOK, Enqueue, Goto
    <3>2. CASE UNCHANGED queue
      BY <1>b, <2>1, <3>1, <3>2, Zenon DEF Enqueue, Busy
    <3>3. CASE ~UNCHANGED queue
      <4>1. worker # "exited" /\ worker # "none"
        BY <2>1, <3>3, Zenon DEF ThreadInv, Enqueue, Busy
      <4> QED BY <3>1, <4>1, Zenon DEF ThreadInv
    <3> QED BY <3>2, <3>3, Zenon
  <2>2. CASE CancelFlag(t) \/ TakeHandle(t) \/ Join(t)
    BY <1>s, <1>b, <2>2 DEF TypeOK, CancelFlag, TakeHandle, Join, Goto, Busy
  <2>3. CASE Shutdown(t)
    BY <1>s, <1>b, <2>3, AnsweredMoves DEF TypeOK, Shutdown, Goto, Busy
  <2>4. CASE Closed(t)
    BY <1>s, <1>b, <2>4, Zenon DEF TypeOK, Closed, Busy
  <2>5. CASE GetReply(t)
    BY <1>s, <1>b, <2>5, AnsweredMoves, Zenon DEF GetReply, Busy
  <2> QED BY <1>5, <2>1, <2>2, <2>3, <2>4, <2>5, Zenon DEF Proceed
<1>6. ASSUME NEW t \in Callers, TimeOut(t)
      PROVE  ThreadInv'
  BY <1>s, <1>b, <1>6, Zenon DEF TypeOK, TimeOut, Goto, Busy
<1>7. ASSUME NEW t \in Callers, NEW o \in {"event", "flush", "frame", "read"}, Call(t, o)
      PROVE  ThreadInv'
  BY <1>s, <1>b, <1>7, Zenon DEF TypeOK, Call, Goto
<1>8. ASSUME NEW t \in Callers, SseStreamClose(t) \/ SessionClose(t)
      PROVE  ThreadInv'
  BY <1>s, <1>b, <1>8 DEF TypeOK, SseStreamClose, SessionClose, Goto
<1>9. ASSUME NEW t \in Callers, CopyName(t) \/ DropName(t)
      PROVE  ThreadInv'
  <2>1. CASE CopyName(t)
    <3>1. PICK u \in names : TRUE
      BY <2>1, Zenon DEF CopyName
    <3>2. u \in Callers
      BY <3>1, Zenon DEF TypeOK
    <3> QED BY <1>b, <2>1, <3>2, Zenon DEF CopyName
  <2>2. CASE DropName(t)
    BY <1>s, <1>b, <2>2 DEF TypeOK, DropName, Goto
  <2> QED BY <1>9, <2>1, <2>2, Zenon
<1>10. CASE ReadRequest \/ Reject
  BY <1>s, <1>1, <1>10 DEF TypeOK, ThreadInv, ReadRequest, Reject, Goto, Busy
<1>11. CASE HandlerStarts
  BY <1>s, <1>b, <1>11, Zenon DEF TypeOK, HandlerStarts, Goto, Busy
<1>12. ASSUME NEW p \in {"sse", "ws", "tcp"}, origin' = p, worker = "none",
              worker' = "loop", UNCHANGED <<cur, queue, wire>>, pc'[Server] # "parsed"
       PROVE  ThreadInv'
  BY <1>12, Zenon DEF ThreadInv
<1>13. CASE FromTcp
  BY <1>s, <1>12, <1>13, Zenon DEF TypeOK, ThreadInv, FromTcp, Goto
<1>14. ASSUME NEW p \in {"sse", "ws"}, Accept(p)
       PROVE  ThreadInv'
  BY <1>s, <1>12, <1>14, Zenon DEF TypeOK, ThreadInv, Accept, Goto
<1> QED BY <1>2, <1>3, <1>4, <1>5, <1>6, <1>7, <1>8, <1>9, <1>10, <1>11, <1>13, <1>14, Zenon
        DEF Next, SseStreamSend, SseStreamFlush, SessionSend, SessionReceive

-----------------------------------------------------------------------------
LEMMA TailFacts ==
  ASSUME NEW S, NEW q \in Seq(S), q # <<>>
  PROVE  /\ Len(q) \in Nat /\ Len(q) > 0 /\ Len(Tail(q)) = Len(q) - 1
         /\ \A i \in 1..Len(q) - 1 : Tail(q)[i] = q[i + 1]
         /\ Head(q) = q[1]
  OBVIOUS

(* Who submits a command has none under way. *)
LEMMA EnqueueFresh ==
  ASSUME TypeOK, CommandInv, NEW t \in Callers, pc[t] = "enqueue"
  PROVE  ~Pending(t) /\ reply[t] = "none"
  BY Zenon DEF CommandInv

(* Only submitting, receiving, answering and stopping touch the queue. *)
LEMMA QueueKept ==
  ASSUME [Next]_vars, ~Receive, ~SendResult, ~Stop, \A t \in Callers : ~Enqueue(t)
  PROVE  UNCHANGED <<queue, cur>>
<1> USE DEF actor, thread, stream
<1>1. CASE WorkerStep \/ Heartbeat
  BY <1>1, Zenon DEF WorkerStep, Heartbeat, LoopCancelled, LoopGoesOn, ReceiveTimeout, GotCancelled,
              Handle, Failed
<1>2. ASSUME NEW t \in Callers, Proceed(t) \/ TimeOut(t)
      PROVE  UNCHANGED <<queue, cur>>
  BY <1>2, Zenon DEF Proceed, CancelFlag, Shutdown, TakeHandle, Join, Closed, GetReply, TimeOut
<1>3. ASSUME NEW t \in Callers, NEW o, Call(t, o)
      PROVE  UNCHANGED <<queue, cur>>
  BY <1>3, Zenon DEF Call
<1>4. ASSUME NEW t \in Callers,
             SseStreamClose(t) \/ SessionClose(t) \/ CopyName(t) \/ DropName(t)
      PROVE  UNCHANGED <<queue, cur>>
  BY <1>4, Zenon DEF SseStreamClose, SessionClose, CopyName, DropName
<1>5. CASE ReadRequest \/ Reject \/ HandlerStarts \/ FromTcp
  BY <1>5, Zenon DEF ReadRequest, Reject, HandlerStarts, FromTcp
<1>6. ASSUME NEW p, Accept(p)
      PROVE  UNCHANGED <<queue, cur>>
  BY <1>6, Zenon DEF Accept
<1> QED BY <1>1, <1>2, <1>3, <1>4, <1>5, <1>6, Zenon
        DEF Next, vars, SseStreamSend, SseStreamFlush, SessionSend, SessionReceive

LEMMA QueueStep ==
  ASSUME TypeOK, QueueInv, CommandInv, [Next]_vars
  PROVE  QueueInv'
<1>1. CASE UNCHANGED <<queue, cur>>
  BY <1>1, Zenon DEF QueueInv
<1>2. CASE Stop
  BY <1>2 DEF Stop, QueueInv
<1>3. CASE Receive
  <2>1. cur' = Head(queue) /\ queue' = Tail(queue) /\ queue # <<>>
    BY <1>3, Zenon DEF Receive
  <2>2. \A i \in 1..Len(queue') : i + 1 \in 1..Len(queue) /\ queue'[i] = queue[i + 1]
    BY <2>1, TailFacts DEF TypeOK
  <2>3. cur' = queue[1] /\ 1 \in 1..Len(queue)
    BY <2>1, TailFacts DEF TypeOK
  <2>4. ASSUME NEW i \in 1..Len(queue'), queue'[i] = cur'
        PROVE  FALSE
    BY <2>2, <2>3, <2>4 DEF QueueInv
  <2>5. ASSUME NEW i \in 1..Len(queue'), NEW j \in 1..Len(queue'), queue'[i] = queue'[j]
        PROVE  i = j
    <3>1. i + 1 = j + 1
      BY <2>2, <2>5, Zenon DEF QueueInv
    <3> QED BY <3>1
  <2> QED BY <2>4, <2>5, Zenon DEF QueueInv
<1>4. CASE SendResult
  <2>1. queue' = queue /\ cur' = Nobody
    BY <1>4, Zenon DEF SendResult
  <2>2. \A i \in 1..Len(queue) : queue[i] # Nobody
    BY StreamAssumption DEF TypeOK
  <2> QED BY <2>1, <2>2, Zenon DEF QueueInv
<1>5. ASSUME NEW t \in Callers, Enqueue(t)
      PROVE  QueueInv'
  <2>1. CASE queue' = queue
    BY <1>1, <1>5, <2>1, Zenon DEF Enqueue
  <2>2. CASE queue' # queue
    <3>1. queue' = Append(queue, t) /\ cur' = cur /\ ~Pending(t)
      BY <1>5, <2>2, EnqueueFresh, Zenon DEF Enqueue
    <3>2. /\ Len(queue) \in Nat /\ Len(queue') = Len(queue) + 1
          /\ queue'[Len(queue) + 1] = t
          /\ \A i \in 1..Len(queue) : queue'[i] = queue[i]
      BY <3>1 DEF TypeOK
    <3>3. \A i \in 1..Len(queue') : i \in 1..Len(queue) \/ i = Len(queue) + 1
      BY <3>2
    <3>4. ASSUME NEW i \in 1..Len(queue')
          PROVE  queue'[i] # cur'
      BY <3>1, <3>2, <3>3, Zenon DEF Pending, QueueInv
    <3>5. ASSUME NEW i \in 1..Len(queue'), NEW j \in 1..Len(queue'), queue'[i] = queue'[j]
          PROVE  i = j
      BY <3>1, <3>2, <3>3, <3>5, Zenon DEF Pending, QueueInv
    <3> QED BY <3>4, <3>5, Zenon DEF QueueInv
  <2> QED BY <2>1, <2>2, Zenon
<1> QED BY <1>1, <1>2, <1>3, <1>4, <1>5, QueueKept, Zenon

LEMMA CommandStep ==
  ASSUME TypeOK, ThreadInv, QueueInv, CommandInv, [Next]_vars
  PROVE  CommandInv'
<1> USE StreamAssumption DEF actor, thread, stream
<1>s. Server \in Callers
  BY Zenon DEF Callers
(* The thread may take commands away, and answers those who wait. *)
<1>1. ASSUME pc' = pc, cancelled => cancelled',
             \A u \in Callers : Pending(u)' => Pending(u) /\ reply'[u] = reply[u],
             \A u \in Callers : reply'[u] = reply[u] \/ pc[u] = "wait"
      PROVE  CommandInv'
  BY <1>1, Zenon DEF CommandInv
(* A caller moves: if its command is still under way it cancels, or has. *)
<1>2. ASSUME NEW t \in Callers, UNCHANGED <<queue, cur>>, cancelled => cancelled',
             \A u \in Callers \ {t} : pc'[u] = pc[u] /\ reply'[u] = reply[u],
             reply'[t] = "none",
             Pending(t) => pc'[t] = "cancel" \/ (cancelled' /\ pc'[t] \notin {"enqueue", "wait"})
      PROVE  CommandInv'
  <2>1. \A u \in Callers : Pending(u)' <=> Pending(u)
    BY <1>2, Zenon DEF Pending
  <2> QED BY <1>2, <2>1, Zenon DEF CommandInv
(* Who neither waits nor has just given up has a command under way only in   *)
(* a cancelled actor; without an answer nothing is left to forget.           *)
<1>3. ASSUME NEW t \in Callers, pc[t] \notin {"wait", "cancel"}
      PROVE  (Pending(t) => cancelled) /\ reply[t] = "none"
  BY <1>3, Zenon DEF CommandInv
<1>4. CASE UNCHANGED vars
  <2>1. \A u \in Callers : Pending(u)' <=> Pending(u)
    BY <1>4, Zenon DEF vars, Pending
  <2> QED BY <1>1, <1>4, <2>1, Zenon DEF vars
<1>5. CASE WorkerStep \/ Heartbeat
  <2>1. pc' = pc /\ (cancelled => cancelled')
    BY <1>5 DEF WorkerStep, Heartbeat, LoopCancelled, LoopGoesOn, Receive, ReceiveTimeout,
                GotCancelled, Handle, SendResult, Failed
  <2>2. CASE Stop
    <3>1. \A u \in Callers : ~Pending(u)'
      BY <2>2 DEF Stop, Pending
    <3> QED BY <1>1, <2>1, <2>2, <3>1, StopMoves, Zenon
  <2>3. CASE Receive
    <3>1. cur' = Head(queue) /\ queue' = Tail(queue) /\ queue # <<>> /\ reply' = reply
      BY <2>3, Zenon DEF Receive
    <3>2. \A i \in 1..Len(queue') : i + 1 \in 1..Len(queue) /\ queue'[i] = queue[i + 1]
      BY <3>1, TailFacts DEF TypeOK
    <3>3. cur' = queue[1] /\ 1 \in 1..Len(queue)
      BY <3>1, TailFacts DEF TypeOK
    <3>4. \A u \in Callers : Pending(u)' => Pending(u)
      BY <3>2, <3>3, Zenon DEF Pending
    <3> QED BY <1>1, <2>1, <3>1, <3>4, Zenon
  <2>4. CASE SendResult
    <3>1. /\ queue' = queue /\ cur' = Nobody
          /\ \A u \in Callers : reply'[u] = reply[u] \/ (u = cur /\ pc[u] = "wait")
      BY <2>4, Zenon DEF TypeOK, SendResult, Answer
    <3>2. \A u \in Callers : Pending(u)' => Pending(u) /\ u # cur
      BY <3>1, Zenon DEF Pending, QueueInv
    <3> QED BY <1>1, <2>1, <3>1, <3>2, Zenon
  <2>5. CASE UNCHANGED <<queue, cur, reply>>
    <3>1. \A u \in Callers : Pending(u)' <=> Pending(u)
      BY <2>5, Zenon DEF Pending
    <3> QED BY <1>1, <2>1, <2>5, <3>1, Zenon
  <2> QED BY <1>5, <2>2, <2>3, <2>4, <2>5, Zenon
          DEF WorkerStep, LoopCancelled, LoopGoesOn, ReceiveTimeout, GotCancelled, Handle,
              Failed, Heartbeat
<1>6. ASSUME NEW t \in Callers, Enqueue(t)
      PROVE  CommandInv'
  <2>1. pc[t] = "enqueue" /\ ~Pending(t) /\ reply[t] = "none" /\ cancelled' = cancelled
    BY <1>6, EnqueueFresh, Zenon DEF Enqueue
  <2>2. CASE Answered(t) /\ queue' = queue
    BY <1>2, <1>6, <2>1, <2>2, AnsweredMoves DEF Enqueue
  <2>3. CASE queue' = Append(queue, t) /\ Goto(t, "wait") /\ UNCHANGED <<op, reply, then>>
    <3>1. pc'[t] = "wait" /\ \A u \in Callers \ {t} : pc'[u] = pc[u]
      BY <2>3, Zenon DEF TypeOK, Goto
    <3>2. \A i \in 1..Len(queue') : queue'[i] = t \/ (i \in 1..Len(queue) /\ queue'[i] = queue[i])
      BY <2>3 DEF TypeOK
    <3>3. \A u \in Callers \ {t} : Pending(u)' => Pending(u)
      BY <1>6, <3>2, Zenon DEF Pending, Enqueue
    <3> QED BY <2>1, <2>3, <3>1, <3>3, Zenon DEF CommandInv
  <2>4. CASE Goto(t, "cancel") /\ UNCHANGED <<queue, op, reply>>
    BY <1>2, <1>6, <2>1, <2>4 DEF TypeOK, Enqueue, Goto
  <2> QED BY <1>6, <2>2, <2>3, <2>4, Zenon DEF Enqueue
<1>7. ASSUME NEW t \in Callers, Proceed(t), ~Enqueue(t)
      PROVE  CommandInv'
  <2>1. CASE CancelFlag(t)
    <3>1. reply[t] = "none"
      BY <2>1, Zenon DEF CancelFlag, CommandInv
    <3> QED BY <1>2, <2>1, <3>1, Zenon DEF TypeOK, CancelFlag, Goto
  <2>2. CASE Shutdown(t)
    <3>1. (Pending(t) => cancelled) /\ reply[t] = "none" /\ cancelled' = cancelled
      BY <1>3, <2>2, Zenon DEF Shutdown
    <3>2. CASE Answered(t)
      BY <1>2, <2>2, <3>1, <3>2, AnsweredMoves DEF Shutdown
    <3>3. CASE ~Answered(t)
      <4>1. /\ pc'[t] = "take" /\ UNCHANGED <<queue, cur, reply>>
            /\ \A u \in Callers \ {t} : pc'[u] = pc[u]
        BY <2>2, <3>3, Zenon DEF TypeOK, Shutdown, Goto
      <4> QED BY <1>2, <3>1, <4>1, Zenon
    <3> QED BY <3>2, <3>3, Zenon
  <2>3. CASE TakeHandle(t) \/ Join(t)
    <3>1. (Pending(t) => cancelled) /\ reply[t] = "none"
      BY <1>3, <2>3, Zenon DEF TakeHandle, Join
    <3> QED BY <1>2, <2>3, <3>1, Zenon DEF TypeOK, TakeHandle, Join, Goto
  <2>4. CASE Closed(t)
    <3>1. (Pending(t) => cancelled) /\ reply[t] = "none"
      BY <1>3, <2>4, Zenon DEF Closed
    <3> QED BY <1>2, <2>4, <3>1, Zenon DEF TypeOK, Closed
  <2>5. CASE GetReply(t)
    <3>1. ~Pending(t)
      BY <2>5, Zenon DEF GetReply, CommandInv
    <3> QED BY <1>2, <2>5, <3>1, AnsweredMoves, Zenon DEF GetReply
  <2> QED BY <1>7, <2>1, <2>2, <2>3, <2>4, <2>5, Zenon DEF Proceed
<1>8. ASSUME NEW t \in Callers, TimeOut(t)
      PROVE  CommandInv'
  BY <1>2, <1>8, Zenon DEF TypeOK, TimeOut, Goto
<1>9. ASSUME NEW t \in Callers, pc[t] = "idle", UNCHANGED <<queue, cur, reply, cancelled>>,
             \A u \in Callers \ {t} : pc'[u] = pc[u],
             pc'[t] \in {"idle", "cancel"} \/ (pc'[t] = "enqueue" /\ ~cancelled)
      PROVE  CommandInv'
  BY <1>2, <1>3, <1>9, Zenon
<1>10. ASSUME NEW t \in Callers, NEW o, Call(t, o)
       PROVE  CommandInv'
  BY <1>9, <1>10, Zenon DEF TypeOK, Call, Goto
<1>11. ASSUME NEW t \in Callers, SseStreamClose(t) \/ SessionClose(t)
       PROVE  CommandInv'
  BY <1>9, <1>11 DEF TypeOK, SseStreamClose, SessionClose, Goto
<1>12. ASSUME NEW t \in Callers, CopyName(t) \/ DropName(t)
       PROVE  CommandInv'
  BY <1>9, <1>12 DEF TypeOK, CopyName, DropName, Goto
<1>13. CASE ReadRequest \/ Reject \/ FromTcp
  <2>1. (Pending(Server) => cancelled) /\ reply[Server] = "none"
    BY <1>s, <1>3, <1>13, Zenon DEF ReadRequest, Reject, FromTcp
  <2> QED BY <1>s, <1>2, <1>13, <2>1 DEF TypeOK, ReadRequest, Reject, FromTcp, Goto
<1>14. CASE HandlerStarts
  <2>1. ~Pending(Server)
    BY <1>s, <1>14, Zenon DEF HandlerStarts, CommandInv
  <2> QED BY <1>s, <1>2, <1>14, <2>1, Zenon DEF TypeOK, HandlerStarts, Goto
<1>15. ASSUME NEW p \in {"sse", "ws"}, Accept(p)
       PROVE  CommandInv'
  <2>1. ~Pending(Server)
    BY <1>s, <1>15 DEF Accept, ThreadInv, Pending
  <2>2. reply[Server] = "none"
    BY <1>s, <1>3, <1>15, Zenon DEF Accept
  <2> QED BY <1>s, <1>2, <1>15, <2>1, <2>2, Zenon DEF TypeOK, Accept, Goto
<1> QED BY <1>4, <1>5, <1>6, <1>7, <1>8, <1>10, <1>11, <1>12, <1>13, <1>14, <1>15, Zenon
        DEF Next, SseStreamSend, SseStreamFlush, SessionSend, SessionReceive

LEMMA AckStep ==
  ASSUME TypeOK, ThreadInv, CommandInv, AckInv, [Next]_vars
  PROVE  AckInv'
<1> USE StreamAssumption DEF actor, thread, stream
<1>s. Server \in Callers
  BY Zenon DEF Callers
(* A caller moves: it forgets its answer and waits for no other yet. *)
<1>1. ASSUME NEW t \in Callers, UNCHANGED <<worker, cur, result>>,
             \A u \in Callers \ {t} : /\ pc'[u] = pc[u] /\ reply'[u] = reply[u] /\ op'[u] = op[u]
                                      /\ u \in sent => u \in sent',
             reply'[t] # "ok", pc'[t] # "wait"
      PROVE  AckInv'
  BY <1>1, Zenon DEF ThreadInv, AckInv
<1>2. CASE UNCHANGED vars
  BY <1>2, Zenon DEF vars, AckInv
<1>3. CASE WorkerStep \/ Heartbeat
  <2>1. UNCHANGED <<pc, op>> /\ sent \subseteq sent'
    BY <1>3, Zenon DEF WorkerStep, Heartbeat, LoopCancelled, LoopGoesOn, Receive, ReceiveTimeout,
                GotCancelled, Handle, SendResult, Failed
  <2>2. CASE Stop
    BY <2>1, <2>2, StopMoves, Zenon DEF AckInv
  <2>3. CASE Handle
    <3>1. reply' = reply /\ cur' = cur
      BY <2>3, Zenon DEF Handle
    <3>2. result' = "ok" => op[cur] = "read" \/ cur \in sent'
      BY <2>3, Zenon DEF Handle
    <3> QED BY <2>1, <3>1, <3>2, Zenon DEF AckInv
  <2>4. CASE SendResult
    <3>1. worker' # "send" /\ sent' = sent /\ worker = "send"
      BY <2>4, Zenon DEF SendResult
    <3>2. \A u \in Callers : reply'[u] = reply[u] \/ (u = cur /\ pc[u] = "wait" /\ reply'[u] = result)
      BY <2>4, Zenon DEF TypeOK, SendResult, Answer
    <3> QED BY <2>1, <3>1, <3>2, Zenon DEF AckInv
  <2>5. CASE worker' # "send" /\ reply' = reply
    BY <2>1, <2>5, Zenon DEF AckInv
  <2> QED BY <1>3, <2>2, <2>3, <2>4, <2>5, Zenon
          DEF WorkerStep, LoopCancelled, LoopGoesOn, Receive, ReceiveTimeout, GotCancelled,
              Failed, Heartbeat
<1>4. ASSUME NEW t \in Callers, Enqueue(t)
      PROVE  AckInv'
  <2>1. pc[t] = "enqueue" /\ ~Pending(t) /\ reply[t] = "none" /\ UNCHANGED <<worker, cur, result, sent>>
    BY <1>4, EnqueueFresh, Zenon DEF Enqueue
  <2>2. CASE Answered(t)
    BY <1>1, <2>1, <2>2, AnsweredMoves
  <2>3. CASE ~Answered(t)
    <3>1. UNCHANGED <<op, reply>> /\ \A u \in Callers \ {t} : pc'[u] = pc[u]
      BY <1>4, <2>3, Zenon DEF TypeOK, Enqueue, Goto
    <3>2. t # cur
      BY <2>1, Zenon DEF Pending
    <3> QED BY <2>1, <3>1, <3>2, Zenon DEF ThreadInv, AckInv
  <2> QED BY <2>2, <2>3, Zenon
<1>5. ASSUME NEW t \in Callers, Proceed(t), ~Enqueue(t)
      PROVE  AckInv'
  <2>1. CASE CancelFlag(t) \/ TakeHandle(t) \/ Join(t)
    <3>1. reply[t] = "none"
      BY <2>1, Zenon DEF CommandInv, CancelFlag, TakeHandle, Join
    <3> QED BY <1>1, <2>1, <3>1, Zenon DEF TypeOK, CancelFlag, TakeHandle, Join, Goto
  <2>2. CASE Closed(t)
    <3>1. reply[t] = "none"
      BY <2>2, Zenon DEF CommandInv, Closed
    <3> QED BY <1>1, <2>2, <3>1, Zenon DEF TypeOK, Closed
  <2>3. CASE Shutdown(t)
    <3>1. reply[t] = "none" /\ UNCHANGED <<worker, cur, result, sent>>
      BY <2>3, Zenon DEF CommandInv, Shutdown
    <3>2. CASE Answered(t)
      BY <1>1, <3>1, <3>2, AnsweredMoves
    <3>3. CASE ~Answered(t)
      BY <1>1, <2>3, <3>1, <3>3, Zenon DEF TypeOK, Shutdown, Goto
    <3> QED BY <3>2, <3>3, Zenon
  <2>4. CASE GetReply(t)
    BY <1>1, <2>4, AnsweredMoves DEF GetReply
  <2> QED BY <1>5, <2>1, <2>2, <2>3, <2>4, Zenon DEF Proceed
<1>6. ASSUME NEW t \in Callers, TimeOut(t)
      PROVE  AckInv'
  BY <1>1, <1>6, Zenon DEF TypeOK, TimeOut, Goto
<1>7. ASSUME NEW t \in Callers, pc[t] = "idle"
      PROVE  reply[t] = "none"
  BY <1>7, Zenon DEF CommandInv
<1>8. ASSUME NEW t \in Callers, NEW o, Call(t, o)
      PROVE  AckInv'
  BY <1>1, <1>7, <1>8, Zenon DEF TypeOK, Call, Goto
<1>9. ASSUME NEW t \in Callers, SseStreamClose(t) \/ SessionClose(t)
      PROVE  AckInv'
  BY <1>1, <1>7, <1>9 DEF TypeOK, SseStreamClose, SessionClose, Goto
<1>10. ASSUME NEW t \in Callers, CopyName(t) \/ DropName(t)
       PROVE  AckInv'
  BY <1>1, <1>7, <1>10 DEF TypeOK, CopyName, DropName, Goto
<1>11. CASE ReadRequest \/ Reject
  <2>1. reply[Server] = "none"
    BY <1>s, <1>11, Zenon DEF CommandInv, ReadRequest, Reject
  <2> QED BY <1>s, <1>1, <1>11, <2>1, Zenon DEF TypeOK, ReadRequest, Reject, Goto
<1>12. CASE HandlerStarts
  BY <1>s, <1>1, <1>12 DEF TypeOK, HandlerStarts, Goto
<1>13. CASE FromTcp
  <2>1. reply[Server] = "none" /\ worker' # "send" /\ UNCHANGED <<reply, op, sent>>
    BY <1>s, <1>13, Zenon DEF CommandInv, FromTcp
  <2> QED BY <2>1, Zenon DEF AckInv
<1>14. ASSUME NEW p \in {"sse", "ws"}, Accept(p)
       PROVE  AckInv'
  <2>1. reply[Server] = "none" /\ worker' # "send" /\ UNCHANGED <<reply, sent>>
    BY <1>s, <1>14, Zenon DEF CommandInv, Accept
  <2>2. \A u \in Callers \ {Server} : op'[u] = op[u]
    BY <1>14, Zenon DEF TypeOK, Accept
  <2> QED BY <2>1, <2>2, Zenon DEF AckInv
<1> QED BY <1>2, <1>3, <1>4, <1>5, <1>6, <1>8, <1>9, <1>10, <1>11, <1>12, <1>13, <1>14, Zenon
        DEF Next, SseStreamSend, SseStreamFlush, SessionSend, SessionReceive

LEMMA CloseStep ==
  ASSUME TypeOK, ThreadInv, CloseInv, [Next]_vars
  PROVE  CloseInv'
<1> USE StreamAssumption DEF actor, thread, stream
<1>s. Server \in Callers
  BY Zenon DEF Callers
(* A caller moves, does not end a join, and leaves nobody's thread behind. *)
<1>1. ASSUME NEW t \in Callers, UNCHANGED <<worker, handle, closed>>, shut => shut',
             \A u \in Callers \ {t} : pc'[u] = pc[u],
             pc[t] # "join", pc'[t] \notin {"join", "closed"}, pc'[t] = "take" => shut',
             entry' = entry \/ Busy(t)',
             Busy(t)' \/ ~Busy(t) \/ (~entry /\ handle => \E u \in Callers \ {t} : Busy(u))
      PROVE  CloseInv'
  <2>1. \A u \in Callers \ {t} : Busy(u)' <=> Busy(u)
    BY <1>1, Zenon DEF Busy
  <2>2. \A u \in Callers : pc[u] = "join" => pc'[u] = "join"
    BY <1>1, Zenon
  <2>3. handle' /\ ~entry' => \E u \in Callers : Busy(u)'
    BY <1>1, <2>1 DEF CloseInv
  <2>4. worker' \in {"none", "exited"} \/ handle' \/ \E u \in Callers : pc'[u] = "join"
    BY <1>1, <2>2, Zenon DEF CloseInv
  <2>5. \A u \in Callers : /\ pc'[u] \in {"take", "join", "closed"} => shut'
                           /\ pc'[u] \in {"join", "closed"} => ~handle'
    BY <1>1, Zenon DEF CloseInv
  <2> QED BY <1>1, <2>3, <2>4, <2>5, Zenon DEF CloseInv
<1>2. ASSUME UNCHANGED <<pc, shut, handle, entry, closed>>,
             worker' = "exited" \/ worker \notin {"none", "exited"} \/ worker' = worker
      PROVE  CloseInv'
  BY <1>2, Zenon DEF CloseInv, Busy
<1>3. CASE UNCHANGED vars
  BY <1>2, <1>3, Zenon DEF vars
<1>4. CASE WorkerStep
  BY <1>2, <1>4, Zenon DEF WorkerStep, LoopCancelled, LoopGoesOn, Receive, ReceiveTimeout,
                    GotCancelled, Handle, SendResult, Failed, Stop
<1>5. CASE Heartbeat
  BY <1>2, <1>5, Zenon DEF Heartbeat
<1>6. ASSUME NEW t \in Callers, Enqueue(t)
      PROVE  CloseInv'
  <2>1. UNCHANGED <<worker, handle, closed, shut, entry>> /\ pc[t] = "enqueue"
    BY <1>6, Zenon DEF Enqueue
  <2>2. CASE Answered(t)
    BY <1>1, <2>1, <2>2, AnsweredMoves DEF Busy
  <2>3. CASE ~Answered(t)
    BY <1>1, <1>6, <2>1, <2>3 DEF TypeOK, Enqueue, Goto, Busy
  <2> QED BY <2>2, <2>3, Zenon
<1>7. ASSUME NEW t \in Callers, CancelFlag(t)
      PROVE  CloseInv'
  BY <1>1, <1>7, Zenon DEF TypeOK, CancelFlag, Goto, Busy
<1>8. ASSUME NEW t \in Callers, Shutdown(t)
      PROVE  CloseInv'
  <2>1. UNCHANGED <<worker, handle, closed, entry>> /\ shut' /\ pc[t] = "shutdown"
    BY <1>8, Zenon DEF Shutdown
  <2>2. CASE Answered(t)
    BY <1>1, <2>1, <2>2, AnsweredMoves DEF Busy
  <2>3. CASE ~Answered(t)
    BY <1>1, <1>8, <2>1, <2>3 DEF TypeOK, Shutdown, Goto, Busy
  <2> QED BY <2>2, <2>3, Zenon
<1>9. ASSUME NEW t \in Callers, TakeHandle(t)
      PROVE  CloseInv'
  <2>1. /\ UNCHANGED <<worker, shut, closed, entry>> /\ ~handle' /\ pc[t] = "take"
        /\ pc'[t] = (IF handle THEN "join" ELSE "closed")
        /\ \A u \in Callers \ {t} : pc'[u] = pc[u]
    BY <1>9, Zenon DEF TypeOK, TakeHandle, Goto
  <2>2. worker' \in {"none", "exited"} \/ \E u \in Callers : pc'[u] = "join"
    BY <2>1, Zenon DEF CloseInv
  <2> QED BY <2>1, <2>2, Zenon DEF CloseInv
<1>10. ASSUME NEW t \in Callers, Join(t)
       PROVE  CloseInv'
  <2>1. /\ UNCHANGED <<worker, shut, closed, entry, handle>> /\ pc[t] = "join" /\ pc'[t] = "closed"
        /\ worker = "exited" /\ \A u \in Callers \ {t} : pc'[u] = pc[u]
    BY <1>10, Zenon DEF TypeOK, Join, Goto
  <2> QED BY <2>1, Zenon DEF CloseInv
<1>11. ASSUME NEW t \in Callers, Closed(t)
       PROVE  CloseInv'
  <2>1. /\ UNCHANGED <<worker, shut, handle>> /\ closed' /\ pc[t] = "closed" /\ pc'[t] = "idle"
        /\ \A u \in Callers \ {t} : pc'[u] = pc[u]
    BY <1>11, Zenon DEF TypeOK, Closed
  <2>2. worker' \in {"none", "exited"} \/ handle' \/ \E u \in Callers : pc'[u] = "join"
    BY <2>1, Zenon DEF CloseInv
  <2> QED BY <2>1, <2>2, Zenon DEF CloseInv
<1>12. ASSUME NEW t \in Callers, GetReply(t)
       PROVE  CloseInv'
  BY <1>1, <1>12, AnsweredMoves DEF GetReply, Busy
<1>13. ASSUME NEW t \in Callers, TimeOut(t)
       PROVE  CloseInv'
  BY <1>1, <1>13, Zenon DEF TypeOK, TimeOut, Goto, Busy
<1>14. ASSUME NEW t \in Callers, NEW o, Call(t, o)
       PROVE  CloseInv'
  BY <1>1, <1>14, Zenon DEF TypeOK, Call, Goto, Busy
<1>15. ASSUME NEW t \in Callers, SseStreamClose(t) \/ SessionClose(t)
       PROVE  CloseInv'
  BY <1>1, <1>15 DEF TypeOK, SseStreamClose, SessionClose, Goto, Busy
<1>16. ASSUME NEW t \in Callers, CopyName(t) \/ DropName(t)
       PROVE  CloseInv'
  BY <1>1, <1>16 DEF TypeOK, CopyName, DropName, Goto, Busy
<1>17. CASE ReadRequest \/ Reject
  BY <1>s, <1>1, <1>17 DEF TypeOK, ReadRequest, Reject, Goto, Busy
(* The stream comes about: its thread can be joined and is named by somebody. *)
<1>18. ASSUME worker = "none", handle', entry' \/ Busy(Server)', UNCHANGED <<shut, closed>>,
              \A u \in Callers \ {Server} : pc'[u] = pc[u], pc'[Server] \in {"idle", "enqueue"}
       PROVE  CloseInv'
  <2>1. \A u \in Callers : pc'[u] \notin {"take", "join", "closed"}
    BY <1>18, Zenon DEF ThreadInv, Busy
  <2> QED BY <1>s, <1>18, <2>1, Zenon DEF CloseInv
<1>19. CASE HandlerStarts
  <2>1. /\ UNCHANGED <<worker, shut, closed, handle>> /\ entry'
        /\ pc[Server] = "wait" /\ pc'[Server] = "idle"
        /\ \A u \in Callers \ {Server} : pc'[u] = pc[u]
    BY <1>s, <1>19, Zenon DEF TypeOK, HandlerStarts, Goto
  <2>2. worker' \in {"none", "exited"} \/ handle' \/ \E u \in Callers : pc'[u] = "join"
    BY <1>s, <2>1, Zenon DEF CloseInv
  <2> QED BY <1>s, <2>1, <2>2, Zenon DEF CloseInv
<1>20. CASE FromTcp
  BY <1>s, <1>18, <1>20, Zenon DEF TypeOK, ThreadInv, FromTcp, Goto
<1>21. ASSUME NEW p \in {"sse", "ws"}, Accept(p)
       PROVE  CloseInv'
  BY <1>s, <1>18, <1>21 DEF TypeOK, ThreadInv, Accept, Goto, Busy
<1> QED BY <1>3, <1>4, <1>5, <1>6, <1>7, <1>8, <1>9, <1>10, <1>11, <1>12, <1>13, <1>14, <1>15,
           <1>16, <1>17, <1>19, <1>20, <1>21, Zenon
        DEF Next, Proceed, SseStreamSend, SseStreamFlush, SessionSend, SessionReceive

-----------------------------------------------------------------------------
(* The inductive invariant holds in every reachable state. *)
THEOREM Inductive == Spec => []IInv
<1>1. Init => IInv
  <2>1. ASSUME Init
        PROVE  ThreadInv /\ QueueInv /\ CommandInv /\ AckInv /\ CloseInv
    <3>1. ThreadInv /\ QueueInv
      BY <2>1, StreamAssumption DEF Init, ThreadInv, QueueInv, Busy, Callers
    <3>2. CommandInv /\ AckInv /\ CloseInv
      BY <2>1, StreamAssumption DEF Init, CommandInv, AckInv, CloseInv, Pending
    <3> QED BY <3>1, <3>2, Zenon
  <2> QED BY <2>1, TypeInit, Zenon DEF IInv
<1>2. IInv /\ [Next]_vars => IInv'
  BY TypeStep, ThreadStep, QueueStep, CommandStep, AckStep, CloseStep, Zenon DEF IInv
<1> QED BY <1>1, <1>2, PTL DEF Spec

(* Whatever the number of users and commands and wherever timeouts, failures *)
(* and closes fall: nothing follows a frame that was cut off, a command is   *)
(* told "ok" only once its frame is on the wire, and an actor that nobody    *)
(* refers to has no thread.                                                  *)
THEOREM Sound == Spec => []StreamSound
<1>1. ASSUME IInv PROVE StreamSound
  <2>1. WireSound
    BY <1>1, Zenon DEF IInv, ThreadInv, AckInv, WireSound
  <2>2. NoThreadLeft
    <3>1. ASSUME ~entry, \A t \in Callers : ~Busy(t)
          PROVE  worker \in {"none", "exited"}
      BY <1>1, <3>1, Zenon DEF IInv, CloseInv, Busy
    <3> QED BY <3>1, Zenon DEF NoThreadLeft
  <2> QED BY <1>1, <2>1, <2>2, Zenon DEF IInv, StreamSound
<1> QED BY <1>1, Inductive, PTL

(* Once a close has returned in any thread, the actor's thread writes no     *)
(* frame, no part of one and no heartbeat.                                   *)
THEOREM Quiet == Spec => QuietAfterClose
<1>1. ASSUME IInv, [Next]_vars PROVE [QuietStep]_vars
  <2> USE DEF actor, thread, stream
  <2>1. SUFFICES ASSUME closed
                 PROVE  sent' \subseteq sent /\ wire' = wire /\ beats' = beats
    BY Zenon DEF QuietStep
  <2>2. shut
    BY <1>1, <2>1, Zenon DEF IInv, CloseInv
  <2>3. CASE UNCHANGED vars
    BY <2>3, Zenon DEF vars
  <2>4. CASE WorkerStep \/ Heartbeat
    BY <2>2, <2>4, Zenon DEF WorkerStep, Heartbeat, LoopCancelled, LoopGoesOn, Receive, ReceiveTimeout,
                      GotCancelled, Handle, SendResult, Failed
  <2>5. ASSUME NEW t \in Callers, Proceed(t) \/ TimeOut(t)
        PROVE  sent' \subseteq sent /\ wire' = wire /\ beats' = beats
    BY <2>5, Zenon DEF Proceed, Enqueue, CancelFlag, Shutdown, TakeHandle, Join, Closed, GetReply, TimeOut
  <2>6. ASSUME NEW t \in Callers, NEW o, Call(t, o)
        PROVE  sent' \subseteq sent /\ wire' = wire /\ beats' = beats
    BY <2>6, Zenon DEF Call
  <2>7. ASSUME NEW t \in Callers,
               SseStreamClose(t) \/ SessionClose(t) \/ CopyName(t) \/ DropName(t)
        PROVE  sent' \subseteq sent /\ wire' = wire /\ beats' = beats
    BY <2>7, Zenon DEF SseStreamClose, SessionClose, CopyName, DropName
  <2>8. CASE ReadRequest \/ Reject \/ HandlerStarts \/ FromTcp
    BY <2>8, Zenon DEF ReadRequest, Reject, HandlerStarts, FromTcp
  <2>9. ASSUME NEW p, Accept(p)
        PROVE  sent' \subseteq sent /\ wire' = wire /\ beats' = beats
    BY <2>9, Zenon DEF Accept
  <2> QED BY <1>1, <2>3, <2>4, <2>5, <2>6, <2>7, <2>8, <2>9, Zenon
          DEF Next, SseStreamSend, SseStreamFlush, SessionSend, SessionReceive
<1> QED BY <1>1, Inductive, PTL DEF Spec, QuietAfterClose
=============================================================================
