---------------------------- MODULE Http3Server -----------------------------
(***************************************************************************)
(* The blocking HTTP/3 listener (Http3ServerTransport, src/net.rs).        *)
(* serve_one hands a command to the listener's thread through a queue of   *)
(* QueueCapacity and waits for its reply; the thread accepts one           *)
(* connection, runs the handler on it and answers under the command's      *)
(* timeout, which the waits inside can end but the handler cannot.  The    *)
(* connections of answered requests are kept, SessionCapacity at most, so  *)
(* that their responses can leave.  Dropping the listener needs every      *)
(* serve_one to have returned (it borrows the listener).                   *)
(***************************************************************************)
EXTENDS Naturals, Sequences

CONSTANTS Servers, MaxServed, QueueCapacity, SessionCapacity, None

VARIABLES
  listener,   \* "bound", "dropping", "dropped"
  commands,   \* the sender exists
  queue, current, stage,
  pc, reply, handled, answered,   \* per serve_one call
  served,     \* calls begun
  sessions,   \* the calls whose connections are kept
  worker      \* the listener's thread

vars == <<listener, commands, queue, current, stage, pc, reply, handled, answered,
          served, sessions, worker>>

TypeOK ==
  /\ listener \in {"unbound", "refused", "bound", "dropping", "dropped"} /\ commands \in BOOLEAN
  /\ queue \in Seq(Servers) /\ current \in Servers \cup {None}
  /\ stage \in {"idle", "accept", "body", "handler", "respond"}
  /\ pc \in [Servers -> {"idle", "send", "wait"}]
  /\ reply \in [Servers -> {"none", "ok", "error"}]
  /\ handled \in [Servers -> Nat] /\ answered \in [Servers -> Nat]
  /\ served \in 0..MaxServed /\ sessions \in Seq(Servers) /\ worker \in {"none", "running", "ended"}

Init ==
  /\ listener = "unbound" /\ commands = FALSE
  /\ queue = <<>> /\ current = None /\ stage = "idle"
  /\ pc = [c \in Servers |-> "idle"] /\ reply = [c \in Servers |-> "none"]
  /\ handled = [c \in Servers |-> 0] /\ answered = [c \in Servers |-> 0]
  /\ served = 0 /\ sessions = <<>> /\ worker = "none"

\* The certificates, the key and the address make an endpoint, or they do not.
setup_http3_server_endpoint == BOOLEAN

\* bind: the thread reports its address or its error before bind returns.
Bind ==
  /\ listener = "unbound"
  /\ \E ok \in setup_http3_server_endpoint :
       /\ listener' = IF ok THEN "bound" ELSE "refused"
       /\ commands' = ok
       /\ worker' = IF ok THEN "running" ELSE "ended"
  /\ UNCHANGED <<queue, current, stage, pc, reply, handled, answered, served, sessions>>

\* A zero timeout is refused before anything is queued.
ServeOne(c) ==
  /\ listener = "bound" /\ pc[c] = "idle" /\ served < MaxServed
  /\ served' = served + 1
  /\ pc' = [pc EXCEPT ![c] = "send"]
  /\ handled' = [handled EXCEPT ![c] = 0] /\ answered' = [answered EXCEPT ![c] = 0]
  /\ UNCHANGED <<listener, commands, queue, current, stage, reply, sessions, worker>>

Send(c) ==
  /\ pc[c] = "send" /\ Len(queue) < QueueCapacity
  /\ queue' = Append(queue, c) /\ pc' = [pc EXCEPT ![c] = "wait"]
  /\ UNCHANGED <<listener, commands, current, stage, reply, handled, answered, served,
                 sessions, worker>>

Returned(c) ==
  /\ pc[c] = "wait" /\ reply[c] # "none"
  /\ pc' = [pc EXCEPT ![c] = "idle"] /\ reply' = [reply EXCEPT ![c] = "none"]
  /\ UNCHANGED <<listener, commands, queue, current, stage, handled, answered, served,
                 sessions, worker>>

(***************************************************************************)
(* The listener's thread.                                                  *)
(***************************************************************************)
Take ==
  /\ worker = "running" /\ current = None /\ queue # <<>>
  /\ current' = Head(queue) /\ queue' = Tail(queue) /\ stage' = "accept"
  /\ UNCHANGED <<listener, commands, pc, reply, handled, answered, served, sessions, worker>>

\* The command ends: its reply is sent and the thread goes back to the queue.
Finish(result) ==
  /\ reply' = [reply EXCEPT ![current] = result]
  /\ current' = None /\ stage' = "idle"

\* A connection with its HTTP/3 handshake and request headers, or an error.
Accept ==
  /\ stage = "accept"
  /\ \/ stage' = "body" /\ UNCHANGED <<current, reply>>
     \/ Finish("error")
  /\ UNCHANGED <<listener, commands, queue, pc, handled, answered, served, sessions, worker>>

\* The whole body, within the limit, or an error.
Body ==
  /\ stage = "body"
  /\ \/ stage' = "handler" /\ UNCHANGED <<current, reply>>
     \/ Finish("error")
  /\ UNCHANGED <<listener, commands, queue, pc, handled, answered, served, sessions, worker>>

\* The handler fails, returns what cannot be sent, or returns a response.
Handler ==
  /\ stage = "handler"
  /\ handled' = [handled EXCEPT ![current] = @ + 1]
  /\ \/ stage' = "respond" /\ UNCHANGED <<current, reply>>
     \/ Finish("error")
  /\ UNCHANGED <<listener, commands, queue, pc, answered, served, sessions, worker>>

Keep_all(s) == Append(s, current)
Keep(s) == Append(IF Len(s) = SessionCapacity THEN Tail(s) ELSE s, current)

Respond ==
  /\ stage = "respond"
  /\ \/ /\ answered' = [answered EXCEPT ![current] = @ + 1]
        /\ sessions' = Keep(sessions)
        /\ Finish("ok")
     \/ Finish("error") /\ UNCHANGED <<answered, sessions>>
  /\ UNCHANGED <<listener, commands, queue, pc, handled, served, worker>>

\* The timeout can end every wait, not the handler.
Expire ==
  /\ stage \in {"accept", "body", "respond"}
  /\ Finish("error")
  /\ UNCHANGED <<listener, commands, queue, pc, handled, answered, served, sessions, worker>>

\* recv returns None once the sender is gone: the endpoint is closed.
WorkerEnds ==
  /\ worker = "running" /\ current = None /\ queue = <<>> /\ ~commands
  /\ worker' = "ended" /\ sessions' = <<>>
  /\ UNCHANGED <<listener, commands, queue, current, stage, pc, reply, handled, answered, served>>

(***************************************************************************)
(* Drop: take the sender, then join the thread.                            *)
(***************************************************************************)
Drop_keepsSender ==
  /\ listener = "bound" /\ \A c \in Servers : pc[c] = "idle"
  /\ listener' = "dropping"
  /\ UNCHANGED <<commands, queue, current, stage, pc, reply, handled, answered, served, sessions, worker>>

Drop ==
  /\ listener = "bound" /\ \A c \in Servers : pc[c] = "idle"
  /\ listener' = "dropping" /\ commands' = FALSE
  /\ UNCHANGED <<queue, current, stage, pc, reply, handled, answered, served, sessions, worker>>

Joined ==
  /\ listener = "dropping" /\ worker = "ended"
  /\ listener' = "dropped"
  /\ UNCHANGED <<commands, queue, current, stage, pc, reply, handled, answered, served,
                 sessions, worker>>

Worker == Take \/ Accept \/ Body \/ Handler \/ Respond \/ Expire \/ WorkerEnds

Next ==
  \/ \E c \in Servers : ServeOne(c) \/ Send(c) \/ Returned(c)
  \/ Bind \/ Worker \/ Drop \/ Joined

Spec == Init /\ [][Next]_vars

(***************************************************************************)
(* Properties                                                              *)
(***************************************************************************)

\* serve_one succeeds exactly when its handler ran once and its response was sent, and
\* the connections kept are at most SessionCapacity, the newest ones.
ServedTruthfully ==
  /\ \A c \in Servers :
       pc[c] = "wait" /\ reply[c] # "none" =>
         /\ reply[c] = "ok" <=> answered[c] = 1
         /\ answered[c] <= handled[c] /\ handled[c] <= 1
  /\ Len(sessions) <= SessionCapacity

\* A listener that is dropped comes back from the drop, and every serve_one returns.
Serving(c) == pc[c] # "idle"
=============================================================================
