----------------------------- MODULE HttpClient -----------------------------
(***************************************************************************)
(* Executing HTTP requests (src/net.rs): HTTP/3 first, then HTTP/2 over a  *)
(* connection shared through a table of weak references, then HTTP/1.1     *)
(* with retries.  A call is one execution of                               *)
(* execute_http_parts_streaming; the direct ones are sends on one           *)
(* Http3ClientTransport shared by its callers.  Each transport and each    *)
(* HTTP/2 connection is an actor on its own thread; a caller that gives up *)
(* raises the `cancelled' flag of its message and leaves.                  *)
(*                                                                         *)
(* A request is the set of its traits that the code tests; what it carries *)
(* is not modelled.  copies[c] counts the times its headers reached the    *)
(* peer, bare[c] those that went without the body they were given.         *)
(***************************************************************************)
EXTENDS Naturals, Sequences, FiniteSets, TLAPS

CONSTANTS Calls, Requests, MaxActors, H3Capacity, H2Capacity, NoActor

VARIABLES
  pc,          \* what the caller is doing
  req,         \* the request
  attempt,     \* HTTP/1.1 attempts made
  stage,       \* where the message is in the actor that has it
  message_cancelled, \* the caller gave the message up
  dispatched,  \* HTTP/3: send_request has returned
  reply,       \* the answer in the call's channel
  returned,    \* what the call returned
  copies, bare,
  incoming,    \* HTTP/3: the queue of each transport
  cached,      \* HTTP2_CONNECTIONS for the authority
  connections, \* HTTP/2 connections
  lease,       \* the HTTP/2 actor the call holds a reference to
  on           \* the HTTP/2 actor that has the message

clientVars == <<pc, req, attempt, stage, message_cancelled, dispatched, reply, returned,
                copies, bare, incoming, cached, connections, lease, on>>
wire == <<copies, bare>>
h3   == <<incoming, dispatched>>
h2   == <<cached, connections, lease, on>>

Shared == "shared"
Transport(c) == IF req[c].direct THEN Shared ELSE c
Transports == Calls \cup {Shared}
Ids == 1..MaxActors
Plain == [direct |-> FALSE, reader |-> FALSE, redirects |-> FALSE, retries |-> 0,
          hop |-> FALSE, https |-> TRUE, proxy |-> "none", timeout |-> TRUE]
Kinds == {"Transport", "Protocol", "Resolve", "Timeout", "BodyTooLarge"}

\* What a request may ask for.
Traits == [direct : BOOLEAN, reader : BOOLEAN, redirects : BOOLEAN, retries : Nat, hop : BOOLEAN,
           https : BOOLEAN, proxy : {"none", "explicit", "environment"}, timeout : BOOLEAN]

ASSUME ClientAssumption ==
  /\ Requests \subseteq Traits
  /\ MaxActors \in Nat /\ H3Capacity \in Nat /\ H2Capacity \in Nat
  /\ NoActor \notin Nat

ClientTypeOK ==
  /\ pc \in [Calls -> {"idle", "h3connect", "h3send", "h3wait", "h2connect", "h2lookup",
                       "h2start", "h2publish", "h2send", "h2wait", "h1", "h1run", "done"}]
  /\ req \in [Calls -> Requests \cup {Plain}]
  /\ attempt \in [Calls -> Nat]
  /\ stage \in [Calls -> {"none", "queued", "spawned", "headers", "body", "response", "answered"}]
  /\ message_cancelled \in [Calls -> BOOLEAN] /\ dispatched \in [Calls -> BOOLEAN]
  /\ reply \in [Calls -> Kinds \cup {"none", "ok"}]
  /\ returned \in [Calls -> {"none", "ok", "error"}]
  /\ copies \in [Calls -> Nat] /\ bare \in [Calls -> Nat]
  /\ incoming \in [Transports -> Seq(Calls)]
  /\ cached \in Ids \cup {NoActor} /\ lease \in [Calls -> Ids \cup {NoActor}]
  /\ on \in [Calls -> Ids \cup {NoActor}]
  /\ connections \in [Ids -> {"free", "open", "dead", "ended"}]

ClientInit ==
  /\ pc = [c \in Calls |-> "idle"] /\ req = [c \in Calls |-> Plain]
  /\ attempt = [c \in Calls |-> 0] /\ stage = [c \in Calls |-> "none"]
  /\ message_cancelled = [c \in Calls |-> FALSE] /\ dispatched = [c \in Calls |-> FALSE]
  /\ reply = [c \in Calls |-> "none"] /\ returned = [c \in Calls |-> "none"]
  /\ copies = [c \in Calls |-> 0] /\ bare = [c \in Calls |-> 0]
  /\ incoming = [t \in Transports |-> <<>>]
  /\ cached = NoActor /\ connections = [a \in Ids |-> "free"] /\ lease = [c \in Calls |-> NoActor]
  /\ on = [c \in Calls |-> NoActor]

Goto(c, l) == pc' = [pc EXCEPT ![c] = l]
Return(c, r) == Goto(c, "done") /\ returned' = [returned EXCEPT ![c] = r]

\* The headers of c reached the peer; `whole' when the body given goes with them.
Sent(c, whole) ==
  /\ copies' = [copies EXCEPT ![c] = @ + 1]
  /\ bare' = [bare EXCEPT ![c] = IF whole THEN @ ELSE @ + 1]

\* A failing write may or may not have reached the peer.
PerhapsSent(c, whole) == Sent(c, whole) \/ UNCHANGED wire

(***************************************************************************)
(* execute_http_parts_streaming: which protocols may carry the request.    *)
(***************************************************************************)
Http3Eligible(r) ==
  /\ ~r.reader /\ ~r.redirects /\ r.retries = 0 /\ ~r.hop /\ r.https
  /\ r.proxy # "explicit"

Http2Eligible(r) ==
  /\ ~r.reader /\ ~r.redirects /\ r.retries = 0 /\ ~r.hop /\ r.https
  /\ r.proxy # "environment"

\* HTTP/3 refused or unavailable before anything was sent.
FallBack(c) == Goto(c, IF Http2Eligible(req[c]) THEN "h2connect" ELSE "h1")

Begin(c, r) ==
  /\ pc[c] = "idle"
  /\ req' = [req EXCEPT ![c] = r]
  /\ Goto(c, CASE r.direct -> "h3send"
               [] Http3Eligible(r) -> "h3connect"
               [] Http2Eligible(r) -> "h2connect"
               [] OTHER -> "h1")
  /\ UNCHANGED <<attempt, stage, message_cancelled, reply, returned, wire, h3, h2>>

\* The header budget, the body limit and the URL are checked before connecting.
Invalid(c) ==
  /\ pc[c] \in {"h3connect", "h2connect"}
  /\ Return(c, "error")
  /\ UNCHANGED <<req, attempt, stage, message_cancelled, reply, wire, h3, h2>>

(***************************************************************************)
(* HTTP/3: a transport of the call's own, made by execute_http3_response.  *)
(***************************************************************************)
http3_connection_error_can_fallback(kind) == kind \in {"Transport", "Resolve", "Timeout"}

http3_pre_dispatch_connection_error_can_fallback(kind, wasDispatched) ==
  ~wasDispatched /\ kind = "Transport"

Http3Connect(c) ==
  /\ pc[c] = "h3connect"
  /\ \/ Goto(c, "h3send") /\ UNCHANGED returned
     \/ \E kind \in Kinds :
          IF http3_connection_error_can_fallback(kind) THEN FallBack(c) /\ UNCHANGED returned
          ELSE Return(c, "error")
  /\ UNCHANGED <<req, attempt, stage, message_cancelled, reply, wire, h3, h2>>

\* send: a full queue is retried until the deadline, or waited for without one.
Http3Enqueue(c) ==
  /\ pc[c] = "h3send" /\ Len(incoming[Transport(c)]) < H3Capacity
  /\ incoming' = [incoming EXCEPT ![Transport(c)] = Append(@, c)]
  /\ stage' = [stage EXCEPT ![c] = "queued"]
  /\ Goto(c, "h3wait")
  /\ UNCHANGED <<req, attempt, message_cancelled, reply, returned, wire, dispatched, h2>>

Http3QueueTimeout(c) ==
  /\ pc[c] = "h3send" /\ req[c].timeout /\ Len(incoming[Transport(c)]) >= H3Capacity
  /\ message_cancelled' = [message_cancelled EXCEPT ![c] = TRUE]
  /\ Return(c, "error")
  /\ UNCHANGED <<req, attempt, stage, reply, wire, h3, h2>>

\* What the caller makes of the outcome of `send'.
Http3Outcome(c, kind) ==
  CASE kind = "ok" -> Return(c, "ok")
    [] ~req[c].direct /\ http3_pre_dispatch_connection_error_can_fallback(kind, dispatched[c])
         -> FallBack(c) /\ UNCHANGED returned
    [] OTHER -> Return(c, "error")

Http3Answered(c) ==
  /\ pc[c] = "h3wait" /\ reply[c] # "none"
  /\ Http3Outcome(c, reply[c])
  /\ reply' = [reply EXCEPT ![c] = "none"]
  /\ stage' = [stage EXCEPT ![c] = "none"]
  /\ UNCHANGED <<req, attempt, message_cancelled, wire, h3, h2>>

Http3GiveUp(c) ==
  /\ pc[c] = "h3wait" /\ req[c].timeout /\ reply[c] = "none"
  /\ message_cancelled' = [message_cancelled EXCEPT ![c] = TRUE]
  /\ Http3Outcome(c, "Timeout")
  /\ UNCHANGED <<req, attempt, stage, reply, wire, h3, h2>>

(***************************************************************************)
(* The HTTP/3 actor executes one message at a time (execute_http3_stream). *)
(***************************************************************************)
InFlight(t) == {c \in Calls : Transport(c) = t /\ on[c] = NoActor
                              /\ stage[c] \in {"headers", "body", "response"}}

Reply(c, kind) ==
  /\ reply' = [reply EXCEPT ![c] = kind]
  /\ stage' = [stage EXCEPT ![c] = "answered"]

Http3Take_unchecked(t) ==
  /\ incoming[t] # <<>> /\ InFlight(t) = {}
  /\ incoming' = [incoming EXCEPT ![t] = Tail(@)]
  /\ LET c == Head(incoming[t]) IN stage' = [stage EXCEPT ![c] = "headers"]
  /\ UNCHANGED <<pc, req, attempt, message_cancelled, dispatched, reply, returned, wire, h2>>

Http3Take(t) ==
  /\ incoming[t] # <<>> /\ InFlight(t) = {}
  /\ incoming' = [incoming EXCEPT ![t] = Tail(@)]
  /\ LET c == Head(incoming[t])
     IN IF message_cancelled[c] THEN Reply(c, "Timeout")
        ELSE stage' = [stage EXCEPT ![c] = "headers"] /\ UNCHANGED reply
  /\ UNCHANGED <<pc, req, attempt, message_cancelled, dispatched, returned, wire, h2>>

Http3Headers(t) ==
  \E c \in InFlight(t) :
    /\ stage[c] = "headers"
    /\ \/ /\ Sent(c, TRUE)
          /\ dispatched' = [dispatched EXCEPT ![c] = TRUE]
          /\ stage' = [stage EXCEPT ![c] = "body"] /\ UNCHANGED reply
       \/ PerhapsSent(c, TRUE) /\ Reply(c, "Protocol") /\ UNCHANGED dispatched
    /\ UNCHANGED <<pc, req, attempt, message_cancelled, returned, incoming, h2>>

Http3Body(t) ==
  \E c \in InFlight(t) :
    /\ stage[c] = "body"
    /\ \/ stage' = [stage EXCEPT ![c] = "response"] /\ UNCHANGED reply
       \/ Reply(c, "Transport")
    /\ UNCHANGED <<pc, req, attempt, message_cancelled, returned, wire, h3, h2>>

Http3Response(t) ==
  \E c \in InFlight(t), kind \in {"ok", "Protocol", "Transport", "BodyTooLarge"} :
    /\ stage[c] = "response" /\ Reply(c, kind)
    /\ UNCHANGED <<pc, req, attempt, message_cancelled, returned, wire, h3, h2>>

\* The timeout of the message, or the poll that sees it cancelled.
Http3Expire(t) ==
  \E c \in InFlight(t) :
    /\ req[c].timeout \/ message_cancelled[c]
    /\ IF stage[c] = "headers" THEN PerhapsSent(c, TRUE) ELSE UNCHANGED wire
    /\ Reply(c, "Timeout")
    /\ UNCHANGED <<pc, req, attempt, message_cancelled, returned, h3, h2>>

\* The actor's thread dies before taking a message: its caller finds the channel closed.
Http3ActorStops(t) ==
  /\ incoming[t] # <<>> /\ InFlight(t) = {}
  /\ LET c == Head(incoming[t]) IN Reply(c, "Transport")
  /\ incoming' = [incoming EXCEPT ![t] = Tail(@)]
  /\ UNCHANGED <<pc, req, attempt, message_cancelled, dispatched, returned, wire, h2>>

(***************************************************************************)
(* HTTP/2: TLS first, then the shared actor or a new one.                  *)
(***************************************************************************)
Http2Connect(c) ==
  /\ pc[c] = "h2connect"
  /\ \/ Goto(c, "h2lookup") /\ UNCHANGED returned
     \/ Goto(c, "h1") /\ UNCHANGED returned
     \/ Return(c, "error")
  /\ UNCHANGED <<req, attempt, stage, message_cancelled, reply, wire, h3, h2>>

\* Strong references to an actor: its callers', and the one its own loop keeps.
Strong(a) == IF connections[a] \in {"open", "dead"}
             THEN 1 + Cardinality({c \in Calls : lease[c] = a}) ELSE 0

Upgrades == cached # NoActor /\ Strong(cached) > 0

Http2Lookup(c) ==
  /\ pc[c] = "h2lookup"
  /\ IF Upgrades THEN lease' = [lease EXCEPT ![c] = cached] /\ Goto(c, "h2send")
     ELSE Goto(c, "h2start") /\ UNCHANGED lease
  /\ UNCHANGED <<req, attempt, stage, message_cancelled, reply, returned, wire, h3, cached, connections, on>>

Http2Start(c) ==
  /\ pc[c] = "h2start"
  /\ \/ \E a \in Ids :
          /\ connections[a] = "free" /\ \A b \in Ids : b < a => connections[b] # "free"
          /\ connections' = [connections EXCEPT ![a] = "open"]
          /\ lease' = [lease EXCEPT ![c] = a]
          /\ Goto(c, "h2publish") /\ UNCHANGED returned
     \/ Return(c, "error") /\ UNCHANGED <<connections, lease>>
  /\ UNCHANGED <<req, attempt, stage, message_cancelled, reply, wire, h3, cached, on>>

Http2Publish(c) ==
  /\ pc[c] = "h2publish"
  /\ IF Upgrades THEN lease' = [lease EXCEPT ![c] = cached] /\ UNCHANGED cached
     ELSE cached' = lease[c] /\ UNCHANGED lease
  /\ Goto(c, "h2send")
  /\ UNCHANGED <<req, attempt, stage, message_cancelled, reply, returned, wire, h3, connections, on>>

Waiting(a) == {c \in Calls : on[c] = a /\ stage[c] = "queued"}

Http2Enqueue(c) ==
  /\ pc[c] = "h2send" /\ Cardinality(Waiting(lease[c])) < H2Capacity
  /\ stage' = [stage EXCEPT ![c] = "queued"]
  /\ on' = [on EXCEPT ![c] = lease[c]]
  /\ Goto(c, "h2wait")
  /\ UNCHANGED <<req, attempt, message_cancelled, reply, returned, wire, h3, cached, connections, lease>>

Http2Answered(c) ==
  /\ pc[c] = "h2wait" /\ reply[c] # "none"
  /\ Return(c, IF reply[c] = "ok" THEN "ok" ELSE "error")
  /\ reply' = [reply EXCEPT ![c] = "none"]
  /\ stage' = [stage EXCEPT ![c] = "none"]
  /\ lease' = [lease EXCEPT ![c] = NoActor]
  /\ UNCHANGED <<req, attempt, message_cancelled, wire, h3, cached, connections, on>>

\* recv_timeout: the message stays where it is, with its flag raised.
Http2GiveUp(c) ==
  /\ pc[c] = "h2wait" /\ req[c].timeout /\ reply[c] = "none"
  /\ message_cancelled' = [message_cancelled EXCEPT ![c] = TRUE]
  /\ lease' = [lease EXCEPT ![c] = NoActor]
  /\ Return(c, "error")
  /\ UNCHANGED <<req, attempt, stage, reply, wire, h3, cached, connections, on>>

\* The actor's loop: a task per message, until no sender is left.
Http2Loop(a) ==
  /\ connections[a] \in {"open", "dead"}
  /\ IF Waiting(a) # {}
     THEN /\ \E c \in Waiting(a) : stage' = [stage EXCEPT ![c] = "spawned"]
          /\ UNCHANGED connections
     ELSE /\ Strong(a) = 0
          /\ connections' = [connections EXCEPT ![a] = "ended"] /\ UNCHANGED stage
  /\ UNCHANGED <<pc, req, attempt, message_cancelled, reply, returned, wire, h3, cached, lease, on>>

\* The peer closes the connection, or the network drops it.
ConnectionLost(a) ==
  /\ connections[a] = "open"
  /\ connections' = [connections EXCEPT ![a] = "dead"]
  /\ UNCHANGED <<pc, req, attempt, stage, message_cancelled, reply, returned, wire, h3, cached, lease, on>>

\* execute_http2_request: headers and body, then the response.
Http2Check(c) ==
  /\ on[c] # NoActor /\ stage[c] = "spawned"
  /\ IF message_cancelled[c] THEN Reply(c, "Timeout")
     ELSE stage' = [stage EXCEPT ![c] = "headers"] /\ UNCHANGED reply
  /\ UNCHANGED <<pc, req, attempt, message_cancelled, returned, wire, h3, h2>>

Http2Send(c) ==
  /\ on[c] # NoActor /\ stage[c] = "headers"
  /\ IF connections[on[c]] = "dead" THEN Reply(c, "Protocol") /\ UNCHANGED wire
     ELSE \/ Sent(c, TRUE) /\ stage' = [stage EXCEPT ![c] = "response"] /\ UNCHANGED reply
          \/ PerhapsSent(c, TRUE) /\ Reply(c, "Protocol")
  /\ UNCHANGED <<pc, req, attempt, message_cancelled, returned, h3, h2>>

Http2Response(c) ==
  /\ on[c] # NoActor /\ stage[c] = "response"
  /\ \/ connections[on[c]] = "open" /\ Reply(c, "ok")
     \/ Reply(c, "Protocol")
  /\ UNCHANGED <<pc, req, attempt, message_cancelled, returned, wire, h3, h2>>

Http2Expire(c) ==
  /\ on[c] # NoActor /\ stage[c] \in {"headers", "response"} /\ req[c].timeout
  /\ message_cancelled' = [message_cancelled EXCEPT ![c] = TRUE]
  /\ Reply(c, "Timeout")
  /\ UNCHANGED <<pc, req, attempt, returned, wire, h3, h2>>

(***************************************************************************)
(* HTTP/1.1 (execute_http_response).                                       *)
(***************************************************************************)
RefusesReader_not(r) == FALSE
RefusesReader(r) == r.reader /\ r.retries # 0

Http1Validate(c) ==
  /\ pc[c] = "h1"
  /\ \/ Return(c, "error")
     \/ /\ ~RefusesReader(req[c])
        /\ Goto(c, "h1run") /\ UNCHANGED returned
  /\ UNCHANGED <<req, attempt, stage, message_cancelled, reply, wire, h3, h2>>

\* The body of this attempt: a reader is taken by the first one.
WholeBody(c) == req[c].reader => attempt[c] = 0

Http1Attempt(c) ==
  /\ pc[c] = "h1run"
  /\ attempt' = [attempt EXCEPT ![c] = @ + 1]
  /\ \/ Sent(c, WholeBody(c)) /\ Return(c, "ok")
     \/ /\ PerhapsSent(c, WholeBody(c))
        /\ IF attempt[c] < req[c].retries THEN UNCHANGED <<pc, returned>>
           ELSE Return(c, "error")
  /\ UNCHANGED <<req, stage, message_cancelled, reply, h3, h2>>

\* The deadline has passed before an attempt, or would pass in the back-off.
Http1TimedOut(c) ==
  /\ pc[c] = "h1run" /\ req[c].timeout
  /\ Return(c, "error")
  /\ UNCHANGED <<req, attempt, stage, message_cancelled, reply, wire, h3, h2>>

Caller(c) ==
  \/ \E r \in Requests : Begin(c, r)
  \/ Invalid(c) \/ Http3Connect(c) \/ Http3Enqueue(c) \/ Http3QueueTimeout(c)
  \/ Http3Answered(c) \/ Http3GiveUp(c)
  \/ Http2Connect(c) \/ Http2Lookup(c) \/ Http2Start(c) \/ Http2Publish(c)
  \/ Http2Enqueue(c) \/ Http2Answered(c) \/ Http2GiveUp(c)
  \/ Http1Validate(c) \/ Http1Attempt(c) \/ Http1TimedOut(c)

Http3Actor(t) ==
  \/ Http3Take(t) \/ Http3Headers(t) \/ Http3Body(t) \/ Http3Response(t)
  \/ Http3Expire(t) \/ Http3ActorStops(t)

Http2Task(c) == Http2Check(c) \/ Http2Send(c) \/ Http2Response(c) \/ Http2Expire(c)

ClientNext ==
  \/ \E c \in Calls : Caller(c) \/ Http2Task(c)
  \/ \E t \in Transports : Http3Actor(t)
  \/ \E a \in Ids : Http2Loop(a) \/ ConnectionLost(a)

ClientSpec == ClientInit /\ [][ClientNext]_clientVars

(***************************************************************************)
(* Properties                                                              *)
(***************************************************************************)

\* A request reaches the peer at most once, unless retries were asked for, and never
\* more than retries + 1 times; no copy goes without the body it was given.  Falling
\* back from HTTP/3, losing a connection and timing out never send a request again.
SentOnce ==
  ClientTypeOK /\ \A c \in Calls : copies[c] <= req[c].retries + 1 /\ bare[c] = 0

\* A message whose caller gave up while it was still queued is never executed.
StartsGivenUp ==
  \E c \in Calls : message_cancelled[c] /\ stage[c] \in {"queued", "spawned"} /\ stage'[c] = "headers"
CancelledNeverStarts == [][~StartsGivenUp]_clientVars

(***************************************************************************)
(* Why no request is sent twice.                                           *)
(***************************************************************************)
\* Nothing has been sent yet: the caller is between two protocols or before the first.
Unsent == {"idle", "h3connect", "h3send", "h2connect", "h2lookup", "h2start", "h2publish",
           "h2send", "h1"}

\* A call whose message is with an actor has no other copy out; a closed HTTP/3 connection
\* that was not dispatched to has seen nothing, and a fallback finds the call unsent.
CallInv(c) ==
  /\ copies[c] <= req[c].retries + 1 /\ bare[c] = 0
  /\ pc[c] \in Unsent => copies[c] = 0 /\ attempt[c] = 0
  /\ pc[c] = "h3wait" => attempt[c] = 0
  /\ pc[c] = "h3wait" /\ reply[c] = "Transport" /\ ~dispatched[c] => copies[c] = 0
  /\ pc[c] = "h1run" => /\ copies[c] <= attempt[c] /\ attempt[c] <= req[c].retries
                        /\ req[c].reader => req[c].retries = 0
  /\ stage[c] # "none" => pc[c] \in {"h3wait", "h2wait", "done"}
  /\ stage[c] \in {"queued", "spawned", "headers"} => copies[c] = 0
  /\ stage[c] \in {"body", "response"} /\ on[c] = NoActor => dispatched[c]
  /\ reply[c] # "none" => stage[c] = "answered"
  /\ on[c] # NoActor => pc[c] \in {"h2wait", "done"}

\* A message waits in one queue, once, and no actor has it.
QueueInv ==
  \A t \in Transports : \A i \in 1..Len(incoming[t]) :
    /\ stage[incoming[t][i]] = "queued" /\ on[incoming[t][i]] = NoActor
    /\ Transport(incoming[t][i]) = t
    /\ \A j \in 1..Len(incoming[t]) : incoming[t][i] = incoming[t][j] => i = j

ClientInv == ClientTypeOK /\ QueueInv /\ \A c \in Calls : CallInv(c)

\* What a write to the peer and an answer of an actor do to the types.
LEMMA WireType ==
  ASSUME ClientTypeOK, NEW c \in Calls, NEW whole \in BOOLEAN, PerhapsSent(c, whole)
  PROVE  copies' \in [Calls -> Nat] /\ bare' \in [Calls -> Nat]
<1>1. CASE UNCHANGED wire
  BY <1>1, Zenon DEF ClientTypeOK, wire
<1>2. CASE Sent(c, whole)
  <2>1. copies' \in [Calls -> Nat]
    BY <1>2 DEF ClientTypeOK, Sent
  <2>2. bare[c] + 1 \in Nat /\ bare[c] \in Nat
    BY DEF ClientTypeOK
  <2>3. \E n \in Nat : bare' = [bare EXCEPT ![c] = n]
    BY <1>2, <2>2, Zenon DEF Sent
  <2> QED BY <2>1, <2>3 DEF ClientTypeOK
<1> QED BY <1>1, <1>2, Zenon DEF PerhapsSent

LEMMA ReplyType ==
  ASSUME ClientTypeOK, NEW c \in Calls, NEW kind \in Kinds \cup {"ok"}, Reply(c, kind)
  PROVE  /\ reply' \in [Calls -> Kinds \cup {"none", "ok"}]
         /\ stage' \in [Calls -> {"none", "queued", "spawned", "headers", "body", "response",
                                 "answered"}]
BY Zenon DEF ClientTypeOK, Reply

LEMMA OutcomeType ==
  ASSUME ClientTypeOK, NEW c \in Calls, NEW kind, Http3Outcome(c, kind)
  PROVE  /\ pc' \in [Calls -> {"idle", "h3connect", "h3send", "h3wait", "h2connect", "h2lookup",
                               "h2start", "h2publish", "h2send", "h2wait", "h1", "h1run", "done"}]
         /\ returned' \in [Calls -> {"none", "ok", "error"}]
<1>1. \E l \in {"done", "h2connect", "h1"} : pc' = [pc EXCEPT ![c] = l]
  BY DEF Http3Outcome, Return, FallBack, Goto
<1>2. returned' = returned \/ \E r \in {"ok", "error"} : returned' = [returned EXCEPT ![c] = r]
  BY DEF Http3Outcome, Return, FallBack
<1>3. pc' \in [Calls -> {"idle", "h3connect", "h3send", "h3wait", "h2connect", "h2lookup",
                         "h2start", "h2publish", "h2send", "h2wait", "h1", "h1run", "done"}]
  BY <1>1 DEF ClientTypeOK
<1>4. returned' \in [Calls -> {"none", "ok", "error"}]
  BY <1>2 DEF ClientTypeOK
<1> QED BY <1>3, <1>4

\* A caller keeps the types: every assignment of its handler is within them.
LEMMA CallerType ==
  ASSUME ClientTypeOK, NEW c \in Calls, Caller(c)
  PROVE  ClientTypeOK'
<1> USE DEF ClientTypeOK
<1>1. ASSUME NEW r \in Requests, Begin(c, r) PROVE ClientTypeOK'
  BY <1>1, Zenon DEF Begin, Goto, wire, h3, h2
<1>2. CASE Invalid(c)
  BY <1>2, Zenon DEF Invalid, Return, Goto, wire, h3, h2
<1>3. CASE Http3Connect(c)
  BY <1>3, ZenonT(30) DEF Http3Connect, FallBack, Return, Goto, wire, h3, h2
<1>4. CASE Http3Enqueue(c)
  BY <1>4 DEF Http3Enqueue, Goto, Transport, Transports, wire, h2
<1>5. CASE Http3QueueTimeout(c)
  BY <1>5, Zenon DEF Http3QueueTimeout, Return, Goto, wire, h3, h2
<1>6. CASE Http3Answered(c)
  BY <1>6, OutcomeType, Zenon DEF Http3Answered, wire, h3, h2
<1>7. CASE Http3GiveUp(c)
  BY <1>7, OutcomeType, Zenon DEF Http3GiveUp, wire, h3, h2
<1>8. CASE Http2Connect(c)
  BY <1>8, ZenonT(30) DEF Http2Connect, Return, Goto, wire, h3, h2
<1>9. CASE Http2Lookup(c)
  BY <1>9, ZenonT(30) DEF Http2Lookup, Goto, wire, h3
<1>10. CASE Http2Start(c)
  <2>1. connections' \in [Ids -> {"free", "open", "dead", "ended"}]
    BY <1>10, Zenon DEF Http2Start
  <2>2. lease' \in [Calls -> Ids \cup {NoActor}]
    BY <1>10, ZenonT(30) DEF Http2Start
  <2> QED BY <1>10, <2>1, <2>2, ZenonT(30) DEF Http2Start, Return, Goto, wire, h3
<1>11. CASE Http2Publish(c)
  BY <1>11, Zenon DEF Http2Publish, Goto, wire, h3
<1>12. CASE Http2Enqueue(c)
  BY <1>12, Zenon DEF Http2Enqueue, Goto, wire, h3
<1>13. CASE Http2Answered(c)
  BY <1>13, Zenon DEF Http2Answered, Return, Goto, wire, h3
<1>14. CASE Http2GiveUp(c)
  BY <1>14, Zenon DEF Http2GiveUp, Return, Goto, wire, h3
<1>15. CASE Http1Validate(c)
  BY <1>15, ZenonT(30) DEF Http1Validate, Return, Goto, wire, h3, h2
<1>16. CASE Http1Attempt(c)
  <2>1. WholeBody(c) \in BOOLEAN /\ PerhapsSent(c, WholeBody(c))
    BY <1>16, Zenon DEF Http1Attempt, PerhapsSent, WholeBody
  <2>2. copies' \in [Calls -> Nat] /\ bare' \in [Calls -> Nat]
    BY <2>1, WireType, Zenon
  <2>3. attempt' \in [Calls -> Nat]
    BY <1>16 DEF Http1Attempt
  <2> QED BY <1>16, <2>2, <2>3, ZenonT(30) DEF Http1Attempt, Return, Goto, h3, h2
<1>17. CASE Http1TimedOut(c)
  BY <1>17, Zenon DEF Http1TimedOut, Return, Goto, wire, h3, h2
<1> QED BY <1>1, <1>2, <1>3, <1>4, <1>5, <1>6, <1>7, <1>8, <1>9, <1>10, <1>11, <1>12, <1>13, <1>14,
           <1>15, <1>16, <1>17, Zenon DEF Caller

\* So do the HTTP/3 actors.
LEMMA Http3Type ==
  ASSUME ClientTypeOK, NEW t \in Transports, Http3Actor(t)
  PROVE  ClientTypeOK'
<1> USE DEF ClientTypeOK
<1>1. CASE Http3Take(t)
  <2>1. Head(incoming[t]) \in Calls /\ Tail(incoming[t]) \in Seq(Calls)
    BY <1>1 DEF Http3Take
  <2>2. /\ reply' \in [Calls -> Kinds \cup {"none", "ok"}]
        /\ stage' \in [Calls -> {"none", "queued", "spawned", "headers", "body", "response",
                                  "answered"}]
    BY <1>1, <2>1, ReplyType, Zenon DEF Http3Take, Kinds
  <2> QED BY <1>1, <2>1, <2>2, Zenon DEF Http3Take, wire, h2
<1>2. CASE Http3Headers(t)
  <2>1. PICK c \in InFlight(t) : /\ PerhapsSent(c, TRUE)
                                  /\ \/ stage' = [stage EXCEPT ![c] = "body"] /\ UNCHANGED reply
                                     \/ Reply(c, "Protocol")
    BY <1>2, Zenon DEF Http3Headers, PerhapsSent
  <2>2. /\ reply' \in [Calls -> Kinds \cup {"none", "ok"}]
        /\ stage' \in [Calls -> {"none", "queued", "spawned", "headers", "body", "response",
                                  "answered"}]
    BY <2>1, ReplyType, Zenon DEF InFlight, Kinds
  <2>3. copies' \in [Calls -> Nat] /\ bare' \in [Calls -> Nat]
    BY <2>1, WireType, Zenon DEF InFlight
  <2>4. dispatched' \in [Calls -> BOOLEAN]
    BY <1>2, Zenon DEF Http3Headers, InFlight
  <2> QED BY <1>2, <2>2, <2>3, <2>4 DEF Http3Headers, h2
<1>3. CASE Http3Body(t)
  <2>1. PICK c \in InFlight(t) : \/ stage' = [stage EXCEPT ![c] = "response"] /\ UNCHANGED reply
                                 \/ Reply(c, "Transport")
    BY <1>3, Zenon DEF Http3Body
  <2>2. /\ reply' \in [Calls -> Kinds \cup {"none", "ok"}]
        /\ stage' \in [Calls -> {"none", "queued", "spawned", "headers", "body", "response",
                                  "answered"}]
    BY <2>1, ReplyType, Zenon DEF InFlight, Kinds
  <2> QED BY <1>3, <2>2 DEF Http3Body, wire, h3, h2
<1>4. CASE Http3Response(t)
  BY <1>4 DEF Http3Response, Kinds, InFlight, Reply, wire, h3, h2
<1>5. CASE Http3Expire(t)
  <2>1. PICK c \in InFlight(t) : PerhapsSent(c, TRUE) /\ Reply(c, "Timeout")
    BY <1>5, Zenon DEF Http3Expire, PerhapsSent
  <2>2. /\ reply' \in [Calls -> Kinds \cup {"none", "ok"}]
        /\ stage' \in [Calls -> {"none", "queued", "spawned", "headers", "body", "response",
                                  "answered"}]
    BY <2>1, ReplyType, Zenon DEF InFlight, Kinds
  <2>3. copies' \in [Calls -> Nat] /\ bare' \in [Calls -> Nat]
    BY <2>1, WireType, Zenon DEF InFlight
  <2>4. UNCHANGED <<pc, req, attempt, message_cancelled, returned, h3, h2>>
    BY <1>5, Zenon DEF Http3Expire
  <2> QED BY <2>2, <2>3, <2>4, Zenon DEF h3, h2
<1>6. CASE Http3ActorStops(t)
  BY <1>6 DEF Http3ActorStops, Kinds, Reply, wire, h2
<1> QED BY <1>1, <1>2, <1>3, <1>4, <1>5, <1>6, Zenon DEF Http3Actor

\* And the HTTP/2 actors with their tasks.
LEMMA Http2Type ==
  ASSUME ClientTypeOK,
         (\E c \in Calls : Http2Task(c)) \/ (\E a \in Ids : Http2Loop(a) \/ ConnectionLost(a))
  PROVE  ClientTypeOK'
<1> USE DEF ClientTypeOK
<1>1. ASSUME NEW c \in Calls, Http2Check(c) PROVE ClientTypeOK'
  BY <1>1, ZenonT(30) DEF Http2Check, Reply, Kinds, wire, h3, h2
<1>2. ASSUME NEW c \in Calls, Http2Send(c) PROVE ClientTypeOK'
  <2>1. /\ PerhapsSent(c, TRUE)
        /\ \/ stage' = [stage EXCEPT ![c] = "response"] /\ UNCHANGED reply
           \/ Reply(c, "Protocol")
    BY <1>2, Zenon DEF Http2Send, PerhapsSent
  <2>2. /\ reply' \in [Calls -> Kinds \cup {"none", "ok"}]
        /\ stage' \in [Calls -> {"none", "queued", "spawned", "headers", "body", "response",
                                  "answered"}]
    BY <2>1, ReplyType, Zenon DEF Kinds
  <2>3. copies' \in [Calls -> Nat] /\ bare' \in [Calls -> Nat]
    BY <2>1, WireType, Zenon
  <2> QED BY <1>2, <2>2, <2>3, Zenon DEF Http2Send, h3, h2
<1>3. ASSUME NEW c \in Calls, Http2Response(c) PROVE ClientTypeOK'
  BY <1>3, ZenonT(30) DEF Http2Response, Reply, Kinds, wire, h3, h2
<1>4. ASSUME NEW c \in Calls, Http2Expire(c) PROVE ClientTypeOK'
  BY <1>4, Zenon DEF Http2Expire, Reply, Kinds, wire, h3, h2
<1>5. ASSUME NEW a \in Ids, Http2Loop(a) PROVE ClientTypeOK'
  BY <1>5, ZenonT(30) DEF Http2Loop, Waiting, wire, h3
<1>6. ASSUME NEW a \in Ids, ConnectionLost(a) PROVE ClientTypeOK'
  BY <1>6, Zenon DEF ConnectionLost, wire, h3
<1> QED BY <1>1, <1>2, <1>3, <1>4, <1>5, <1>6, Zenon DEF Http2Task

\* A step of one call, or of the actor that has its message, leaves the other calls alone.
Same(d) ==
  /\ pc'[d] = pc[d] /\ req'[d] = req[d] /\ attempt'[d] = attempt[d] /\ stage'[d] = stage[d]
  /\ dispatched'[d] = dispatched[d] /\ reply'[d] = reply[d] /\ copies'[d] = copies[d]
  /\ bare'[d] = bare[d] /\ on'[d] = on[d]
Alone(c) == \A d \in Calls \ {c} : Same(d)

LEMMA CallKept ==
  ASSUME NEW d \in Calls, CallInv(d), Same(d)
  PROVE  CallInv(d)'
BY Zenon DEF CallInv, Same

LEMMA QueueKept ==
  ASSUME QueueInv, UNCHANGED <<req, stage, on, incoming>>
  PROVE  QueueInv'
BY DEF QueueInv, Transport

\* A call that no queue holds may change without the queues.
LEMMA QueueAlone ==
  ASSUME ClientTypeOK, QueueInv, NEW c \in Calls, Alone(c), UNCHANGED incoming,
         stage[c] # "queued" \/ on[c] # NoActor
  PROVE  QueueInv'
<1> SUFFICES ASSUME NEW t \in Transports, NEW i \in 1..Len(incoming[t])
             PROVE  /\ stage'[incoming[t][i]] = "queued" /\ on'[incoming[t][i]] = NoActor
                    /\ Transport(incoming[t][i])' = t
                    /\ \A j \in 1..Len(incoming[t]) : incoming[t][i] = incoming[t][j] => i = j
  BY DEF QueueInv
<1>1. incoming[t][i] \in Calls
  BY DEF ClientTypeOK
<1>2. incoming[t][i] # c
  BY DEF QueueInv
<1>3. Same(incoming[t][i])
  BY <1>1, <1>2, Zenon DEF Alone
<1> QED BY <1>3, Zenon DEF QueueInv, Same, Transport

\* What is left when a message leaves the head of its queue.
LEMMA QueueTail ==
  ASSUME ClientTypeOK, QueueInv, NEW t \in Transports, incoming[t] # <<>>,
         incoming' = [incoming EXCEPT ![t] = Tail(@)], Alone(Head(incoming[t]))
  PROVE  QueueInv' /\ Head(incoming[t]) \in Calls /\ stage[Head(incoming[t])] = "queued"
<1> DEFINE q == incoming[t]
<1>1. q \in Seq(Calls) /\ Len(q) # 0 /\ Head(q) = q[1] /\ 1 \in 1..Len(q)
  BY DEF ClientTypeOK
<1>2. Head(q) \in Calls /\ stage[Head(q)] = "queued" /\ Transport(Head(q)) = t
  BY <1>1 DEF QueueInv
<1>3. incoming' = [incoming EXCEPT ![t] = Tail(q)] /\ incoming \in [Transports -> Seq(Calls)]
  BY Zenon DEF ClientTypeOK
<1>4. ASSUME NEW u \in Transports, NEW i \in 1..Len(incoming'[u])
      PROVE  \E k \in 1..Len(incoming[u]) : incoming'[u][i] = incoming[u][k]
                                            /\ incoming[u][k] # Head(q)
  <2>1. CASE u = t
    <3>1. Len(Tail(q)) = Len(q) - 1 /\ Tail(q)[i] = q[i + 1] /\ i + 1 \in 1..Len(q)
      BY <1>1, <1>3, <2>1
    <3>2. q[i + 1] # q[1]
      BY <1>1, <3>1 DEF QueueInv
    <3> QED BY <1>1, <1>3, <2>1, <3>1, <3>2, Zenon
  <2>2. CASE u # t
    <3>1. incoming'[u] = incoming[u]
      BY <1>3, <2>2, Zenon
    <3>2. Transport(incoming[u][i]) = u
      BY <3>1, Zenon DEF QueueInv
    <3> QED BY <1>2, <2>2, <3>1, <3>2, Zenon
  <2> QED BY <2>1, <2>2, Zenon
<1>5. ASSUME NEW u \in Transports, NEW i \in 1..Len(incoming'[u]), NEW j \in 1..Len(incoming'[u]),
             incoming'[u][i] = incoming'[u][j]
      PROVE  i = j
  <2>1. CASE u = t
    <3>1. /\ Len(Tail(q)) = Len(q) - 1 /\ incoming'[u] = Tail(q)
          /\ Tail(q)[i] = q[i + 1] /\ i + 1 \in 1..Len(q)
          /\ Tail(q)[j] = q[j + 1] /\ j + 1 \in 1..Len(q)
      BY <1>1, <1>3, <2>1
    <3> QED BY <1>5, <3>1 DEF QueueInv
  <2>2. CASE u # t
    <3>1. incoming'[u] = incoming[u]
      BY <1>3, <2>2, Zenon
    <3> QED BY <1>5, <3>1 DEF QueueInv
  <2> QED BY <2>1, <2>2, Zenon
<1>6. ASSUME NEW u \in Transports, NEW i \in 1..Len(incoming'[u])
      PROVE  /\ stage'[incoming'[u][i]] = "queued" /\ on'[incoming'[u][i]] = NoActor
             /\ Transport(incoming[u][i])' = u
  <2>1. PICK k \in 1..Len(incoming[u]) : incoming'[u][i] = incoming[u][k]
                                         /\ incoming[u][k] # Head(q)
    BY <1>4, Zenon
  <2>2. incoming[u][k] \in Calls
    BY <1>3
  <2>3. Same(incoming[u][k])
    BY <2>1, <2>2, Zenon DEF Alone
  <2> QED BY <2>1, <2>3 DEF QueueInv, Same, Transport
<1> QED BY <1>2, <1>5, <1>6 DEF QueueInv

\* The step of one call keeps the invariant when it keeps the call's own part.
LEMMA OneCall ==
  ASSUME ClientInv, ClientTypeOK', NEW c \in Calls, Alone(c), CallInv(c)', QueueInv'
  PROVE  ClientInv'
<1>1. ASSUME NEW d \in Calls \ {c} PROVE CallInv(d)'
  BY CallKept, Zenon DEF ClientInv, Alone
<1> QED BY <1>1, Zenon DEF ClientInv

\* A message joins the back of its transport's queue.
LEMMA QueueAppend ==
  ASSUME ClientInv, NEW c \in Calls, Http3Enqueue(c)
  PROVE  QueueInv'
<1> PICK t \in Transports : t = Transport(c)
  BY Zenon DEF Transport, Transports
<1>1. /\ incoming \in [Transports -> Seq(Calls)] /\ stage \in [Calls -> {"none", "queued",
            "spawned", "headers", "body", "response", "answered"}]
      /\ stage[c] = "none" /\ on[c] = NoActor
  BY Zenon DEF ClientInv, ClientTypeOK, CallInv, Http3Enqueue
<1>2. /\ incoming' = [incoming EXCEPT ![t] = Append(incoming[t], c)]
      /\ stage' = [stage EXCEPT ![c] = "queued"] /\ on' = on /\ req' = req
  BY Zenon DEF Http3Enqueue, h2
<1>3. ASSUME NEW d PROVE Transport(d)' = Transport(d)
  BY <1>2, Zenon DEF Transport
<1>4. ASSUME NEW u \in Transports, NEW i \in 1..Len(incoming[u])
      PROVE  /\ incoming[u][i] \in Calls \ {c} /\ Transport(incoming[u][i]) = u
             /\ stage'[incoming[u][i]] = "queued" /\ on'[incoming[u][i]] = NoActor
             /\ \A j \in 1..Len(incoming[u]) : incoming[u][j] = incoming[u][i] => j = i
  BY <1>1, <1>2 DEF ClientInv, QueueInv
<1>5. /\ Len(incoming[t]) \in Nat /\ Len(incoming'[t]) = Len(incoming[t]) + 1
      /\ incoming'[t][Len(incoming[t]) + 1] = c
      /\ \A i \in 1..Len(incoming[t]) : incoming'[t][i] = incoming[t][i]
  BY <1>1, <1>2
<1>6. ASSUME NEW u \in Transports, NEW i \in 1..Len(incoming'[u]), NEW d, d = incoming'[u][i]
      PROVE  /\ stage'[d] = "queued" /\ on'[d] = NoActor /\ Transport(d)' = u
             /\ \A j \in 1..Len(incoming'[u]) : incoming'[u][j] = d => j = i
  <2>1. CASE u # t
    <3>1. incoming'[u] = incoming[u]
      BY <1>1, <1>2, <2>1, Zenon
    <3> QED BY <1>3, <1>4, <1>6, <3>1
  <2>2. CASE u = t /\ i = Len(incoming[t]) + 1
    <3>1. d = c /\ stage'[d] = "queued" /\ on'[d] = NoActor /\ Transport(d)' = u
      BY <1>1, <1>2, <1>3, <1>5, <1>6, <2>2, Zenon
    <3>2. ASSUME NEW j \in 1..Len(incoming'[u]), incoming'[u][j] = d PROVE j = i
      <4>1. j = Len(incoming[t]) + 1 \/ j \in 1..Len(incoming[t])
        BY <1>5, <2>2
      <4> QED BY <1>4, <1>5, <2>2, <3>1, <3>2, <4>1
    <3> QED BY <3>1, <3>2, Zenon
  <2>3. CASE u = t /\ i \in 1..Len(incoming[t])
    <3>1. d = incoming[t][i]
      BY <1>5, <1>6, <2>3, Zenon
    <3>2. d # c /\ stage'[d] = "queued" /\ on'[d] = NoActor /\ Transport(d)' = u
      BY <1>3, <1>4, <2>3, <3>1
    <3>3. ASSUME NEW j \in 1..Len(incoming'[u]), incoming'[u][j] = d PROVE j = i
      <4>1. j = Len(incoming[t]) + 1 \/ j \in 1..Len(incoming[t])
        BY <1>5, <2>3
      <4> QED BY <1>4, <1>5, <2>3, <3>1, <3>2, <3>3, <4>1
    <3> QED BY <3>2, <3>3, Zenon
  <2>4. u = t => i = Len(incoming[t]) + 1 \/ i \in 1..Len(incoming[t])
    BY <1>5
  <2> QED BY <2>1, <2>2, <2>3, <2>4, Zenon
<1> QED BY <1>6 DEF QueueInv, Transport

\* A step of a caller.
LEMMA CallerStep ==
  ASSUME ClientInv, NEW c \in Calls, Caller(c)
  PROVE  ClientInv'
<1>0. ClientTypeOK /\ ClientTypeOK' /\ QueueInv /\ CallInv(c)
  BY CallerType, Zenon DEF ClientInv
<1>a. ClientAssumption
  BY ClientAssumption, Zenon
<1>1. ASSUME NEW r \in Requests, Begin(c, r) PROVE ClientInv'
  <2>1. Alone(c)
    BY <1>0, <1>1 DEF Alone, Same, ClientTypeOK, Begin, Goto, Http3Eligible, Http2Eligible, wire,
       h3, h2
  <2>2. CallInv(c)'
    BY <1>0, <1>a, <1>1 DEF CallInv, Unsent, ClientTypeOK, ClientAssumption, Traits, Begin, Goto,
       Http3Eligible, Http2Eligible, wire, h3, h2
  <2>3. QueueInv'
    BY <1>0, <1>1, <2>1, QueueAlone, Zenon DEF CallInv, Begin, wire, h3, h2
  <2> QED BY <1>0, <2>1, <2>2, <2>3, OneCall, Zenon
<1>2. CASE Invalid(c)
  <2>1. Alone(c)
    BY <1>0, <1>2 DEF Alone, Same, ClientTypeOK, Invalid, Return, Goto, wire, h3, h2
  <2>2. CallInv(c)'
    BY <1>0, <1>2 DEF CallInv, Unsent, ClientTypeOK, Invalid, Return, Goto, wire, h3, h2
  <2>3. QueueInv'
    BY <1>0, <1>2, QueueKept, Zenon DEF Invalid, wire, h3, h2
  <2> QED BY <1>0, <2>1, <2>2, <2>3, OneCall, Zenon
<1>3. CASE Http3Connect(c)
  <2>1. Alone(c)
    BY <1>0, <1>3 DEF Alone, Same, ClientTypeOK, Http3Connect, FallBack, Return, Goto, wire, h3, h2
  <2>2. CallInv(c)'
    BY <1>0, <1>3 DEF CallInv, Unsent, ClientTypeOK, Http3Connect, FallBack, Return, Goto, wire,
       h3, h2
  <2>3. QueueInv'
    BY <1>0, <1>3, QueueKept, Zenon DEF Http3Connect, wire, h3, h2
  <2> QED BY <1>0, <2>1, <2>2, <2>3, OneCall, Zenon
<1>4. CASE Http3Enqueue(c)
  <2>1. Alone(c)
    BY <1>0, <1>4 DEF Alone, Same, ClientTypeOK, Http3Enqueue, Goto, wire, h2
  <2>2. CallInv(c)'
    BY <1>0, <1>4 DEF CallInv, Unsent, ClientTypeOK, Http3Enqueue, Goto, wire, h2
  <2>3. QueueInv'
    BY <1>4, QueueAppend, Zenon
  <2> QED BY <1>0, <2>1, <2>2, <2>3, OneCall, Zenon
<1>5. CASE Http3QueueTimeout(c)
  <2>1. Alone(c)
    BY <1>0, <1>5 DEF Alone, Same, ClientTypeOK, Http3QueueTimeout, Return, Goto, wire, h3, h2
  <2>2. CallInv(c)'
    BY <1>0, <1>5 DEF CallInv, Unsent, ClientTypeOK, Http3QueueTimeout, Return, Goto, wire, h3, h2
  <2>3. QueueInv'
    BY <1>0, <1>5, QueueKept, Zenon DEF Http3QueueTimeout, wire, h3, h2
  <2> QED BY <1>0, <2>1, <2>2, <2>3, OneCall, Zenon
<1>6. CASE Http3Answered(c)
  <2>1. Alone(c)
    BY <1>0, <1>6 DEF Alone, Same, ClientTypeOK, Http3Answered, Http3Outcome,
       http3_pre_dispatch_connection_error_can_fallback, FallBack, Return, Goto, wire, h3, h2
  <2>2. CallInv(c)'
    BY <1>0, <1>6 DEF CallInv, Unsent, ClientTypeOK, Http3Answered, Http3Outcome,
       http3_pre_dispatch_connection_error_can_fallback, FallBack, Return, Goto, wire, h3, h2
  <2>3. QueueInv'
    BY <1>0, <1>6, <2>1, QueueAlone, Zenon DEF CallInv, Http3Answered, wire, h3, h2
  <2> QED BY <1>0, <2>1, <2>2, <2>3, OneCall, Zenon
<1>7. CASE Http3GiveUp(c)
  <2>1. Alone(c)
    BY <1>0, <1>7 DEF Alone, Same, ClientTypeOK, Http3GiveUp, Http3Outcome,
       http3_pre_dispatch_connection_error_can_fallback, FallBack, Return, Goto, wire, h3, h2
  <2>2. CallInv(c)'
    BY <1>0, <1>7 DEF CallInv, Unsent, ClientTypeOK, Http3GiveUp, Http3Outcome,
       http3_pre_dispatch_connection_error_can_fallback, FallBack, Return, Goto, wire, h3, h2
  <2>3. QueueInv'
    BY <1>0, <1>7, QueueKept, Zenon DEF Http3GiveUp, wire, h3, h2
  <2> QED BY <1>0, <2>1, <2>2, <2>3, OneCall, Zenon
<1>8. CASE Http2Connect(c)
  <2>1. Alone(c)
    BY <1>0, <1>8 DEF Alone, Same, ClientTypeOK, Http2Connect, Return, Goto, wire, h3, h2
  <2>2. CallInv(c)'
    BY <1>0, <1>8 DEF CallInv, Unsent, ClientTypeOK, Http2Connect, Return, Goto, wire, h3, h2
  <2>3. QueueInv'
    BY <1>0, <1>8, QueueKept, Zenon DEF Http2Connect, wire, h3, h2
  <2> QED BY <1>0, <2>1, <2>2, <2>3, OneCall, Zenon
<1>9. CASE Http2Lookup(c)
  <2>1. Alone(c)
    BY <1>0, <1>9 DEF Alone, Same, ClientTypeOK, Http2Lookup, Goto, wire, h3
  <2>2. CallInv(c)'
    BY <1>0, <1>9 DEF CallInv, Unsent, ClientTypeOK, Http2Lookup, Goto, wire, h3
  <2>3. QueueInv'
    BY <1>0, <1>9, QueueKept, Zenon DEF Http2Lookup, wire, h3
  <2> QED BY <1>0, <2>1, <2>2, <2>3, OneCall, Zenon
<1>10. CASE Http2Start(c)
  <2>1. Alone(c)
    BY <1>0, <1>10 DEF Alone, Same, ClientTypeOK, Http2Start, Return, Goto, wire, h3
  <2>2. CallInv(c)'
    BY <1>0, <1>10 DEF CallInv, Unsent, ClientTypeOK, Http2Start, Return, Goto, wire, h3
  <2>3. QueueInv'
    BY <1>0, <1>10, QueueKept, Zenon DEF Http2Start, wire, h3
  <2> QED BY <1>0, <2>1, <2>2, <2>3, OneCall, Zenon
<1>11. CASE Http2Publish(c)
  <2>1. Alone(c)
    BY <1>0, <1>11 DEF Alone, Same, ClientTypeOK, Http2Publish, Goto, wire, h3
  <2>2. CallInv(c)'
    BY <1>0, <1>11 DEF CallInv, Unsent, ClientTypeOK, Http2Publish, Goto, wire, h3
  <2>3. QueueInv'
    BY <1>0, <1>11, QueueKept, Zenon DEF Http2Publish, wire, h3
  <2> QED BY <1>0, <2>1, <2>2, <2>3, OneCall, Zenon
<1>12. CASE Http2Enqueue(c)
  <2>1. Alone(c)
    BY <1>0, <1>12 DEF Alone, Same, ClientTypeOK, Http2Enqueue, Goto, wire, h3
  <2>2. CallInv(c)'
    BY <1>0, <1>12 DEF CallInv, Unsent, ClientTypeOK, Http2Enqueue, Goto, wire, h3
  <2>3. QueueInv'
    BY <1>0, <1>12, <2>1, QueueAlone, Zenon DEF CallInv, Http2Enqueue, wire, h3
  <2> QED BY <1>0, <2>1, <2>2, <2>3, OneCall, Zenon
<1>13. CASE Http2Answered(c)
  <2>1. Alone(c)
    BY <1>0, <1>13 DEF Alone, Same, ClientTypeOK, Http2Answered, Return, Goto, wire, h3
  <2>2. CallInv(c)'
    BY <1>0, <1>13 DEF CallInv, Unsent, ClientTypeOK, Http2Answered, Return, Goto, wire, h3
  <2>3. QueueInv'
    BY <1>0, <1>13, <2>1, QueueAlone, Zenon DEF CallInv, Http2Answered, wire, h3
  <2> QED BY <1>0, <2>1, <2>2, <2>3, OneCall, Zenon
<1>14. CASE Http2GiveUp(c)
  <2>1. Alone(c)
    BY <1>0, <1>14 DEF Alone, Same, ClientTypeOK, Http2GiveUp, Return, Goto, wire, h3
  <2>2. CallInv(c)'
    BY <1>0, <1>14 DEF CallInv, Unsent, ClientTypeOK, Http2GiveUp, Return, Goto, wire, h3
  <2>3. QueueInv'
    BY <1>0, <1>14, QueueKept, Zenon DEF Http2GiveUp, wire, h3
  <2> QED BY <1>0, <2>1, <2>2, <2>3, OneCall, Zenon
<1>15. CASE Http1Validate(c)
  <2>1. Alone(c)
    BY <1>0, <1>15 DEF Alone, Same, ClientTypeOK, Http1Validate, RefusesReader, Return, Goto, wire,
       h3, h2
  <2>2. CallInv(c)'
    <3>1. req[c].retries \in Nat /\ attempt[c] = 0 /\ copies[c] = 0
      BY <1>0, <1>a, <1>15 DEF CallInv, Unsent, ClientTypeOK, ClientAssumption, Traits, Plain,
                               Http1Validate
    <3>2. CASE pc'[c] = "done"
      BY <1>0, <1>15, <3>1, <3>2, Zenon DEF CallInv, Unsent, Http1Validate, wire, h3, h2
    <3>3. CASE pc'[c] = "h1run" /\ ~RefusesReader(req[c])
      BY <1>0, <1>15, <3>1, <3>3 DEF CallInv, Unsent, RefusesReader, Http1Validate, wire, h3, h2
    <3>4. pc'[c] = "done" \/ (pc'[c] = "h1run" /\ ~RefusesReader(req[c]))
      BY <1>0, <1>15 DEF ClientTypeOK, Http1Validate, Return, Goto
    <3> QED BY <3>2, <3>3, <3>4, Zenon
  <2>3. QueueInv'
    BY <1>0, <1>15, QueueKept, Zenon DEF Http1Validate, wire, h3, h2
  <2> QED BY <1>0, <2>1, <2>2, <2>3, OneCall, Zenon
<1>16. CASE Http1Attempt(c)
  <2>0. /\ req' = req /\ stage' = stage /\ reply' = reply /\ dispatched' = dispatched
        /\ on' = on /\ attempt' = [attempt EXCEPT ![c] = attempt[c] + 1]
        /\ PerhapsSent(c, WholeBody(c))
        /\ \/ pc' = [pc EXCEPT ![c] = "done"]
           \/ pc' = pc /\ attempt[c] < req[c].retries
    BY <1>16, Zenon DEF Http1Attempt, PerhapsSent, Return, Goto, h3, h2
  <2>a. /\ copies'[c] = copies[c] \/ copies'[c] = copies[c] + 1
        /\ \A d \in Calls \ {c} : copies'[d] = copies[d] /\ bare'[d] = bare[d]
        /\ WholeBody(c) => bare'[c] = bare[c]
    BY <1>0, <2>0 DEF ClientTypeOK, PerhapsSent, Sent, wire
  <2>1. Alone(c)
    BY <1>0, <2>0, <2>a, SMTT(30) DEF Alone, Same, ClientTypeOK
  <2>2. CallInv(c)'
    <3>1. /\ req[c].retries \in Nat /\ attempt[c] \in Nat /\ copies[c] \in Nat
          /\ attempt'[c] = attempt[c] + 1 /\ pc[c] = "h1run" /\ stage[c] = "none"
          /\ copies[c] <= attempt[c] /\ attempt[c] <= req[c].retries
      BY <1>0, <1>a, <1>16, <2>0 DEF CallInv, ClientTypeOK, ClientAssumption, Traits, Plain,
                                     Http1Attempt
    <3>2. WholeBody(c) /\ bare'[c] = 0
      BY <1>0, <2>a, <3>1 DEF CallInv, WholeBody
    <3>3. CASE pc' = [pc EXCEPT ![c] = "done"]
      <4>1. pc'[c] = "done" /\ copies'[c] <= req[c].retries + 1
        BY <1>0, <2>a, <3>1, <3>3, SMTT(30) DEF ClientTypeOK
      <4> QED BY <1>0, <2>0, <3>1, <3>2, <4>1, Zenon DEF CallInv, Unsent
    <3>4. CASE pc' = pc /\ attempt[c] < req[c].retries
      <4>1. copies'[c] <= attempt'[c] /\ attempt'[c] <= req[c].retries
            /\ copies'[c] <= req[c].retries + 1
        BY <2>a, <3>1, <3>4
      <4> QED BY <1>0, <2>0, <3>1, <3>2, <3>4, <4>1, Zenon DEF CallInv, Unsent
    <3> QED BY <2>0, <3>3, <3>4, Zenon
  <2>3. QueueInv'
    BY <1>0, <1>16, QueueKept, Zenon DEF Http1Attempt, wire, h3, h2
  <2> QED BY <1>0, <2>1, <2>2, <2>3, OneCall, Zenon
<1>17. CASE Http1TimedOut(c)
  <2>1. Alone(c)
    BY <1>0, <1>17, SMTT(30) DEF Alone, Same, ClientTypeOK, Http1TimedOut, Return, Goto, wire, h3, h2
  <2>2. CallInv(c)'
    BY <1>0, <1>17 DEF CallInv, Unsent, ClientTypeOK, Http1TimedOut, Return, Goto, wire, h3, h2
  <2>3. QueueInv'
    BY <1>0, <1>17, QueueKept, Zenon DEF Http1TimedOut, wire, h3, h2
  <2> QED BY <1>0, <2>1, <2>2, <2>3, OneCall, Zenon
<1> QED BY <1>1, <1>2, <1>3, <1>4, <1>5, <1>6, <1>7, <1>8, <1>9, <1>10, <1>11, <1>12, <1>13, <1>14,
           <1>15, <1>16, <1>17, Zenon DEF Caller

\* A step of the HTTP/3 actor that has the message of a call.
LEMMA Http3Step ==
  ASSUME ClientInv, NEW t \in Transports, Http3Actor(t)
  PROVE  ClientInv'
<1>0. ClientTypeOK /\ ClientTypeOK' /\ QueueInv /\ \A c \in Calls : CallInv(c)
  BY Http3Type, Zenon DEF ClientInv
<1>a. \A c \in Calls : req[c].retries \in Nat
  BY <1>0, ClientAssumption DEF ClientTypeOK, ClientAssumption, Traits, Plain
<1>1. CASE Http3Take(t) \/ Http3ActorStops(t)
  <2> PICK c : c = Head(incoming[t])
    BY Zenon
  <2>1. /\ incoming[t] # <<>> /\ incoming' = [incoming EXCEPT ![t] = Tail(@)]
        /\ pc' = pc /\ req' = req /\ attempt' = attempt /\ dispatched' = dispatched
        /\ copies' = copies /\ bare' = bare /\ on' = on
        /\ \/ stage' = [stage EXCEPT ![c] = "headers"] /\ reply' = reply
           \/ \E kind \in Kinds : Reply(c, kind)
    BY <1>1, Zenon DEF Http3Take, Http3ActorStops, Kinds, wire, h2
  <2>2. c \in Calls
    BY <1>0, <2>1 DEF ClientTypeOK
  <2>3. Alone(c)
    BY <1>0, <2>1, <2>2 DEF Alone, Same, ClientTypeOK, Reply
  <2>4. QueueInv' /\ stage[c] = "queued"
    BY <1>0, <2>1, <2>3, QueueTail, Zenon
  <2>5. (stage'[c] = "headers" /\ reply'[c] = reply[c]) \/ stage'[c] = "answered"
    BY <1>0, <2>1, <2>2 DEF ClientTypeOK, Reply
  <2>6. CallInv(c)'
    BY <1>0, <2>1, <2>2, <2>4, <2>5, Zenon DEF CallInv, Unsent
  <2> QED BY <1>0, <2>2, <2>3, <2>4, <2>6, OneCall, Zenon
<1>2. CASE Http3Headers(t) \/ Http3Expire(t)
  <2>1. PICK c \in InFlight(t) :
          /\ pc' = pc /\ req' = req /\ attempt' = attempt /\ on' = on /\ incoming' = incoming
          /\ IF stage[c] = "headers" THEN PerhapsSent(c, TRUE) ELSE UNCHANGED wire
          /\ \/ /\ stage[c] = "headers" /\ stage' = [stage EXCEPT ![c] = "body"] /\ reply' = reply
                /\ dispatched' = [dispatched EXCEPT ![c] = TRUE]
             \/ /\ \E kind \in {"Protocol", "Timeout"} : Reply(c, kind)
                /\ dispatched' = dispatched
    BY <1>2, Zenon DEF Http3Headers, Http3Expire, PerhapsSent, h3, h2
  <2>2. c \in Calls /\ on[c] = NoActor /\ stage[c] \in {"headers", "body", "response"}
    BY Zenon DEF InFlight
  <2>3. /\ copies'[c] = copies[c] \/ (copies'[c] = copies[c] + 1 /\ stage[c] = "headers")
        /\ \A d \in Calls \ {c} : copies'[d] = copies[d] /\ bare'[d] = bare[d]
        /\ bare'[c] = bare[c]
    BY <1>0, <2>1, <2>2 DEF ClientTypeOK, PerhapsSent, Sent, wire
  <2>4. Alone(c)
    <3>1. \A d \in Calls \ {c} : stage'[d] = stage[d] /\ reply'[d] = reply[d]
      <4>1. \E s, r : stage' = [stage EXCEPT ![c] = s] /\ (reply' = reply \/ reply' = [reply EXCEPT ![c] = r])
        BY <2>1, Zenon DEF Reply
      <4> QED BY <1>0, <4>1 DEF ClientTypeOK
    <3>2. \A d \in Calls \ {c} : dispatched'[d] = dispatched[d]
      BY <1>0, <2>1, <2>2 DEF ClientTypeOK
    <3> QED BY <2>1, <2>3, <3>1, <3>2, Zenon DEF Alone, Same
  <2>5. \/ stage'[c] = "body" /\ reply'[c] = reply[c] /\ dispatched'[c] /\ stage[c] = "headers"
        \/ stage'[c] = "answered" /\ reply'[c] \in {"Protocol", "Timeout"}
    BY <1>0, <2>1, <2>2 DEF ClientTypeOK, Reply
  <2>6. copies[c] \in Nat /\ copies'[c] <= req[c].retries + 1
    BY <1>0, <1>a, <2>2, <2>3 DEF CallInv, ClientTypeOK
  <2>7. CallInv(c)'
    BY <1>0, <2>1, <2>2, <2>3, <2>5, <2>6, Zenon DEF CallInv, Unsent
  <2>8. QueueInv'
    BY <1>0, <2>1, <2>2, <2>4, QueueAlone, Zenon
  <2> QED BY <1>0, <2>2, <2>4, <2>7, <2>8, OneCall, Zenon
<1>3. CASE Http3Body(t) \/ Http3Response(t)
  <2>1. PICK c \in InFlight(t) :
          /\ pc' = pc /\ req' = req /\ attempt' = attempt /\ on' = on /\ incoming' = incoming
          /\ copies' = copies /\ bare' = bare /\ dispatched' = dispatched
          /\ stage[c] \in {"body", "response"}
          /\ \/ stage' = [stage EXCEPT ![c] = "response"] /\ reply' = reply
             \/ \E kind \in Kinds \cup {"ok"} : Reply(c, kind)
    BY <1>3, Zenon DEF Http3Body, Http3Response, Kinds, wire, h3, h2
  <2>2. c \in Calls /\ on[c] = NoActor
    BY Zenon DEF InFlight
  <2>3. Alone(c)
    BY <1>0, <2>1, <2>2 DEF Alone, Same, ClientTypeOK, Reply
  <2>4. (stage'[c] = "response" /\ reply'[c] = reply[c]) \/ stage'[c] = "answered"
    BY <1>0, <2>1, <2>2 DEF ClientTypeOK, Reply
  <2>5. CallInv(c)'
    BY <1>0, <2>1, <2>2, <2>4, Zenon DEF CallInv, Unsent
  <2>6. QueueInv'
    BY <1>0, <2>1, <2>2, <2>3, QueueAlone, Zenon
  <2> QED BY <1>0, <2>2, <2>3, <2>5, <2>6, OneCall, Zenon
<1> QED BY <1>1, <1>2, <1>3, Zenon DEF Http3Actor

\* A step of an HTTP/2 actor, or of the task it gave a message to.
LEMMA Http2Step ==
  ASSUME ClientInv,
         (\E c \in Calls : Http2Task(c)) \/ (\E a \in Ids : Http2Loop(a) \/ ConnectionLost(a))
  PROVE  ClientInv'
<1>0. ClientTypeOK /\ ClientTypeOK' /\ QueueInv /\ \A c \in Calls : CallInv(c)
  BY Http2Type, Zenon DEF ClientInv
<1>a. \A c \in Calls : req[c].retries \in Nat
  BY <1>0, ClientAssumption DEF ClientTypeOK, ClientAssumption, Traits, Plain
<1>1. ASSUME NEW c \in Calls, on[c] # NoActor, stage[c] # "none",
             pc' = pc, req' = req, attempt' = attempt, on' = on, incoming' = incoming,
             dispatched' = dispatched, Alone(c),
             copies'[c] = copies[c] \/ (copies'[c] = copies[c] + 1 /\ stage[c] = "headers"),
             bare'[c] = bare[c],
             \/ stage'[c] = "spawned" /\ stage[c] = "queued" /\ reply'[c] = reply[c]
             \/ stage'[c] = "headers" /\ stage[c] = "spawned" /\ reply'[c] = reply[c]
             \/ stage'[c] = "response" /\ stage[c] = "headers" /\ reply'[c] = reply[c]
             \/ stage'[c] = "answered"
      PROVE  ClientInv'
  <2>1. copies[c] \in Nat /\ copies'[c] <= req[c].retries + 1
    BY <1>0, <1>a, <1>1 DEF CallInv, ClientTypeOK
  <2>2. CallInv(c)'
    BY <1>0, <1>1, <2>1, Zenon DEF CallInv, Unsent
  <2>3. QueueInv'
    BY <1>0, <1>1, QueueAlone, Zenon
  <2> QED BY <1>0, <1>1, <2>2, <2>3, OneCall, Zenon
<1>2. ASSUME NEW c \in Calls, Http2Check(c) PROVE ClientInv'
  <2>1. Alone(c)
    BY <1>0, <1>2 DEF Alone, Same, ClientTypeOK, Http2Check, Reply, wire, h3, h2
  <2>2. \/ stage'[c] = "headers" /\ stage[c] = "spawned" /\ reply'[c] = reply[c]
        \/ stage'[c] = "answered"
    BY <1>0, <1>2 DEF ClientTypeOK, Http2Check, Reply
  <2> QED BY <1>1, <1>2, <2>1, <2>2, Zenon DEF Http2Check, wire, h3, h2
<1>3. ASSUME NEW c \in Calls, Http2Send(c) PROVE ClientInv'
  <2>1. /\ PerhapsSent(c, TRUE) /\ stage[c] = "headers"
        /\ \/ stage' = [stage EXCEPT ![c] = "response"] /\ UNCHANGED reply
           \/ Reply(c, "Protocol")
    BY <1>3, Zenon DEF Http2Send, PerhapsSent
  <2>2. /\ copies'[c] = copies[c] \/ copies'[c] = copies[c] + 1
        /\ \A d \in Calls \ {c} : copies'[d] = copies[d] /\ bare'[d] = bare[d]
        /\ bare'[c] = bare[c]
    BY <1>0, <2>1 DEF ClientTypeOK, PerhapsSent, Sent, wire
  <2>3. Alone(c)
    BY <1>0, <1>3, <2>1, <2>2 DEF Alone, Same, ClientTypeOK, Http2Send, Reply, h3, h2
  <2>4. (stage'[c] = "response" /\ reply'[c] = reply[c]) \/ stage'[c] = "answered"
    BY <1>0, <2>1 DEF ClientTypeOK, Reply
  <2> QED BY <1>1, <1>3, <2>1, <2>2, <2>3, <2>4, Zenon DEF Http2Send, h3, h2
<1>4. ASSUME NEW c \in Calls, Http2Response(c) \/ Http2Expire(c) PROVE ClientInv'
  <2>1. Alone(c)
    BY <1>0, <1>4 DEF Alone, Same, ClientTypeOK, Http2Response, Http2Expire, Reply, wire, h3, h2
  <2>2. stage'[c] = "answered"
    BY <1>0, <1>4 DEF ClientTypeOK, Http2Response, Http2Expire, Reply
  <2> QED BY <1>1, <1>4, <2>1, <2>2, Zenon DEF Http2Response, Http2Expire, wire, h3, h2
<1>5. ASSUME NEW a \in Ids, Http2Loop(a), Waiting(a) # {} PROVE ClientInv'
  <2>1. PICK c \in Waiting(a) : stage' = [stage EXCEPT ![c] = "spawned"]
    BY <1>5, Zenon DEF Http2Loop
  <2>2. c \in Calls /\ on[c] # NoActor /\ stage[c] = "queued"
    BY ClientAssumption, SMTT(30) DEF ClientAssumption, Waiting, Ids
  <2>3. Alone(c) /\ stage'[c] = "spawned"
    BY <1>0, <1>5, <2>1, <2>2 DEF Alone, Same, ClientTypeOK, Http2Loop, wire, h3
  <2> QED BY <1>1, <1>5, <2>2, <2>3, Zenon DEF Http2Loop, wire, h3
<1>6. ASSUME NEW a \in Ids, ConnectionLost(a) \/ (Http2Loop(a) /\ Waiting(a) = {})
      PROVE  ClientInv'
  <2>1. UNCHANGED <<pc, req, attempt, stage, dispatched, reply, copies, bare, on, incoming>>
    BY <1>6, Zenon DEF ConnectionLost, Http2Loop, wire, h3
  <2>2. \A d \in Calls : Same(d)
    BY <2>1, Zenon DEF Same
  <2> QED BY <1>0, <2>1, <2>2, CallKept, QueueKept, Zenon DEF ClientInv
<1> QED BY <1>2, <1>3, <1>4, <1>5, <1>6, Zenon DEF Http2Task

\* Whatever the protocols, the actors and the deadlines of execute_http_parts_streaming and
\* Http3ClientTransport::send do, the invariant holds.
THEOREM ClientInductive == ClientSpec => []ClientInv
<1>1. ClientInit => ClientInv
  <2> SUFFICES ASSUME ClientInit PROVE ClientInv
    BY Zenon
  <2>1. ClientTypeOK
    BY DEF ClientInit, ClientTypeOK
  <2>2. QueueInv
    BY DEF ClientInit, QueueInv
  <2>3. \A c \in Calls : CallInv(c)
    BY DEF ClientInit, CallInv, Unsent, Plain
  <2> QED BY <2>1, <2>2, <2>3, Zenon DEF ClientInv
<1>2. ClientInv /\ [ClientNext]_clientVars => ClientInv'
  <2> SUFFICES ASSUME ClientInv, [ClientNext]_clientVars PROVE ClientInv'
    BY Zenon
  <2>1. CASE UNCHANGED clientVars
    BY <2>1 DEF clientVars, ClientInv, ClientTypeOK, QueueInv, CallInv, Transport
  <2>2. CASE ClientNext
    BY <2>2, CallerStep, Http3Step, Http2Step, Zenon DEF ClientNext
  <2> QED BY <2>1, <2>2, Zenon
<1> QED BY <1>1, <1>2, PTL DEF ClientSpec

\* No call of execute_http_parts_streaming reaches the peer more often than its retries allow,
\* and none without the body it was given, for any number of calls, actors and requests.
THEOREM NeverSentAgain == ClientSpec => []SentOnce
<1>1. ClientInv => SentOnce
  BY Zenon DEF ClientInv, CallInv, SentOnce
<1> QED BY <1>1, ClientInductive, PTL

\* execute_http3_stream and execute_http2_request look at the message's flag before they
\* start it, so the one a caller gave up in the queue is never started.
THEOREM GivenUpStaysUnsent == ClientSpec => CancelledNeverStarts
<1>1. ClientInv /\ [ClientNext]_clientVars => [~StartsGivenUp]_clientVars
  <2> SUFFICES ASSUME ClientInv, ClientNext,
                      NEW c \in Calls, message_cancelled[c], stage[c] \in {"queued", "spawned"},
                      stage'[c] = "headers"
               PROVE  FALSE
    BY Zenon DEF StartsGivenUp
  <2>0. stage \in [Calls -> {"none", "queued", "spawned", "headers", "body", "response", "answered"}]
        /\ incoming \in [Transports -> Seq(Calls)]
    BY Zenon DEF ClientInv, ClientTypeOK
  <2>1. ASSUME NEW d \in Calls, Caller(d) PROVE FALSE
    <3>1. stage' = stage \/ \E l \in {"queued", "none"} : stage' = [stage EXCEPT ![d] = l]
      BY <2>1, Zenon DEF Caller, Begin, Invalid, Http3Connect, Http3Enqueue, Http3QueueTimeout,
         Http3Answered, Http3GiveUp, Http2Connect, Http2Lookup, Http2Start, Http2Publish,
         Http2Enqueue, Http2Answered, Http2GiveUp, Http1Validate, Http1Attempt, Http1TimedOut
    <3> QED BY <2>0, <3>1, Zenon
  <2>2. ASSUME NEW t \in Transports, Http3Take(t) PROVE FALSE
    <3> PICK d : d = Head(incoming[t])
      BY Zenon
    <3>1. \/ stage' = [stage EXCEPT ![d] = "answered"]
          \/ ~message_cancelled[d] /\ stage' = [stage EXCEPT ![d] = "headers"]
      BY <2>2, Zenon DEF Http3Take, Reply
    <3> QED BY <2>0, <3>1, Zenon
  <2>3. ASSUME NEW t \in Transports,
               \/ Http3Headers(t) \/ Http3Body(t) \/ Http3Response(t) \/ Http3Expire(t)
               \/ Http3ActorStops(t)
        PROVE  FALSE
    <3>1. CASE Http3ActorStops(t)
      BY <2>0, <3>1, Zenon DEF Http3ActorStops, Reply
    <3>2. CASE Http3Headers(t) \/ Http3Body(t) \/ Http3Response(t) \/ Http3Expire(t)
      <4>1. \E d \in InFlight(t), l \in {"body", "response", "answered"} :
              stage' = [stage EXCEPT ![d] = l]
        BY <3>2, Zenon DEF Http3Headers, Http3Body, Http3Response, Http3Expire, Reply
      <4> QED BY <2>0, <4>1, Zenon
    <3> QED BY <2>3, <3>1, <3>2, Zenon
  <2>4. ASSUME NEW d \in Calls, Http2Task(d) PROVE FALSE
    <3>1. \/ \E l : l # "headers" /\ stage' = [stage EXCEPT ![d] = l]
          \/ ~message_cancelled[d] /\ stage' = [stage EXCEPT ![d] = "headers"]
      BY <2>4, Zenon DEF Http2Task, Http2Check, Http2Send, Http2Response, Http2Expire, Reply
    <3> QED BY <2>0, <3>1, Zenon
  <2>5. ASSUME NEW a \in Ids, Http2Loop(a) \/ ConnectionLost(a) PROVE FALSE
    <3>1. stage' = stage \/ \E d : stage' = [stage EXCEPT ![d] = "spawned"]
      BY <2>5, Zenon DEF Http2Loop, ConnectionLost
    <3> QED BY <2>0, <3>1, Zenon
  <2> QED BY <2>1, <2>2, <2>3, <2>4, <2>5, Zenon DEF ClientNext, Http3Actor
<1> QED BY <1>1, ClientInductive, PTL DEF ClientSpec, CancelledNeverStarts

=============================================================================
