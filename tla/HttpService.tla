----------------------------- MODULE HttpService -----------------------------
(***************************************************************************)
(* The single-worker HTTP server of src/net.rs: its configuration, the     *)
(* three ways of serving, and the way from a request to the bytes of its   *)
(* response: CORS preflight, handler, static files after a 404, CORS and   *)
(* request-id headers, validation and framing, and the writes.             *)
(*                                                                         *)
(* Headers are sets of name/value pairs; a body is the number of its bytes.*)
(***************************************************************************)
EXTENDS Naturals, FiniteSets

CONSTANTS MaxHeaders,          \* header fields a response may have
          MaxRequests,         \* bound on the connections
          MaxSets              \* bound on the configuration changes

VARIABLES config,              \* the HttpServerConfig handle's entry
          limits,              \* the snapshot a serving call works with
          mode,                \* "idle", "once", "serve", "until", "returned"
          blocking,            \* whether the listener's accept blocks
          cancelled, left, sets,
          pc, request,
          response,            \* what the server means to send
          wire                 \* what the client has received

vars == <<config, limits, mode, blocking, cancelled, left, sets, pc, request, response, wire>>

Inquiries == [method : {"GET", "HEAD", "OPTIONS", "POST"}, origin : {"none", "listed", "other"},
             ask : {"none", "token", "bad"}]

(* What a handler may answer. *)
HandlerHeaders == {{}, {<<"length", 0>>}, {<<"length", 1>>}, {<<"length", 0>>, <<"length", 1>>},
                   {<<"connection", "close">>}, {<<"connection", "close">>, <<"connection", "keep-alive">>},
                   {<<"coding", "chunked">>}, {<<"length", 1>>, <<"id", "own">>}}
Answers == [status : {200, 204, 205}, headers : HandlerHeaders, body : {0, 1}]

NoRequest == [method |-> "GET", origin |-> "none", ask |-> "none"]
Nothing == [status |-> 0, headers |-> {}, body |-> 0]

Init ==
  /\ config = [origins |-> "none", credentials |-> FALSE, root |-> FALSE, numbers |-> "ok"]
  /\ limits = config /\ mode = "idle" /\ blocking = TRUE /\ cancelled = FALSE
  /\ left = 0 /\ sets = 0 /\ pc = "idle"
  /\ request = NoRequest /\ response = Nothing /\ wire = Nothing

-----------------------------------------------------------------------------
(* The configuration.  A setter validates a candidate before it replaces the
   entry. *)

LimitsOk(c) == c.numbers = "ok" /\ ~ (c.credentials /\ c.origins = "star")

SetConfig(candidate) ==
  /\ sets < MaxSets /\ sets' = sets + 1
  /\ config' = IF LimitsOk(candidate) THEN candidate ELSE config
  /\ UNCHANGED <<limits, mode, blocking, cancelled, left, pc, request, response, wire>>

SetNumber == SetConfig([config EXCEPT !.numbers = "out of range"])
SetCorsOrigins == \E o \in {"none", "listed", "star"} : SetConfig([config EXCEPT !.origins = o])
SetCorsCredentials == \E b \in BOOLEAN : SetConfig([config EXCEPT !.credentials = b])
SetStaticRoot == \E b \in BOOLEAN : SetConfig([config EXCEPT !.root = b])

-----------------------------------------------------------------------------
(* The serving calls. *)

Serve(m, n) ==
  /\ mode = "idle" /\ mode' = m /\ left' = n
  /\ limits' = config /\ pc' = "accept"
  /\ UNCHANGED <<config, cancelled, sets, request, response, wire>>

ServeOnce == Serve("once", 1) /\ UNCHANGED blocking

(* Every request of a bounded serve takes the configuration afresh. *)
ServeBounded == \E n \in 1..MaxRequests : Serve("serve", n) /\ UNCHANGED blocking

ServeUntilCancelled == Serve("until", MaxRequests) /\ blocking' = FALSE

Cancel ==
  /\ ~ cancelled /\ cancelled' = TRUE
  /\ UNCHANGED <<config, limits, mode, blocking, left, sets, pc, request, response, wire>>

(* HttpServerListenerModeGuard: restored by the call or by its drop. *)
Return_early ==
  /\ mode' = "returned" /\ pc' = "idle" /\ blocking' = IF pc = "accept" THEN TRUE ELSE blocking
  /\ request' = NoRequest /\ response' = Nothing /\ wire' = Nothing
  /\ UNCHANGED <<config, cancelled, sets, left, limits>>

Return ==
  /\ mode' = "returned" /\ pc' = "idle" /\ blocking' = TRUE
  /\ request' = NoRequest /\ response' = Nothing /\ wire' = Nothing
  /\ UNCHANGED <<config, cancelled, sets, left, limits>>

Stop ==
  /\ pc = "accept" /\ IF mode = "until" THEN cancelled ELSE left = 0
  /\ Return

AcceptFails == pc = "accept" /\ Return

Accept ==
  /\ pc = "accept" /\ left > 0 /\ ~ (mode = "until" /\ cancelled)
  /\ left' = left - 1 /\ pc' = "build"
  /\ limits' = IF mode = "serve" THEN config ELSE limits
  /\ \E q \in Inquiries : request' = q
  /\ UNCHANGED <<config, mode, blocking, cancelled, sets, response, wire>>

ReadFails ==
  /\ pc = "build" /\ Return

-----------------------------------------------------------------------------
(* From the request to the response. *)

Allowed(o) == o # "none" /\ \/ limits.origins = "listed" /\ o = "listed"
                            \/ limits.origins = "star" /\ ~ limits.credentials

Starred == limits.origins = "star" /\ ~ limits.credentials

CorsHeaders(o) ==
  {<<"allow-origin", IF Starred THEN "*" ELSE o>>, <<"vary", "Origin">>}
     \cup (IF limits.credentials THEN {<<"allow-credentials", "true">>} ELSE {})

WithCors_always(h) == IF request.origin # "none" THEN h \cup CorsHeaders(request.origin) ELSE h
WithCors(h) == IF Allowed(request.origin) THEN h \cup CorsHeaders(request.origin) ELSE h

WithRequestId(h) == IF \E v \in h : v[1] = "id" THEN h ELSE h \cup {<<"id", "request">>}

Preflight == request.method = "OPTIONS" /\ request.ask # "none"

PreflightResponse ==
  IF ~ Allowed(request.origin) \/ request.ask = "bad"
  THEN [status |-> 403, headers |-> {}, body |-> 1]
  ELSE [status |-> 204, headers |-> CorsHeaders(request.origin) \cup {<<"allow-methods", "token">>}, body |-> 0]

Respond(r) ==
  /\ response' = [r EXCEPT !.headers = WithRequestId(r.headers)] /\ pc' = "write"
  /\ UNCHANGED <<config, limits, mode, blocking, cancelled, left, sets, request, wire>>

BuildPreflight ==
  /\ pc = "build" /\ Preflight
  /\ IF request.origin = "none" THEN Return
     ELSE Respond(PreflightResponse)

(* A static file: missing, of another kind, too large when looked at or when
   read, already known to the client, or sent. *)
StaticResponse ==
  {[status |-> 404, headers |-> {}, body |-> 1], [status |-> 413, headers |-> {}, body |-> 1],
   [status |-> 304, headers |-> {<<"etag", "e">>}, body |-> 0]}
  \cup [status : {200}, headers : {{<<"etag", "e">>, <<"type", "t">>}}, body : {0, 1}]

StaticApplies(r) == r.status = 404 /\ limits.root /\ request.method \in {"GET", "HEAD"}

BuildHandled ==
  /\ pc = "build" /\ ~ Preflight
  /\ \E r \in Answers :
       IF StaticApplies(r)
       THEN \E f \in StaticResponse : Respond([f EXCEPT !.headers = WithCors(f.headers)])
       ELSE Respond([r EXCEPT !.headers = WithCors(r.headers)])

BuildHandlerError ==
  /\ pc = "build" /\ ~ Preflight
  /\ \E s \in {400, 404, 500} :
       Respond([status |-> s, headers |-> WithCors({<<"type", "text">>}), body |-> 1])

(* A handler that returns no result, or an invalid one. *)
BuildFails == pc = "build" /\ ~ Preflight /\ Return

-----------------------------------------------------------------------------
(* The writer. *)

Bodyless(s) == s \in 100..199 \cup {204, 304}
Field(h, n) == {v[2] : v \in {w \in h : w[1] = n}}

CollectOk(h) == Cardinality(h) <= MaxHeaders /\ Cardinality(Field(h, "length")) <= 1

ConnectionOk(h) == LET c == Field(h, "connection") IN c = {} \/ c = {"close"}

BodylessOk(r) == Bodyless(r.status) => r.body = 0 /\ Field(r.headers, "length") = {}

ResetOk(r) == r.status = 205 => r.body = 0 /\ Field(r.headers, "length") \subseteq {0}

HeaderStateOk_noReset(r) ==
  /\ Field(r.headers, "coding") = {} /\ ConnectionOk(r.headers)
  /\ Field(r.headers, "length") \subseteq {r.body}

HeaderStateOk(r) ==
  /\ Field(r.headers, "coding") = {} /\ ConnectionOk(r.headers)
  /\ Field(r.headers, "length") \subseteq {r.body}
  /\ BodylessOk(r) /\ ResetOk(r)

Framed(r) ==
  r.headers \cup (IF Field(r.headers, "length") # {} \/ Bodyless(r.status) THEN {}
                  ELSE {<<"length", IF r.status = 205 THEN 0 ELSE r.body>>})
            \cup (IF Field(r.headers, "connection") # {} THEN {} ELSE {<<"connection", "close">>})

Valid(r) == CollectOk(r.headers) /\ HeaderStateOk(r) /\ Cardinality(Framed(r)) <= MaxHeaders

WriteRefused == pc = "write" /\ ~ Valid(response) /\ Return

WriteHead ==
  /\ pc = "write" /\ Valid(response)
  /\ wire' = [status |-> response.status, headers |-> Framed(response), body |-> 0]
  /\ pc' = "body"
  /\ UNCHANGED <<config, limits, mode, blocking, cancelled, left, sets, request, response>>

WriteFails == pc \in {"write", "body"} /\ Return

WriteBody ==
  /\ pc = "body"
  /\ wire' = [wire EXCEPT !.body = IF request.method = "HEAD" THEN 0 ELSE response.body]
  /\ pc' = "sent"
  /\ UNCHANGED <<config, limits, mode, blocking, cancelled, left, sets, request, response>>

Served ==
  /\ pc = "sent"
  /\ IF mode = "once" THEN Return
     ELSE /\ pc' = "accept" /\ request' = NoRequest /\ response' = Nothing /\ wire' = Nothing
          /\ UNCHANGED <<config, limits, mode, blocking, cancelled, left, sets>>

Next ==
  \/ SetNumber \/ SetCorsOrigins \/ SetCorsCredentials \/ SetStaticRoot
  \/ ServeOnce \/ ServeBounded \/ ServeUntilCancelled \/ Cancel
  \/ Stop \/ AcceptFails \/ Accept \/ ReadFails
  \/ BuildPreflight \/ BuildHandled \/ BuildHandlerError \/ BuildFails
  \/ WriteRefused \/ WriteHead \/ WriteFails \/ WriteBody \/ Served

Spec == Init /\ [][Next]_vars

-----------------------------------------------------------------------------
(* How long a client takes the body to be: none after HEAD and for the
   statuses without one, else the declared length, else all until the close. *)
ClientReads ==
  IF request.method = "HEAD" \/ Bodyless(wire.status) THEN 0
  ELSE IF Field(wire.headers, "length") # {} THEN CHOOSE n \in Field(wire.headers, "length") : TRUE
  ELSE wire.body

(* A response that was written is understood by the client as it was meant:
   the client takes as body exactly the bytes that follow the headers, which
   are all of the handler's unless the request was HEAD, and it is told one
   length at most, none for a status without body, and that the connection closes.  Whatever headers, status
   and body the handler chose, and whatever the server added. *)
ClientUnderstands ==
  pc = "sent" =>
    /\ ClientReads = wire.body
    /\ wire.body = IF request.method = "HEAD" THEN 0 ELSE response.body
    /\ Cardinality(Field(wire.headers, "length")) <= IF Bodyless(wire.status) THEN 0 ELSE 1
    /\ Field(wire.headers, "connection") = {"close"}
    /\ Field(wire.headers, "id") # {}

(* However the configuration is changed while the server runs, a response
   grants an origin only what the configuration of its request allows, and
   never every origin together with credentials. *)
CorsSound ==
  LET granted == Field(wire.headers, "allow-origin")
  IN  /\ granted # {} => Allowed(request.origin)
      /\ "*" \in granted => Field(wire.headers, "allow-credentials") = {}

(* When a serving call has returned, whichever way, the listener blocks again. *)
ListenerRestored == mode = "returned" => blocking
=============================================================================
