---------------------------- MODULE HttpMessages ----------------------------
(***************************************************************************)
(* The typed HTTP values (src/net.rs): Headers, HttpRequest, HttpResponse. *)
(* A header collection is shared: a Headers handle, a request and a        *)
(* response may all refer to the same one.  A request holds a body of      *)
(* bytes or a reader, which `send' takes; a response is read by position   *)
(* or, when it came from the network, from its reader.  Every call locks   *)
(* the table it uses once, except `send', which lets go while the network  *)
(* works, and the calls that read to the end, which lock for each chunk.   *)
(*                                                                         *)
(* A collection of headers is how often it has each name.  The bytes of a  *)
(* body are numbered, and a body is the number of its last byte.           *)
(***************************************************************************)
EXTENDS Naturals, TLAPS

CONSTANTS
  Senders,              \* the threads
  Hdrs, Colls,
  MaxHeaders, MaxBody,  \* the budget of a collection and of a body
  MaxMessages,          \* bound: calls that start
  Absent

ASSUME MessagesAssumption ==
  MaxHeaders \in Nat \ {0} /\ MaxBody \in Nat \ {0} /\ Absent \notin Nat

VARIABLES
  coll,      \* the header collections
  hdr,       \* Headers handles: the collection and the number of names
  request, answer,
  within,    \* what a thread is in the middle of
  made,      \* calls made
  wanted,    \* the body set last: "none", "bytes", "reader", "spent"
  sent,      \* what the last send put out: body, headers and request ids in it
  handed,    \* bytes of the response's present body handed out
  read       \* the last answer of response_read: "none" or a record

messageVars == <<coll, hdr, request, answer, within, made, wanted, sent, handed, read>>

HeaderNames == {"a", "x-request-id"}
NoHeaders == [n \in HeaderNames |-> 0]
Dead == [names |-> 0]
NoCall == [op |-> "idle"]

MessageInit ==
  /\ coll = [k \in Colls |-> NoHeaders]
  /\ hdr = [h \in Hdrs |-> Dead]
  /\ request = Dead /\ answer = Dead
  /\ within = [t \in Senders |-> NoCall]
  /\ made = 0 /\ wanted = "none" /\ sent = Absent /\ handed = 0 /\ read = Absent

Live(e) == e.names > 0
Used == {hdr[h].coll : h \in {x \in Hdrs : Live(hdr[x])}}
        \cup {e.headers : e \in {x \in {request, answer} : Live(x)}}
FreshColls == Colls \ Used

\* A thread starts a call; every call is counted.
Begins(t) == within[t] = NoCall /\ made < MaxMessages /\ made' = made + 1

validate_http_header_budget(s) == s["a"] + s["x-request-id"] <= MaxHeaders

(***************************************************************************)
(* Headers                                                                 *)
(***************************************************************************)
headers_new(t) ==
  /\ Begins(t)
  /\ \E h \in Hdrs, k \in FreshColls :
       /\ ~Live(hdr[h])
       /\ hdr' = [hdr EXCEPT ![h] = [names |-> 1, coll |-> k]]
       /\ coll' = [coll EXCEPT ![k] = NoHeaders]
  /\ UNCHANGED <<request, answer, within, wanted, sent, handed, read>>

Without(s, n) == [s EXCEPT ![n] = 0]

Store(h, s) ==
  coll' = IF validate_http_header_budget(s) THEN [coll EXCEPT ![hdr[h].coll] = s] ELSE coll

headers_set(t, h, n) ==
  /\ Begins(t) /\ Live(hdr[h])
  /\ Store(h, [Without(coll[hdr[h].coll], n) EXCEPT ![n] = 1])
  /\ UNCHANGED <<hdr, request, answer, within, wanted, sent, handed, read>>

headers_append(t, h, n) ==
  /\ Begins(t) /\ Live(hdr[h])
  /\ Store(h, [coll[hdr[h].coll] EXCEPT ![n] = @ + 1])
  /\ UNCHANGED <<hdr, request, answer, within, wanted, sent, handed, read>>

headers_remove(t, h, n) ==
  /\ Begins(t) /\ Live(hdr[h])
  /\ coll' = [coll EXCEPT ![hdr[h].coll] = Without(@, n)]
  /\ UNCHANGED <<hdr, request, answer, within, wanted, sent, handed, read>>

\* The headers field of a request or response: a new handle on its collection.
headers_field(t, e) ==
  /\ Begins(t) /\ Live(e)
  /\ \E h \in Hdrs : ~Live(hdr[h]) /\ hdr' = [hdr EXCEPT ![h] = [names |-> 1, coll |-> e.headers]]
  /\ UNCHANGED <<coll, request, answer, within, wanted, sent, handed, read>>

copy_headers(t, h) ==
  /\ Begins(t) /\ Live(hdr[h])
  /\ hdr' = [hdr EXCEPT ![h].names = @ + 1]
  /\ UNCHANGED <<coll, request, answer, within, wanted, sent, handed, read>>

drop_headers(t, h) ==
  /\ within[t] = NoCall /\ Live(hdr[h])
  /\ hdr' = [hdr EXCEPT ![h] = IF hdr[h].names = 1 THEN Dead
                               ELSE [hdr[h] EXCEPT !.names = @ - 1]]
  /\ UNCHANGED <<coll, request, answer, within, made, wanted, sent, handed, read>>

(***************************************************************************)
(* Requests                                                                *)
(***************************************************************************)
NewRequest(k, ready, body) ==
  [names |-> 1, ready |-> ready, id |-> FALSE, retries |-> 0, headers |-> k,
   body |-> body, reader |-> FALSE]

request_new(t) ==
  /\ Begins(t) /\ ~Live(request)
  /\ \E k \in FreshColls :
       /\ request' = NewRequest(k, FALSE, FALSE)
       /\ coll' = [coll EXCEPT ![k] = NoHeaders]
  /\ wanted' = "none"
  /\ UNCHANGED <<hdr, answer, within, sent, handed, read>>

\* The configured headers are shared, not copied.
request_from_config(t, h) ==
  /\ Begins(t) /\ ~Live(request) /\ Live(hdr[h])
  /\ validate_http_header_budget(coll[hdr[h].coll])
  /\ request' = NewRequest(hdr[h].coll, TRUE, TRUE)
  /\ wanted' = "bytes"
  /\ UNCHANGED <<coll, hdr, answer, within, sent, handed, read>>

\* method, url, id, proxy and the options; a refused option leaves all of them.
request_set_field(t) ==
  /\ Begins(t) /\ Live(request)
  /\ \/ request' = [request EXCEPT !.ready = TRUE]
     \/ request' = [request EXCEPT !.id = ~@]
     \/ \E n \in 0..2 : request' = IF n <= 1 THEN [request EXCEPT !.retries = n] ELSE request
  /\ UNCHANGED <<coll, hdr, answer, within, wanted, sent, handed, read>>

request_set_headers_field(t, h) ==
  /\ Begins(t) /\ Live(request) /\ Live(hdr[h])
  /\ validate_http_header_budget(coll[hdr[h].coll])
  /\ request' = [request EXCEPT !.headers = hdr[h].coll]
  /\ UNCHANGED <<coll, hdr, answer, within, wanted, sent, handed, read>>

request_set_body(t) ==
  /\ Begins(t) /\ Live(request)
  /\ request' = [request EXCEPT !.body = TRUE, !.reader = FALSE]
  /\ wanted' = "bytes"
  /\ UNCHANGED <<coll, hdr, answer, within, sent, handed, read>>

request_set_body_reader_keepsBytes(t) ==
  /\ Begins(t) /\ Live(request)
  /\ request' = [request EXCEPT !.reader = TRUE]
  /\ wanted' = "reader"
  /\ UNCHANGED <<coll, hdr, answer, within, sent, handed, read>>

request_set_body_reader(t) ==
  /\ Begins(t) /\ Live(request)
  /\ request' = [request EXCEPT !.body = FALSE, !.reader = TRUE]
  /\ wanted' = "reader"
  /\ UNCHANGED <<coll, hdr, answer, within, sent, handed, read>>

drop_http_request(t) ==
  /\ within[t] = NoCall /\ Live(request)
  /\ request' = IF request.names = 1 THEN Dead ELSE [request EXCEPT !.names = @ - 1]
  /\ UNCHANGED <<coll, hdr, answer, within, made, wanted, sent, handed, read>>

copy_http_request(t) ==
  /\ Begins(t) /\ Live(request)
  /\ request' = [request EXCEPT !.names = @ + 1]
  /\ UNCHANGED <<coll, hdr, answer, within, wanted, sent, handed, read>>

\* The entity that goes out: bytes before a reader (execute_http_response).
Entity(e) == IF e.body THEN "bytes" ELSE IF e.reader THEN "reader" ELSE "none"

WithId(e, s) ==
  IF e.id /\ s["x-request-id"] = 0 THEN [s EXCEPT !["x-request-id"] = 1] ELSE s

\* send: everything is taken from the request under the lock, the reader for good.
request_send(t) ==
  /\ Begins(t) /\ Live(request) /\ request.ready
  /\ request' = [request EXCEPT !.reader = FALSE]
  /\ LET headers == coll[request.headers]
         out == WithId(request, headers)
     IN /\ sent' = [entity |-> Entity(request), wanted |-> wanted, given |-> headers,
                    headers |-> out, id |-> request.id]
        /\ within' = [within EXCEPT ![t] = [op |-> "sending"]]
  /\ wanted' = IF wanted = "reader" THEN "spent" ELSE wanted
  /\ UNCHANGED <<coll, hdr, answer, handed, read>>

\* response_entry_from_data: buffered (HTTP/2 and HTTP/3) or streamed (HTTP/1.1), with
\* or without a Content-Length.
send_returns(t) ==
  /\ within[t].op = "sending"
  /\ within' = [within EXCEPT ![t] = NoCall]
  /\ \/ UNCHANGED <<coll, answer, handed, read>>
     \/ /\ ~Live(answer)
        /\ \E k \in FreshColls, total \in 0..(MaxBody + 1), streamed \in BOOLEAN, known \in BOOLEAN :
             /\ ~streamed => total <= MaxBody
             /\ answer' = [names |-> 1, headers |-> k, total |-> total, reader |-> streamed,
                             remaining |-> IF known THEN total ELSE Absent,
                             streamed |-> 0, position |-> 0, failed |-> FALSE]
             /\ coll' = [coll EXCEPT ![k] = [NoHeaders EXCEPT !["a"] = 1]]
        /\ handed' = 0 /\ read' = Absent
  /\ UNCHANGED <<hdr, request, made, wanted, sent>>

(***************************************************************************)
(* Responses                                                               *)
(***************************************************************************)
Buffered(k, total) ==
  [names |-> 1, headers |-> k, total |-> total, reader |-> FALSE, remaining |-> Absent,
   streamed |-> 0, position |-> 0, failed |-> FALSE]

response_new(t) ==
  /\ Begins(t) /\ ~Live(answer)
  /\ \E k \in FreshColls : answer' = Buffered(k, 0) /\ coll' = [coll EXCEPT ![k] = NoHeaders]
  /\ handed' = 0 /\ read' = Absent
  /\ UNCHANGED <<hdr, request, within, wanted, sent>>

response_from_config(t, h) ==
  /\ Begins(t) /\ ~Live(answer) /\ Live(hdr[h])
  /\ validate_http_header_budget(coll[hdr[h].coll])
  /\ \E n \in 0..MaxBody : answer' = Buffered(hdr[h].coll, n)
  /\ handed' = 0 /\ read' = Absent
  /\ UNCHANGED <<coll, hdr, request, within, wanted, sent>>

response_set_headers_field(t, h) ==
  /\ Begins(t) /\ Live(answer) /\ Live(hdr[h])
  /\ validate_http_header_budget(coll[hdr[h].coll])
  /\ answer' = [answer EXCEPT !.headers = hdr[h].coll]
  /\ UNCHANGED <<coll, hdr, request, within, wanted, sent, handed, read>>

response_set_body_field_stays(t) ==
  /\ Begins(t) /\ Live(answer)
  /\ \E n \in 0..MaxBody : answer' = [answer EXCEPT !.total = n, !.reader = FALSE, !.streamed = 0,
                                                     !.failed = FALSE]
  /\ handed' = 0 /\ read' = Absent
  /\ UNCHANGED <<coll, hdr, request, within, wanted, sent>>

response_set_body_field(t) ==
  /\ Begins(t) /\ Live(answer)
  /\ \E n \in 0..MaxBody :
       answer' = [answer EXCEPT !.total = n, !.reader = FALSE, !.streamed = 0, !.position = 0,
                                !.failed = FALSE]
  /\ handed' = 0 /\ read' = Absent
  /\ UNCHANGED <<coll, hdr, request, within, wanted, sent>>

drop_http_response(t) ==
  /\ within[t] = NoCall /\ Live(answer)
  /\ answer' = IF answer.names = 1 THEN Dead ELSE [answer EXCEPT !.names = @ - 1]
  /\ UNCHANGED <<coll, hdr, request, within, made, wanted, sent, handed, read>>

copy_http_response(t) ==
  /\ Begins(t) /\ Live(answer)
  /\ answer' = [answer EXCEPT !.names = @ + 1]
  /\ UNCHANGED <<coll, hdr, request, within, wanted, sent, handed, read>>

Lesser(a, b) == IF a < b THEN a ELSE b

\* The reader's next bytes: short reads are legal, none only at the end; `position'
\* counts what the reader has given.
NetworkRead(allowed) ==
  IF answer.position = answer.total THEN {0} ELSE 1..Lesser(allowed, answer.total - answer.position)

Bytes(n) == [bytes |-> n, from |-> answer.position + 1, error |-> FALSE]
Failure == [bytes |-> 0, from |-> 0, error |-> TRUE]

\* One call of response_read with room for `limit' bytes.
StreamedRead(limit) ==
  IF answer.remaining = 0 THEN answer' = answer /\ read' = Bytes(0)
  ELSE IF answer.streamed >= MaxBody
  THEN IF answer.remaining # Absent THEN answer' = answer /\ read' = Failure
       ELSE IF answer.position = answer.total THEN answer' = answer /\ read' = Bytes(0)
       ELSE answer' = [answer EXCEPT !.position = @ + 1, !.failed = TRUE] /\ read' = Failure
  ELSE LET known == answer.remaining # Absent
           allowed == Lesser(IF known THEN Lesser(limit, answer.remaining) ELSE limit,
                              MaxBody - answer.streamed)
       IN \/ \E n \in NetworkRead(allowed) :
               /\ answer' = [answer EXCEPT !.position = @ + n, !.streamed = @ + n,
                                               !.remaining = IF known THEN @ - n ELSE @]
               /\ read' = Bytes(n)
          \/ answer' = [answer EXCEPT !.failed = TRUE] /\ read' = Failure

BufferedRead(limit) ==
  LET end == Lesser(answer.position + limit, answer.total)
  IN answer' = [answer EXCEPT !.position = end] /\ read' = Bytes(end - answer.position)

response_read(limit) ==
  /\ IF answer.reader THEN StreamedRead(limit) ELSE BufferedRead(limit)
  /\ handed' = handed + read'.bytes

\* read_bytes, reader, read_text and read_json: what fails to decode is consumed too.
response_read_bytes(t, limit) ==
  /\ Begins(t) /\ Live(answer)
  /\ response_read(limit)
  /\ UNCHANGED <<coll, hdr, request, within, wanted, sent>>

\* save, and the bodies a server sends: chunk after chunk until an empty one.
response_save(t) ==
  /\ Begins(t) /\ Live(answer)
  /\ within' = [within EXCEPT ![t] = [op |-> "reading"]]
  /\ UNCHANGED <<coll, hdr, request, answer, wanted, sent, handed, read>>

response_read_to_end(t) ==
  /\ within[t].op = "reading"
  /\ IF Live(answer)
     THEN /\ response_read(MaxBody)
          /\ within' = [within EXCEPT ![t] = IF read'.bytes = 0 THEN NoCall ELSE @]
     ELSE within' = [within EXCEPT ![t] = NoCall] /\ UNCHANGED <<answer, handed, read>>
  /\ UNCHANGED <<coll, hdr, request, made, wanted, sent>>

MessageNext ==
  \E t \in Senders :
    \/ headers_new(t) \/ request_new(t) \/ request_set_field(t) \/ request_set_body(t)
    \/ request_set_body_reader(t) \/ drop_http_request(t) \/ copy_http_request(t)
    \/ request_send(t) \/ send_returns(t)
    \/ response_new(t) \/ response_set_body_field(t) \/ drop_http_response(t)
    \/ copy_http_response(t) \/ response_save(t) \/ response_read_to_end(t)
    \/ headers_field(t, request) \/ headers_field(t, answer)
    \/ \E limit \in 1..MaxBody : response_read_bytes(t, limit)
    \/ \E h \in Hdrs :
         \/ copy_headers(t, h) \/ drop_headers(t, h)
         \/ request_from_config(t, h) \/ request_set_headers_field(t, h)
         \/ response_from_config(t, h) \/ response_set_headers_field(t, h)
         \/ \E n \in HeaderNames :
              headers_set(t, h, n) \/ headers_append(t, h, n) \/ headers_remove(t, h, n)

MessageSpec == MessageInit /\ [][MessageNext]_messageVars

(***************************************************************************)
(* Properties                                                              *)
(***************************************************************************)

\* No collection anything refers to outgrows the header budget, and an entry lives
\* exactly as long as it has names.
MessageTypeOK ==
  /\ coll \in [Colls -> [HeaderNames -> Nat]]
  /\ \A k \in Used : validate_http_header_budget(coll[k])
  /\ \A h \in Hdrs : hdr[h] = Dead \/ hdr[h] \in [names : Nat \ {0}, coll : Colls]
  /\ wanted \in {"none", "bytes", "reader", "spent"}

\* What a send puts out is the body that was set last (a reader once), the headers of
\* the collection, and one x-request-id when the request has an id and none was given.
SentMatches ==
  sent # Absent =>
    /\ sent.entity = IF sent.wanted = "spent" THEN "none" ELSE sent.wanted
    /\ sent.headers["a"] = sent.given["a"]
    /\ sent.headers["x-request-id"] =
         IF sent.id /\ sent.given["x-request-id"] = 0 THEN 1 ELSE sent.given["x-request-id"]

\* However threads share a response, every byte of its body is handed out once and in
\* order; an empty answer before any failure means that all of them were.
BodyReadOnce ==
  Live(answer) /\ read # Absent /\ ~read.error /\ ~answer.failed =>
    /\ read.bytes > 0 => read.from + read.bytes - 1 = handed
    /\ read.bytes = 0 => handed = answer.total
    /\ handed <= MaxBody

\* A send puts out what was set last, and a response's body is handed out once.
SentAsSet == MessageTypeOK /\ SentMatches /\ BodyReadOnce

(***************************************************************************)
(* Proofs.  What a request would send is what was set last, whoever set    *)
(* it; a response that has not failed stands where its readers have been   *)
(* handed its bytes up to, and knows what remains.                         *)
(***************************************************************************)
RequestSet ==
  [names : Nat \ {0}, ready : BOOLEAN, id : BOOLEAN, retries : 0..1, headers : Colls,
   body : BOOLEAN, reader : BOOLEAN]
AnswerSet ==
  [names : Nat \ {0}, headers : Colls, total : Nat, reader : BOOLEAN,
   remaining : Nat \cup {Absent}, streamed : Nat, position : Nat, failed : BOOLEAN]

CollInv ==
  coll \in [Colls -> [HeaderNames -> Nat]] /\ \A k \in Colls : validate_http_header_budget(coll[k])
HdrInv == hdr \in [Hdrs -> {Dead} \cup [names : Nat \ {0}, coll : Colls]]
RequestInv ==
  /\ request \in {Dead} \cup RequestSet /\ wanted \in {"none", "bytes", "reader", "spent"}
  /\ Live(request) => Entity(request) = IF wanted = "spent" THEN "none" ELSE wanted
PlaceInv ==
  /\ answer.position <= answer.total /\ answer.streamed <= MaxBody
  /\ ~answer.reader => answer.total <= MaxBody
  /\ ~answer.failed =>
       /\ answer.position = handed
       /\ answer.reader => answer.streamed = answer.position
       /\ answer.reader /\ answer.remaining # Absent => answer.remaining = answer.total - answer.position
AnswerInv ==
  /\ answer \in {Dead} \cup AnswerSet /\ handed \in Nat
  /\ Live(answer) => PlaceInv
  /\ BodyReadOnce

MessageInv == CollInv /\ HdrInv /\ RequestInv /\ SentMatches /\ AnswerInv

(* What a step leaves alone stays as it is. *)
LEMMA PartsSame ==
  ASSUME MessageInv
  PROVE  /\ UNCHANGED coll => CollInv'
         /\ UNCHANGED hdr => HdrInv'
         /\ UNCHANGED <<request, wanted>> => RequestInv'
         /\ UNCHANGED sent => SentMatches'
         /\ UNCHANGED <<answer, handed, read>> => AnswerInv'
<1>1. UNCHANGED coll => CollInv'
  BY Zenon DEF MessageInv, CollInv
<1>2. UNCHANGED hdr => HdrInv'
  BY Zenon DEF MessageInv, HdrInv
<1>3. UNCHANGED <<request, wanted>> => RequestInv'
  BY Zenon DEF MessageInv, RequestInv, Live, Entity
<1>4. UNCHANGED sent => SentMatches'
  BY Zenon DEF MessageInv, SentMatches
<1>5. UNCHANGED <<answer, handed, read>> => AnswerInv'
  BY Zenon DEF MessageInv, AnswerInv, PlaceInv, BodyReadOnce, Live
<1> QED BY <1>1, <1>2, <1>3, <1>4, <1>5, Zenon

(* A handle, a request and a response that are alive have their fields. *)
LEMMA LiveHandle ==
  ASSUME HdrInv, NEW h \in Hdrs, Live(hdr[h])
  PROVE  hdr[h] \in [names : Nat \ {0}, coll : Colls] /\ hdr[h].coll \in Colls
BY DEF HdrInv, Live, Dead

LEMMA LiveRequest ==
  ASSUME RequestInv, Live(request)
  PROVE  request \in RequestSet /\ request.headers \in Colls
BY DEF RequestInv, RequestSet, Live, Dead

LEMMA LiveAnswer ==
  ASSUME AnswerInv, Live(answer)
  PROVE  answer \in AnswerSet /\ answer.headers \in Colls
BY DEF AnswerInv, AnswerSet, Live, Dead

(* A collection is written within the budget, or not at all. *)
LEMMA CollSet ==
  ASSUME CollInv, NEW k \in Colls, NEW s \in [HeaderNames -> Nat], validate_http_header_budget(s),
         coll' = [coll EXCEPT ![k] = s]
  PROVE  CollInv'
<1>1. coll' \in [Colls -> [HeaderNames -> Nat]]
  BY DEF CollInv
<1>2. ASSUME NEW l \in Colls PROVE validate_http_header_budget(coll'[l])
  <2>1. CASE l = k
    <3>1. coll'[l] = s
      BY <2>1 DEF CollInv
    <3> QED BY <3>1, Zenon
  <2>2. CASE l # k
    <3>1. coll'[l] = coll[l]
      BY <2>2 DEF CollInv
    <3> QED BY <3>1, Zenon DEF CollInv
  <2> QED BY <2>1, <2>2
<1> QED BY <1>1, <1>2, Zenon DEF CollInv, validate_http_header_budget

LEMMA NoHeadersFit ==
  NoHeaders \in [HeaderNames -> Nat] /\ validate_http_header_budget(NoHeaders)
BY MessagesAssumption DEF NoHeaders, HeaderNames, validate_http_header_budget

LEMMA StoreKeeps ==
  ASSUME CollInv, NEW h \in Hdrs, hdr[h].coll \in Colls, NEW s \in [HeaderNames -> Nat], Store(h, s)
  PROVE  CollInv'
<1>1. CASE validate_http_header_budget(s)
  <2>1. coll' = [coll EXCEPT ![hdr[h].coll] = s]
    BY <1>1, Zenon DEF Store
  <2> QED BY <1>1, <2>1, CollSet, Zenon
<1>2. CASE ~validate_http_header_budget(s)
  <2>1. coll' = coll
    BY <1>2, Zenon DEF Store
  <2> QED BY <2>1, Zenon DEF CollInv
<1> QED BY <1>1, <1>2, Zenon

LEMMA WithoutFits ==
  ASSUME NEW s \in [HeaderNames -> Nat], NEW n \in HeaderNames, validate_http_header_budget(s)
  PROVE  Without(s, n) \in [HeaderNames -> Nat] /\ validate_http_header_budget(Without(s, n))
<1>1. Without(s, n) \in [HeaderNames -> Nat]
  BY DEF Without
<1>2. s["a"] \in Nat /\ s["x-request-id"] \in Nat
  BY DEF HeaderNames
<1>3. CASE n = "a"
  <2>1. Without(s, n)["a"] = 0 /\ Without(s, n)["x-request-id"] = s["x-request-id"]
    BY <1>3 DEF Without, HeaderNames
  <2> QED BY <1>1, <1>2, <2>1, MessagesAssumption DEF validate_http_header_budget
<1>4. CASE n = "x-request-id"
  <2>1. Without(s, n)["a"] = s["a"] /\ Without(s, n)["x-request-id"] = 0
    BY <1>4 DEF Without, HeaderNames
  <2> QED BY <1>1, <1>2, <2>1, MessagesAssumption DEF validate_http_header_budget
<1> QED BY <1>3, <1>4 DEF HeaderNames

LEMMA HdrSet ==
  ASSUME HdrInv, NEW h \in Hdrs, NEW v \in {Dead} \cup [names : Nat \ {0}, coll : Colls],
         hdr' = [hdr EXCEPT ![h] = v]
  PROVE  HdrInv'
BY DEF HdrInv, Dead

-----------------------------------------------------------------------------
(* Headers: a call on them touches a collection or a handle. *)
LEMMA HeadersKeep ==
  ASSUME MessageInv, NEW t \in Senders, NEW h \in Hdrs, NEW n \in HeaderNames,
         headers_set(t, h, n) \/ headers_append(t, h, n) \/ headers_remove(t, h, n)
  PROVE  MessageInv'
<1> DEFINE s == coll[hdr[h].coll]
<1>1. Live(hdr[h]) /\ UNCHANGED <<hdr, request, answer, wanted, sent, handed, read>>
  BY DEF headers_set, headers_append, headers_remove
<1>2. CollInv /\ hdr[h].coll \in Colls
  BY <1>1, LiveHandle, Zenon DEF MessageInv
<1>3. s \in [HeaderNames -> Nat] /\ validate_http_header_budget(s)
  BY <1>2 DEF CollInv
<1>4. Without(s, n) \in [HeaderNames -> Nat] /\ validate_http_header_budget(Without(s, n))
  BY <1>3, WithoutFits, Zenon
<1>5. CollInv'
  <2>1. CASE headers_set(t, h, n)
    <3>1. [Without(s, n) EXCEPT ![n] = 1] \in [HeaderNames -> Nat]
      BY <1>4
    <3>2. Store(h, [Without(s, n) EXCEPT ![n] = 1])
      BY <2>1, Zenon DEF headers_set
    <3> QED BY <1>2, <3>1, <3>2, StoreKeeps, Zenon
  <2>2. CASE headers_append(t, h, n)
    <3>1. [s EXCEPT ![n] = @ + 1] \in [HeaderNames -> Nat]
      BY <1>3
    <3>2. Store(h, [s EXCEPT ![n] = @ + 1])
      BY <2>2, Zenon DEF headers_append
    <3> QED BY <1>2, <3>1, <3>2, StoreKeeps, Zenon
  <2>3. CASE headers_remove(t, h, n)
    <3>1. coll' = [coll EXCEPT ![hdr[h].coll] = Without(s, n)]
      BY <1>2, <2>3 DEF headers_remove, CollInv
    <3> QED BY <1>2, <1>4, <3>1, CollSet, Zenon
  <2> QED BY <2>1, <2>2, <2>3, Zenon
<1> QED BY <1>1, <1>5, PartsSame, Zenon DEF MessageInv

LEMMA NewHeadersKeep ==
  ASSUME MessageInv, NEW t \in Senders, headers_new(t)
  PROVE  MessageInv'
<1>1. PICK h \in Hdrs, k \in FreshColls :
        /\ hdr' = [hdr EXCEPT ![h] = [names |-> 1, coll |-> k]]
        /\ coll' = [coll EXCEPT ![k] = NoHeaders]
  BY Zenon DEF headers_new
<1>2. k \in Colls
  BY DEF FreshColls
<1>3. [names |-> 1, coll |-> k] \in {Dead} \cup [names : Nat \ {0}, coll : Colls]
  BY <1>2
<1>4. HdrInv'
  BY <1>1, <1>3, HdrSet, Zenon DEF MessageInv
<1>5. CollInv'
  BY <1>1, <1>2, NoHeadersFit, CollSet, Zenon DEF MessageInv
<1>6. UNCHANGED <<request, answer, wanted, sent, handed, read>>
  BY DEF headers_new
<1> QED BY <1>4, <1>5, <1>6, PartsSame, Zenon DEF MessageInv

LEMMA HandlesKeep ==
  ASSUME MessageInv, NEW t \in Senders, NEW h \in Hdrs, copy_headers(t, h) \/ drop_headers(t, h)
  PROVE  MessageInv'
<1>1. UNCHANGED <<coll, request, answer, wanted, sent, handed, read>>
  BY DEF copy_headers, drop_headers
<1>2. hdr[h] \in [names : Nat \ {0}, coll : Colls] /\ HdrInv
  BY LiveHandle, Zenon DEF copy_headers, drop_headers, MessageInv
<1>3. HdrInv'
  <2>1. CASE copy_headers(t, h)
    <3>1. hdr' = [hdr EXCEPT ![h] = [hdr[h] EXCEPT !.names = @ + 1]]
      BY <1>2, <2>1 DEF copy_headers, HdrInv
    <3>2. [hdr[h] EXCEPT !.names = @ + 1] \in {Dead} \cup [names : Nat \ {0}, coll : Colls]
      BY <1>2
    <3> QED BY <1>2, <3>1, <3>2, HdrSet, Zenon
  <2>2. CASE drop_headers(t, h)
    <3> DEFINE v == IF hdr[h].names = 1 THEN Dead ELSE [hdr[h] EXCEPT !.names = @ - 1]
    <3>1. hdr' = [hdr EXCEPT ![h] = v]
      BY <2>2, Zenon DEF drop_headers
    <3>2. v \in {Dead} \cup [names : Nat \ {0}, coll : Colls]
      BY <1>2
    <3> QED BY <1>2, <3>1, <3>2, HdrSet, Zenon
  <2> QED BY <2>1, <2>2, Zenon
<1> QED BY <1>1, <1>3, PartsSame, Zenon DEF MessageInv

LEMMA FieldKeeps ==
  ASSUME MessageInv, NEW t \in Senders, headers_field(t, request) \/ headers_field(t, answer)
  PROVE  MessageInv'
<1>1. PICK e \in {request, answer} : headers_field(t, e)
  BY Zenon
<1>2. e.headers \in Colls
  BY <1>1, LiveRequest, LiveAnswer, Zenon DEF headers_field, MessageInv
<1>3. PICK h \in Hdrs : hdr' = [hdr EXCEPT ![h] = [names |-> 1, coll |-> e.headers]]
  BY <1>1, Zenon DEF headers_field
<1>4. [names |-> 1, coll |-> e.headers] \in {Dead} \cup [names : Nat \ {0}, coll : Colls]
  BY <1>2
<1>5. HdrInv'
  BY <1>3, <1>4, HdrSet, Zenon DEF MessageInv
<1>6. UNCHANGED <<coll, request, answer, wanted, sent, handed, read>>
  BY <1>1 DEF headers_field
<1> QED BY <1>5, <1>6, PartsSame, Zenon DEF MessageInv

-----------------------------------------------------------------------------
(* Requests: what would go out is what was set last. *)
LEMMA NewRequestKeeps ==
  ASSUME MessageInv, NEW t \in Senders, request_new(t) \/ \E h \in Hdrs : request_from_config(t, h)
  PROVE  MessageInv'
<1>1. CASE request_new(t)
  <2>1. PICK k \in FreshColls :
          request' = NewRequest(k, FALSE, FALSE) /\ coll' = [coll EXCEPT ![k] = NoHeaders]
    BY <1>1, Zenon DEF request_new
  <2>2. k \in Colls
    BY DEF FreshColls
  <2>3. CollInv'
    BY <2>1, <2>2, NoHeadersFit, CollSet, Zenon DEF MessageInv
  <2>4. wanted' = "none" /\ UNCHANGED <<hdr, answer, sent, handed, read>>
    BY <1>1 DEF request_new
  <2>5. request' \in RequestSet /\ Entity(request)' = "none"
    BY <2>1, <2>2 DEF NewRequest, RequestSet, Entity
  <2>6. RequestInv'
    BY <2>4, <2>5 DEF RequestInv
  <2> QED BY <2>3, <2>4, <2>6, PartsSame, Zenon DEF MessageInv
<1>2. ASSUME NEW h \in Hdrs, request_from_config(t, h) PROVE MessageInv'
  <2>1. hdr[h].coll \in Colls
    BY <1>2, LiveHandle, Zenon DEF request_from_config, MessageInv
  <2>2. /\ request' = NewRequest(hdr[h].coll, TRUE, TRUE) /\ wanted' = "bytes"
        /\ UNCHANGED <<coll, hdr, answer, sent, handed, read>>
    BY <1>2 DEF request_from_config
  <2>3. request' \in RequestSet /\ Entity(request)' = "bytes"
    BY <2>1, <2>2 DEF NewRequest, RequestSet, Entity
  <2>4. RequestInv'
    BY <2>2, <2>3 DEF RequestInv
  <2> QED BY <2>2, <2>4, PartsSame, Zenon DEF MessageInv
<1> QED BY <1>1, <1>2, Zenon

(* Whatever else of a request is set, its body stays. *)
LEMMA SameBody ==
  ASSUME RequestInv, Live(request), wanted' = wanted, request' \in RequestSet,
         request'.body = request.body, request'.reader = request.reader
  PROVE  RequestInv'
<1>1. Entity(request)' = Entity(request)
  BY Zenon DEF Entity
<1> QED BY <1>1 DEF RequestInv

LEMMA RequestFieldsKeep ==
  ASSUME MessageInv, NEW t \in Senders,
         \/ request_set_field(t) \/ copy_http_request(t) \/ drop_http_request(t)
         \/ \E h \in Hdrs : request_set_headers_field(t, h)
  PROVE  MessageInv'
<1>1. Live(request) /\ UNCHANGED <<coll, hdr, answer, wanted, sent, handed, read>>
  BY DEF request_set_field, copy_http_request, drop_http_request, request_set_headers_field
<1>2. RequestInv /\ request \in RequestSet
  BY <1>1, LiveRequest, Zenon DEF MessageInv
<1>3. CASE request' = Dead
  <2>1. RequestInv'
    BY <1>1, <1>2, <1>3 DEF RequestInv, Live, Dead
  <2> QED BY <1>1, <2>1, PartsSame, Zenon DEF MessageInv
<1>4. CASE request' # Dead
  <2>1. /\ request' \in RequestSet
        /\ request'.body = request.body /\ request'.reader = request.reader
    <3>1. CASE request_set_field(t)
      <4>1. CASE request' = [request EXCEPT !.ready = TRUE]
        BY <1>2, <4>1 DEF RequestSet
      <4>2. CASE request' = [request EXCEPT !.id = ~@]
        <5>1. PICK b \in BOOLEAN : request' = [request EXCEPT !.id = b]
          BY <4>2, Zenon
        <5> QED BY <1>2, <5>1 DEF RequestSet
      <4>3. CASE \E n \in 0..1 : request' = [request EXCEPT !.retries = n]
        BY <1>2, <4>3 DEF RequestSet
      <4>4. CASE request' = request
        BY <1>2, <4>4, Zenon
      <4>5. \A n \in 0..2 : n <= 1 => n \in 0..1
        OBVIOUS
      <4> QED BY <3>1, <4>1, <4>2, <4>3, <4>4, <4>5, Zenon DEF request_set_field
    <3>2. CASE copy_http_request(t)
      BY <1>2, <3>2 DEF copy_http_request, RequestSet
    <3>3. CASE drop_http_request(t)
      BY <1>2, <1>4, <3>3 DEF drop_http_request, RequestSet
    <3>4. ASSUME NEW h \in Hdrs, request_set_headers_field(t, h)
          PROVE  /\ request' \in RequestSet
                 /\ request'.body = request.body /\ request'.reader = request.reader
      <4>1. hdr[h].coll \in Colls
        BY <3>4, LiveHandle, Zenon DEF request_set_headers_field, MessageInv
      <4> QED BY <1>2, <3>4, <4>1 DEF request_set_headers_field, RequestSet
    <3> QED BY <3>1, <3>2, <3>3, <3>4, Zenon
  <2>2. RequestInv'
    BY <1>1, <1>2, <2>1, SameBody, Zenon
  <2> QED BY <1>1, <2>2, PartsSame, Zenon DEF MessageInv
<1> QED BY <1>3, <1>4, Zenon

LEMMA BodiesKeep ==
  ASSUME MessageInv, NEW t \in Senders, request_set_body(t) \/ request_set_body_reader(t)
  PROVE  MessageInv'
<1>1. Live(request) /\ UNCHANGED <<coll, hdr, answer, sent, handed, read>>
  BY DEF request_set_body, request_set_body_reader
<1>2. request \in RequestSet
  BY <1>1, LiveRequest, Zenon DEF MessageInv
<1>3. RequestInv'
  <2>1. CASE request_set_body(t)
    <3>1. request' \in RequestSet /\ request'.body /\ wanted' = "bytes"
      BY <1>2, <2>1 DEF request_set_body, RequestSet
    <3> QED BY <3>1 DEF RequestInv, Entity
  <2>2. CASE request_set_body_reader(t)
    <3>1. request' \in RequestSet /\ ~request'.body /\ request'.reader /\ wanted' = "reader"
      BY <1>2, <2>2 DEF request_set_body_reader, RequestSet
    <3> QED BY <3>1 DEF RequestInv, Entity
  <2> QED BY <2>1, <2>2, Zenon
<1> QED BY <1>1, <1>3, PartsSame, Zenon DEF MessageInv

(* A send puts out the body set last; its reader does not go out again. *)
LEMMA SendKeeps ==
  ASSUME MessageInv, NEW t \in Senders, request_send(t)
  PROVE  MessageInv'
<1> DEFINE given == coll[request.headers]
<1>1. Live(request) /\ UNCHANGED <<coll, hdr, answer, handed, read>>
  BY DEF request_send
<1>2. request \in RequestSet /\ request.headers \in Colls
  BY <1>1, LiveRequest, Zenon DEF MessageInv
<1>3. Entity(request) = IF wanted = "spent" THEN "none" ELSE wanted
  BY <1>1, Zenon DEF MessageInv, RequestInv
<1>4. wanted \in {"none", "bytes", "reader", "spent"}
  BY Zenon DEF MessageInv, RequestInv
<1>5. given \in [HeaderNames -> Nat]
  BY <1>2 DEF MessageInv, CollInv
<1>6. request' = [request EXCEPT !.reader = FALSE]
  BY DEF request_send
<1>7. wanted' = IF wanted = "reader" THEN "spent" ELSE wanted
  BY DEF request_send
<1>8. request' \in RequestSet /\ request'.body = request.body /\ request'.reader = FALSE
  BY <1>2, <1>6 DEF RequestSet
<1>9. request.body \in BOOLEAN /\ request.reader \in BOOLEAN
  BY <1>2 DEF RequestSet
<1>10. RequestInv'
  <2>1. CASE wanted = "bytes"
    BY <1>3, <1>7, <1>8, <1>9, <2>1 DEF RequestInv, Entity
  <2>2. CASE wanted = "reader"
    BY <1>3, <1>7, <1>8, <1>9, <2>2 DEF RequestInv, Entity
  <2>3. CASE wanted \in {"none", "spent"}
    BY <1>3, <1>7, <1>8, <1>9, <2>3 DEF RequestInv, Entity
  <2> QED BY <1>4, <2>1, <2>2, <2>3
<1>11. SentMatches'
  <2>1. sent' = [entity |-> Entity(request), wanted |-> wanted, given |-> given,
                 headers |-> WithId(request, given), id |-> request.id]
    BY DEF request_send
  <2>2. sent'.entity = Entity(request) /\ sent'.wanted = wanted /\ sent'.given = given
        /\ sent'.headers = WithId(request, given) /\ sent'.id = request.id
    BY <2>1
  <2>3. WithId(request, given)["a"] = given["a"]
    BY <1>5 DEF WithId, HeaderNames
  <2>4. WithId(request, given)["x-request-id"] =
          IF request.id /\ given["x-request-id"] = 0 THEN 1 ELSE given["x-request-id"]
    BY <1>5 DEF WithId, HeaderNames
  <2> QED BY <1>3, <2>2, <2>3, <2>4, Zenon DEF SentMatches
<1> QED BY <1>1, <1>10, <1>11, PartsSame, Zenon DEF MessageInv

-----------------------------------------------------------------------------
(* Responses: a new body is at its start, with nothing handed out. *)
LEMMA AtStart ==
  ASSUME answer' \in AnswerSet, answer'.position = 0, answer'.streamed = 0,
         ~answer'.reader => answer'.total <= MaxBody,
         answer'.reader => answer'.remaining \in {answer'.total, Absent},
         handed' = 0, read' = Absent
  PROVE  AnswerInv'
<1>1. answer'.total \in Nat /\ MaxBody \in Nat
  BY MessagesAssumption DEF AnswerSet
<1>2. PlaceInv'
  BY <1>1 DEF PlaceInv
<1>3. BodyReadOnce'
  BY DEF BodyReadOnce
<1> QED BY <1>2, <1>3 DEF AnswerInv

LEMMA SendReturnsKeeps ==
  ASSUME MessageInv, NEW t \in Senders, send_returns(t)
  PROVE  MessageInv'
<1>1. UNCHANGED <<hdr, request, wanted, sent>>
  BY DEF send_returns
<1>2. CASE UNCHANGED <<coll, answer, handed, read>>
  BY <1>1, <1>2, PartsSame, Zenon DEF MessageInv
<1>3. CASE ~UNCHANGED <<coll, answer, handed, read>>
  <2>1. PICK k \in FreshColls, total \in 0..(MaxBody + 1), streamed \in BOOLEAN, known \in BOOLEAN :
          /\ ~streamed => total <= MaxBody
          /\ answer' = [names |-> 1, headers |-> k, total |-> total, reader |-> streamed,
                        remaining |-> IF known THEN total ELSE Absent,
                        streamed |-> 0, position |-> 0, failed |-> FALSE]
          /\ coll' = [coll EXCEPT ![k] = [NoHeaders EXCEPT !["a"] = 1]]
    BY <1>3, Zenon DEF send_returns
  <2>2. handed' = 0 /\ read' = Absent
    BY <1>3, Zenon DEF send_returns
  <2>3. k \in Colls
    BY DEF FreshColls
  <2>4. [NoHeaders EXCEPT !["a"] = 1] \in [HeaderNames -> Nat]
        /\ validate_http_header_budget([NoHeaders EXCEPT !["a"] = 1])
    BY MessagesAssumption DEF NoHeaders, HeaderNames, validate_http_header_budget
  <2>5. CollInv'
    BY <2>1, <2>3, <2>4, CollSet, Zenon DEF MessageInv
  <2>6. answer' \in AnswerSet
    BY <2>1, <2>3, MessagesAssumption DEF AnswerSet
  <2>7. /\ answer'.position = 0 /\ answer'.streamed = 0
        /\ ~answer'.reader => answer'.total <= MaxBody
        /\ answer'.reader => answer'.remaining \in {answer'.total, Absent}
    BY <2>1
  <2>8. AnswerInv'
    BY <2>2, <2>6, <2>7, AtStart, Zenon
  <2> QED BY <1>1, <2>5, <2>8, PartsSame, Zenon DEF MessageInv
<1> QED BY <1>2, <1>3, Zenon

LEMMA NewAnswerKeeps ==
  ASSUME MessageInv, NEW t \in Senders, response_new(t) \/ \E h \in Hdrs : response_from_config(t, h)
  PROVE  MessageInv'
<1>1. ASSUME NEW k \in Colls, NEW n \in 0..MaxBody, answer' = Buffered(k, n), handed' = 0, read' = Absent
      PROVE  AnswerInv'
  <2>1. answer' \in AnswerSet
    BY <1>1, MessagesAssumption DEF AnswerSet, Buffered
  <2>2. /\ answer'.position = 0 /\ answer'.streamed = 0
        /\ answer'.total <= MaxBody /\ answer'.reader = FALSE
    BY <1>1, MessagesAssumption DEF Buffered
  <2> QED BY <1>1, <2>1, <2>2, AtStart, Zenon
<1>2. CASE response_new(t)
  <2>1. PICK k \in FreshColls : answer' = Buffered(k, 0) /\ coll' = [coll EXCEPT ![k] = NoHeaders]
    BY <1>2, Zenon DEF response_new
  <2>2. k \in Colls /\ 0 \in 0..MaxBody
    BY MessagesAssumption DEF FreshColls
  <2>3. CollInv'
    BY <2>1, <2>2, NoHeadersFit, CollSet, Zenon DEF MessageInv
  <2>4. handed' = 0 /\ read' = Absent /\ UNCHANGED <<hdr, request, wanted, sent>>
    BY <1>2 DEF response_new
  <2>5. AnswerInv'
    BY <1>1, <2>1, <2>2, <2>4, Zenon
  <2> QED BY <2>3, <2>4, <2>5, PartsSame, Zenon DEF MessageInv
<1>3. ASSUME NEW h \in Hdrs, response_from_config(t, h) PROVE MessageInv'
  <2>1. hdr[h].coll \in Colls
    BY <1>3, LiveHandle, Zenon DEF response_from_config, MessageInv
  <2>2. handed' = 0 /\ read' = Absent /\ UNCHANGED <<coll, hdr, request, wanted, sent>>
    BY <1>3 DEF response_from_config
  <2>3. PICK n \in 0..MaxBody : answer' = Buffered(hdr[h].coll, n)
    BY <1>3, Zenon DEF response_from_config
  <2>4. AnswerInv'
    BY <1>1, <2>1, <2>2, <2>3, Zenon
  <2> QED BY <2>2, <2>4, PartsSame, Zenon DEF MessageInv
<1> QED BY <1>2, <1>3, Zenon

LEMMA AnswerFieldsKeep ==
  ASSUME MessageInv, NEW t \in Senders,
         \/ copy_http_response(t) \/ drop_http_response(t)
         \/ \E h \in Hdrs : response_set_headers_field(t, h)
  PROVE  MessageInv'
<1>1. Live(answer) /\ UNCHANGED <<coll, hdr, request, wanted, sent, handed, read>>
  BY DEF copy_http_response, drop_http_response, response_set_headers_field
<1>2. AnswerInv /\ answer \in AnswerSet
  BY <1>1, LiveAnswer, Zenon DEF MessageInv
<1>3. CASE answer' = Dead
  <2>1. ~Live(answer)'
    BY <1>3 DEF Live, Dead
  <2>2. AnswerInv'
    BY <1>1, <1>2, <1>3, <2>1, Zenon DEF AnswerInv, BodyReadOnce
  <2> QED BY <1>1, <2>2, PartsSame, Zenon DEF MessageInv
<1>4. CASE answer' # Dead
  <2>1. /\ answer' \in AnswerSet
        /\ answer'.total = answer.total /\ answer'.reader = answer.reader
        /\ answer'.remaining = answer.remaining /\ answer'.streamed = answer.streamed
        /\ answer'.position = answer.position /\ answer'.failed = answer.failed
    <3>1. CASE copy_http_response(t)
      BY <1>2, <3>1 DEF copy_http_response, AnswerSet
    <3>2. CASE drop_http_response(t)
      BY <1>2, <1>4, <3>2 DEF drop_http_response, AnswerSet
    <3>3. CASE \E h \in Hdrs : response_set_headers_field(t, h)
      <4>1. PICK h \in Hdrs : response_set_headers_field(t, h)
        BY <3>3
      <4>2. hdr[h].coll \in Colls
        BY <4>1, LiveHandle, Zenon DEF response_set_headers_field, MessageInv
      <4>3. answer' = [answer EXCEPT !.headers = hdr[h].coll]
        BY <4>1 DEF response_set_headers_field
      <4> QED BY <1>2, <4>2, <4>3 DEF AnswerSet
    <3> QED BY <3>1, <3>2, <3>3, Zenon
  <2>2. PlaceInv'
    BY <1>1, <1>2, <2>1, Zenon DEF AnswerInv, PlaceInv
  <2>3. BodyReadOnce'
    BY <1>1, <1>2, <2>1, Zenon DEF AnswerInv, BodyReadOnce
  <2>4. AnswerInv'
    BY <1>1, <1>2, <2>1, <2>2, <2>3, Zenon DEF AnswerInv
  <2> QED BY <1>1, <2>4, PartsSame, Zenon DEF MessageInv
<1> QED BY <1>3, <1>4, Zenon

LEMMA SetBodyKeeps ==
  ASSUME MessageInv, NEW t \in Senders, response_set_body_field(t)
  PROVE  MessageInv'
<1>1. handed' = 0 /\ read' = Absent /\ UNCHANGED <<coll, hdr, request, wanted, sent>>
  BY DEF response_set_body_field
<1>2. answer \in AnswerSet
  BY LiveAnswer, Zenon DEF response_set_body_field, MessageInv
<1>3. PICK n \in 0..MaxBody :
        answer' = [answer EXCEPT !.total = n, !.reader = FALSE, !.streamed = 0, !.position = 0,
                                 !.failed = FALSE]
  BY Zenon DEF response_set_body_field
<1>4. n \in Nat /\ n <= MaxBody
  BY MessagesAssumption
<1>5. answer' \in AnswerSet
  BY <1>2, <1>3, <1>4 DEF AnswerSet
<1>6. /\ answer'.position = 0 /\ answer'.streamed = 0 /\ answer'.reader = FALSE
      /\ answer'.total = n
  BY <1>2, <1>3 DEF AnswerSet
<1>7. AnswerInv'
  BY <1>1, <1>4, <1>5, <1>6, AtStart, Zenon
<1> QED BY <1>1, <1>7, PartsSame, Zenon DEF MessageInv

(* A read that gives n bytes from where the response stands, and moves it on by n. *)
LEMMA GivesBytes ==
  ASSUME AnswerInv, Live(answer), NEW n \in Nat,
         answer' \in AnswerSet, answer'.total = answer.total, answer'.reader = answer.reader,
         answer'.failed = answer.failed, answer'.position = answer.position + n,
         answer.position + n <= answer.total,
         answer'.streamed = answer.streamed + (IF answer.reader THEN n ELSE 0),
         answer'.streamed <= MaxBody,
         answer.reader => answer'.remaining =
           IF answer.remaining = Absent THEN Absent ELSE answer.remaining - n,
         n = 0 /\ ~answer.failed => answer.position = answer.total,
         read' = Bytes(n), handed' = handed + read'.bytes
  PROVE  AnswerInv'
<1>1. read'.bytes = n /\ read'.from = answer.position + 1 /\ read'.error = FALSE
  BY DEF Bytes
<1>2. handed' = handed + n /\ handed' \in Nat
  BY <1>1 DEF AnswerInv
<1>3. /\ answer.position \in Nat /\ answer.total \in Nat /\ answer.streamed \in Nat
      /\ answer.reader \in BOOLEAN /\ answer.failed \in BOOLEAN
      /\ answer.remaining \in Nat \cup {Absent} /\ handed \in Nat /\ MaxBody \in Nat
  BY LiveAnswer, MessagesAssumption DEF AnswerInv, AnswerSet
<1>4. PlaceInv
  BY Zenon DEF AnswerInv
<1>5. PlaceInv'
  <2>1. answer'.position <= answer'.total /\ answer'.streamed <= MaxBody
    BY Zenon
  <2>2. ~answer'.reader => answer'.total <= MaxBody
    BY <1>4, Zenon DEF PlaceInv
  <2>3. ASSUME ~answer.failed PROVE answer'.position = handed'
    <3>1. answer.position = handed
      BY <1>4, <2>3, Zenon DEF PlaceInv
    <3> QED BY <1>2, <3>1, Zenon
  <2>4. ASSUME ~answer.failed, answer.reader PROVE answer'.streamed = answer'.position
    <3>1. answer.streamed = answer.position
      BY <1>4, <2>4, Zenon DEF PlaceInv
    <3> QED BY <2>4, <3>1, Zenon
  <2>5. ASSUME ~answer.failed, answer.reader, answer'.remaining # Absent
        PROVE  answer'.remaining = answer'.total - answer'.position
    <3>1. answer.remaining # Absent /\ answer'.remaining = answer.remaining - n
      BY <2>5, Zenon
    <3>2. answer.remaining = answer.total - answer.position
      BY <1>4, <2>5, <3>1, Zenon DEF PlaceInv
    <3> QED BY <1>3, <3>1, <3>2
  <2> QED BY <2>1, <2>2, <2>3, <2>4, <2>5, Zenon DEF PlaceInv
<1>6. BodyReadOnce'
  <2> SUFFICES ASSUME ~answer.failed
               PROVE  /\ n > 0 => answer.position + 1 + n - 1 = handed'
                      /\ n = 0 => handed' = answer.total
                      /\ handed' <= MaxBody
    BY <1>1, Zenon DEF BodyReadOnce
  <2>1. answer.position = handed /\ (answer.reader => answer.streamed = answer.position)
        /\ (~answer.reader => answer.total <= MaxBody)
    BY <1>4, Zenon DEF PlaceInv
  <2>2. answer.position + 1 + n - 1 = handed'
    BY <1>2, <1>3, <2>1
  <2>3. n = 0 => handed' = answer.total
    BY <1>2, <1>3, <2>1
  <2>4. CASE answer.reader
    <3>1. handed' = answer'.streamed
      BY <1>2, <2>1, <2>4, Zenon
    <3> QED BY <2>2, <2>3, <3>1, Zenon
  <2>5. CASE ~answer.reader
    <3>1. handed' <= answer.total /\ answer.total <= MaxBody
      BY <1>2, <2>1, <2>5, Zenon
    <3>2. handed' <= MaxBody
      BY <1>2, <1>3, <3>1
    <3> QED BY <2>2, <2>3, <3>2, Zenon
  <2> QED BY <2>4, <2>5, Zenon
<1> QED BY <1>2, <1>5, <1>6, Zenon DEF AnswerInv

(* A read that fails hands out nothing. *)
LEMMA Fails ==
  ASSUME AnswerInv, Live(answer), read' = Failure, handed' = handed + read'.bytes,
         \/ answer' = answer
         \/ answer' = [answer EXCEPT !.failed = TRUE]
         \/ /\ answer' = [answer EXCEPT !.position = @ + 1, !.failed = TRUE]
            /\ answer.position # answer.total
  PROVE  AnswerInv'
<1>1. answer \in AnswerSet /\ PlaceInv
  BY LiveAnswer, Zenon DEF AnswerInv
<1>2. handed' = handed /\ handed' \in Nat /\ read'.error = TRUE
  BY DEF AnswerInv, Failure
<1>3. BodyReadOnce'
  BY <1>2, Zenon DEF BodyReadOnce
<1>4. CASE answer' = answer
  BY <1>1, <1>2, <1>3, <1>4, Zenon DEF AnswerInv, PlaceInv, Live
<1>5. CASE answer' # answer
  <2>1. /\ answer' \in AnswerSet /\ answer'.failed = TRUE /\ answer'.total = answer.total
        /\ answer'.reader = answer.reader /\ answer'.streamed = answer.streamed
    <3>1. CASE answer' = [answer EXCEPT !.failed = TRUE]
      BY <1>1, <3>1 DEF AnswerSet
    <3>2. CASE answer' = [answer EXCEPT !.position = @ + 1, !.failed = TRUE]
      <4>1. answer.position + 1 \in Nat
        BY <1>1 DEF AnswerSet
      <4>2. PICK p \in Nat : answer' = [answer EXCEPT !.position = p, !.failed = TRUE]
        BY <3>2, <4>1, Zenon
      <4> QED BY <1>1, <4>2 DEF AnswerSet
    <3> QED BY <1>5, <3>1, <3>2, Zenon
  <2>2. answer'.position <= answer'.total
    <3>1. answer.position \in Nat /\ answer.total \in Nat /\ answer.position <= answer.total
      BY <1>1 DEF AnswerSet, PlaceInv
    <3>2. CASE answer' = [answer EXCEPT !.failed = TRUE]
      <4>1. answer'.position = answer.position
        BY <1>1, <3>2 DEF AnswerSet
      <4> QED BY <2>1, <3>1, <4>1, Zenon
    <3>3. CASE /\ answer' = [answer EXCEPT !.position = @ + 1, !.failed = TRUE]
               /\ answer.position # answer.total
      <4>1. answer'.position = answer.position + 1
        BY <1>1, <3>3 DEF AnswerSet
      <4> QED BY <2>1, <3>1, <3>3, <4>1
    <3> QED BY <1>5, <3>2, <3>3, Zenon
  <2>3. PlaceInv'
    BY <1>1, <2>1, <2>2, Zenon DEF PlaceInv
  <2> QED BY <1>2, <1>3, <2>1, <2>3, Zenon DEF AnswerInv
<1> QED BY <1>4, <1>5, Zenon

(* A read from the network's reader: no more than it was asked for, than remains and than
   a body may have. *)
LEMMA StreamedKeeps ==
  ASSUME AnswerInv, Live(answer), NEW limit \in 1..MaxBody, answer.reader,
         StreamedRead(limit), handed' = handed + read'.bytes
  PROVE  AnswerInv'
<1>1. answer \in AnswerSet /\ PlaceInv
  BY LiveAnswer, Zenon DEF AnswerInv
<1>2. /\ answer.position \in Nat /\ answer.total \in Nat /\ answer.streamed \in Nat
      /\ answer.reader \in BOOLEAN /\ answer.failed \in BOOLEAN
      /\ answer.remaining \in Nat \cup {Absent} /\ handed \in Nat /\ MaxBody \in Nat
      /\ limit \in Nat /\ limit >= 1 /\ 0 # Absent
  BY <1>1, MessagesAssumption DEF AnswerInv, AnswerSet
<1>3. answer.position <= answer.total /\ answer.streamed <= MaxBody
  BY <1>1, Zenon DEF PlaceInv
<1>4. ASSUME answer' = answer, read' = Bytes(0), ~answer.failed => answer.position = answer.total
      PROVE  AnswerInv'
  <2>1. /\ answer'.position = answer.position + 0 /\ answer.position + 0 <= answer.total
        /\ answer'.streamed = answer.streamed + (IF answer.reader THEN 0 ELSE 0)
        /\ answer'.remaining = IF answer.remaining = Absent THEN Absent ELSE answer.remaining - 0
        /\ 0 \in Nat
    BY <1>2, <1>3, <1>4
  <2>2. answer' \in AnswerSet /\ answer'.total = answer.total /\ answer'.reader = answer.reader
        /\ answer'.failed = answer.failed /\ answer'.streamed <= MaxBody
    BY <1>1, <1>3, <1>4, Zenon
  <2> QED BY <1>4, <2>1, <2>2, GivesBytes, Zenon
<1>5. CASE answer.remaining = 0
  <2>1. answer' = answer /\ read' = Bytes(0)
    BY <1>5, Zenon DEF StreamedRead
  <2>2. ASSUME ~answer.failed PROVE answer.position = answer.total
    <3>1. answer.remaining = answer.total - answer.position
      BY <1>1, <1>2, <1>5, <2>2 DEF PlaceInv
    <3> QED BY <1>2, <1>5, <3>1
  <2> QED BY <1>4, <2>1, <2>2, Zenon
<1>6. CASE answer.remaining # 0 /\ answer.streamed >= MaxBody
  <2>1. CASE answer.remaining # Absent
    <3>1. answer' = answer /\ read' = Failure
      BY <1>6, <2>1, Zenon DEF StreamedRead
    <3> QED BY <3>1, Fails, Zenon
  <2>2. CASE answer.remaining = Absent /\ answer.position = answer.total
    <3>1. answer' = answer /\ read' = Bytes(0)
      BY <1>6, <2>2, Zenon DEF StreamedRead
    <3> QED BY <1>4, <2>2, <3>1, Zenon
  <2>3. CASE answer.remaining = Absent /\ answer.position # answer.total
    <3>1. answer' = [answer EXCEPT !.position = @ + 1, !.failed = TRUE] /\ read' = Failure
      BY <1>6, <2>3 DEF StreamedRead
    <3> QED BY <2>3, <3>1, Fails, Zenon
  <2> QED BY <2>1, <2>2, <2>3, Zenon
<1>7. CASE answer.remaining # 0 /\ ~(answer.streamed >= MaxBody)
  <2> DEFINE known == answer.remaining # Absent
             allowed == Lesser(IF known THEN Lesser(limit, answer.remaining) ELSE limit,
                               MaxBody - answer.streamed)
  <2>1. /\ allowed \in Nat /\ allowed <= MaxBody - answer.streamed
        /\ known => allowed <= answer.remaining
    BY <1>2, <1>7 DEF Lesser
  <2>2. CASE answer' = [answer EXCEPT !.failed = TRUE] /\ read' = Failure
    BY <2>2, Fails, Zenon
  <2>3. ASSUME NEW n \in NetworkRead(allowed),
               answer' = [answer EXCEPT !.position = @ + n, !.streamed = @ + n,
                                        !.remaining = IF known THEN @ - n ELSE @],
               read' = Bytes(n)
        PROVE  AnswerInv'
    <3> HIDE DEF allowed
    <3>1. /\ n \in Nat /\ answer.position + n <= answer.total
          /\ n = 0 => answer.position = answer.total
          /\ n <= allowed
      BY <1>2, <1>3, <2>1 DEF NetworkRead, Lesser
    <3>2. known => answer.remaining - n \in Nat
      BY <1>2, <2>1, <3>1
    <3>3. answer.streamed + n <= MaxBody
      BY <1>2, <2>1, <3>1
    <3>4. /\ answer' \in AnswerSet /\ answer'.total = answer.total
          /\ answer'.reader = answer.reader /\ answer'.failed = answer.failed
          /\ answer'.position = answer.position + n /\ answer'.streamed = answer.streamed + n
          /\ answer'.remaining = IF known THEN answer.remaining - n ELSE answer.remaining
      <4>0. answer.position + n \in Nat /\ answer.streamed + n \in Nat
        BY <1>2, <3>1
      <4>1. PICK r \in Nat \cup {Absent}, p \in Nat, s \in Nat :
              /\ r = IF known THEN answer.remaining - n ELSE answer.remaining
              /\ p = answer.position + n /\ s = answer.streamed + n
              /\ answer' = [answer EXCEPT !.position = p, !.streamed = s, !.remaining = r]
        BY <1>2, <2>3, <3>2, <4>0, Zenon
      <4> HIDE DEF known
      <4>2. /\ answer' \in AnswerSet /\ answer'.total = answer.total
            /\ answer'.reader = answer.reader /\ answer'.failed = answer.failed
            /\ answer'.position = p /\ answer'.streamed = s /\ answer'.remaining = r
        BY <1>1, <4>1 DEF AnswerSet
      <4> QED BY <4>1, <4>2, Zenon
    <3>5. answer'.remaining = IF answer.remaining = Absent THEN Absent ELSE answer.remaining - n
      BY <3>4, Zenon
    <3>6. answer'.streamed = answer.streamed + (IF answer.reader THEN n ELSE 0)
      BY <3>4, Zenon
    <3>7. answer'.streamed <= MaxBody
      BY <3>3, <3>4, Zenon
    <3> QED BY <2>3, <3>1, <3>4, <3>5, <3>6, <3>7, GivesBytes, Zenon
  <2> QED BY <1>7, <2>2, <2>3, Zenon DEF StreamedRead
<1> QED BY <1>5, <1>6, <1>7, Zenon

LEMMA BufferedKeeps ==
  ASSUME AnswerInv, Live(answer), NEW limit \in 1..MaxBody, ~answer.reader,
         BufferedRead(limit), handed' = handed + read'.bytes
  PROVE  AnswerInv'
<1>1. answer \in AnswerSet /\ PlaceInv
  BY LiveAnswer, Zenon DEF AnswerInv
<1>2. /\ answer.position \in Nat /\ answer.total \in Nat /\ answer.streamed \in Nat
      /\ MaxBody \in Nat /\ limit \in Nat /\ limit >= 1
  BY <1>1, MessagesAssumption DEF AnswerSet
<1>3. answer.position <= answer.total /\ answer.streamed <= MaxBody
  BY <1>1, Zenon DEF PlaceInv
<1>4. PICK n \in Nat : n = Lesser(answer.position + limit, answer.total) - answer.position
  BY <1>2, <1>3 DEF Lesser
<1>5. /\ Lesser(answer.position + limit, answer.total) = answer.position + n
      /\ answer.position + n <= answer.total
      /\ n = 0 => answer.position = answer.total
  BY <1>2, <1>3, <1>4 DEF Lesser
<1>6. answer' = [answer EXCEPT !.position = answer.position + n] /\ read' = Bytes(n)
  BY <1>4, <1>5, Zenon DEF BufferedRead
<1>7. /\ answer' \in AnswerSet /\ answer'.total = answer.total
      /\ answer'.reader = answer.reader /\ answer'.failed = answer.failed
      /\ answer'.position = answer.position + n /\ answer'.streamed = answer.streamed
  BY <1>1, <1>2, <1>6 DEF AnswerSet
<1>8. answer'.streamed = answer.streamed + (IF answer.reader THEN n ELSE 0)
  BY <1>2, <1>7
<1>9. answer'.streamed <= MaxBody
  BY <1>3, <1>7, Zenon
<1> QED BY <1>5, <1>6, <1>7, <1>8, <1>9, GivesBytes, Zenon

LEMMA ReadKeeps ==
  ASSUME AnswerInv, Live(answer), NEW limit \in 1..MaxBody, response_read(limit)
  PROVE  AnswerInv'
BY StreamedKeeps, BufferedKeeps, Zenon DEF response_read

LEMMA ReadsKeep ==
  ASSUME MessageInv, NEW t \in Senders,
         \/ response_save(t) \/ response_read_to_end(t)
         \/ \E limit \in 1..MaxBody : response_read_bytes(t, limit)
  PROVE  MessageInv'
<1>1. UNCHANGED <<coll, hdr, request, wanted, sent>>
  BY DEF response_save, response_read_to_end, response_read_bytes
<1>2. CASE UNCHANGED <<answer, handed, read>>
  BY <1>1, <1>2, PartsSame, Zenon DEF MessageInv
<1>3. CASE ~UNCHANGED <<answer, handed, read>>
  <2>1. MaxBody \in 1..MaxBody
    BY MessagesAssumption
  <2>2. ~response_save(t)
    BY <1>3 DEF response_save
  <2>3. PICK limit \in 1..MaxBody : Live(answer) /\ response_read(limit)
    BY <1>3, <2>1, <2>2, Zenon DEF response_read_to_end, response_read_bytes
  <2>4. AnswerInv'
    BY <2>3, ReadKeeps, Zenon DEF MessageInv
  <2> QED BY <1>1, <2>4, PartsSame, Zenon DEF MessageInv
<1> QED BY <1>2, <1>3, Zenon

-----------------------------------------------------------------------------
LEMMA MessageStart == MessageInit => MessageInv
<1> SUFFICES ASSUME MessageInit PROVE MessageInv
  OBVIOUS
<1>1. CollInv
  <2>1. \A k \in Colls : coll[k] = NoHeaders
    BY DEF MessageInit
  <2>2. coll \in [Colls -> [HeaderNames -> Nat]]
    BY NoHeadersFit DEF MessageInit
  <2> QED BY <2>1, <2>2, NoHeadersFit, Zenon DEF CollInv
<1>2. HdrInv
  BY DEF MessageInit, HdrInv
<1>3. RequestInv
  BY DEF MessageInit, RequestInv, Live, Dead
<1>4. AnswerInv
  BY DEF MessageInit, AnswerInv, BodyReadOnce, Live, Dead
<1>5. SentMatches
  BY DEF MessageInit, SentMatches
<1> QED BY <1>1, <1>2, <1>3, <1>4, <1>5, Zenon DEF MessageInv

(* Every call on a header collection, a request or a response keeps the invariant. *)
THEOREM MessagesInductive == MessageSpec => []MessageInv
<1>1. MessageInv /\ [MessageNext]_messageVars => MessageInv'
  <2> SUFFICES ASSUME MessageInv, [MessageNext]_messageVars PROVE MessageInv'
    OBVIOUS
  <2>1. CASE UNCHANGED messageVars
    <3>1. UNCHANGED <<coll, hdr, request, answer, wanted, sent, handed, read>>
      BY <2>1 DEF messageVars
    <3> QED BY <3>1, PartsSame, Zenon DEF MessageInv
  <2>2. CASE MessageNext
    <3>1. PICK t \in Senders :
            \/ headers_new(t) \/ request_new(t) \/ request_set_field(t) \/ request_set_body(t)
            \/ request_set_body_reader(t) \/ drop_http_request(t) \/ copy_http_request(t)
            \/ request_send(t) \/ send_returns(t)
            \/ response_new(t) \/ response_set_body_field(t) \/ drop_http_response(t)
            \/ copy_http_response(t) \/ response_save(t) \/ response_read_to_end(t)
            \/ headers_field(t, request) \/ headers_field(t, answer)
            \/ \E limit \in 1..MaxBody : response_read_bytes(t, limit)
            \/ \E h \in Hdrs :
                 \/ copy_headers(t, h) \/ drop_headers(t, h)
                 \/ request_from_config(t, h) \/ request_set_headers_field(t, h)
                 \/ response_from_config(t, h) \/ response_set_headers_field(t, h)
                 \/ \E n \in HeaderNames :
                      headers_set(t, h, n) \/ headers_append(t, h, n) \/ headers_remove(t, h, n)
      BY <2>2, Zenon DEF MessageNext
    <3>2. CASE headers_new(t)
      BY <3>2, NewHeadersKeep, Zenon
    <3>3. CASE request_new(t) \/ \E h \in Hdrs : request_from_config(t, h)
      BY <3>3, NewRequestKeeps, Zenon
    <3>4. CASE \/ request_set_field(t) \/ copy_http_request(t) \/ drop_http_request(t)
               \/ \E h \in Hdrs : request_set_headers_field(t, h)
      BY <3>4, RequestFieldsKeep, Zenon
    <3>5. CASE request_set_body(t) \/ request_set_body_reader(t)
      BY <3>5, BodiesKeep, Zenon
    <3>6. CASE request_send(t)
      BY <3>6, SendKeeps, Zenon
    <3>7. CASE send_returns(t)
      BY <3>7, SendReturnsKeeps, Zenon
    <3>8. CASE response_new(t) \/ \E h \in Hdrs : response_from_config(t, h)
      BY <3>8, NewAnswerKeeps, Zenon
    <3>9. CASE response_set_body_field(t)
      BY <3>9, SetBodyKeeps, Zenon
    <3>10. CASE \/ copy_http_response(t) \/ drop_http_response(t)
                \/ \E h \in Hdrs : response_set_headers_field(t, h)
      BY <3>10, AnswerFieldsKeep, Zenon
    <3>11. CASE \/ response_save(t) \/ response_read_to_end(t)
                \/ \E limit \in 1..MaxBody : response_read_bytes(t, limit)
      BY <3>11, ReadsKeep, Zenon
    <3>12. CASE headers_field(t, request) \/ headers_field(t, answer)
      BY <3>12, FieldKeeps, Zenon
    <3>13. ASSUME NEW h \in Hdrs, copy_headers(t, h) \/ drop_headers(t, h) PROVE MessageInv'
      BY <3>13, HandlesKeep, Zenon
    <3>14. ASSUME NEW h \in Hdrs, NEW n \in HeaderNames,
                  headers_set(t, h, n) \/ headers_append(t, h, n) \/ headers_remove(t, h, n)
           PROVE  MessageInv'
      BY <3>14, HeadersKeep, Zenon
    <3> QED BY <3>1, <3>2, <3>3, <3>4, <3>5, <3>6, <3>7, <3>8, <3>9, <3>10, <3>11, <3>12, <3>13,
               <3>14, Zenon
  <2> QED BY <2>1, <2>2, Zenon
<1> QED BY <1>1, MessageStart, PTL DEF MessageSpec

(* Whatever the number of threads, handles and calls and whatever the budgets: a   *)
(* send puts out the body that was set last (a reader once), the headers of the    *)
(* collection and one x-request-id; the bytes of a response are handed out once    *)
(* and in order to the threads that share it; and no collection outgrows its budget. *)
THEOREM MessagesAreSentAsSet == MessageSpec => []SentAsSet
<1>1. MessageInv => SentAsSet
  <2> SUFFICES ASSUME MessageInv PROVE SentAsSet
    OBVIOUS
  <2>1. Used \subseteq Colls
    <3>1. \A h \in Hdrs : Live(hdr[h]) => hdr[h].coll \in Colls
      BY LiveHandle, Zenon DEF MessageInv
    <3>2. \A e \in {request, answer} : Live(e) => e.headers \in Colls
      BY LiveRequest, LiveAnswer, Zenon DEF MessageInv
    <3> QED BY <3>1, <3>2 DEF Used
  <2>2. coll \in [Colls -> [HeaderNames -> Nat]] /\ \A k \in Used : validate_http_header_budget(coll[k])
    BY <2>1, Zenon DEF MessageInv, CollInv
  <2>3. \A h \in Hdrs : hdr[h] = Dead \/ hdr[h] \in [names : Nat \ {0}, coll : Colls]
    BY DEF MessageInv, HdrInv
  <2>4. MessageTypeOK
    BY <2>2, <2>3, Zenon DEF MessageTypeOK, MessageInv, RequestInv
  <2> QED BY <2>4, Zenon DEF SentAsSet, MessageInv, AnswerInv
<1> QED BY <1>1, MessagesInductive, PTL
=============================================================================
