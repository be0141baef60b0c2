-------------------------- MODULE HttpRequestReader --------------------------
(***************************************************************************)
(* How the HTTP server reads a request from a socket (src/net.rs): the     *)
(* header block, the headers that decide how long the body is, and a body  *)
(* of known length or in chunks with trailers.  The client sends whatever  *)
(* it likes in segments of its own; every read of the socket appends to    *)
(* one buffer, and a cursor goes over it.                                  *)
(*                                                                         *)
(* What follows the headers is a sequence of tokens, each counted as one   *)
(* byte: "S0" and "S1" are chunk-size lines, "N" is a CRLF, "T" and "F"    *)
(* are trailer lines, the second one of a forbidden name, and "x" is a     *)
(* byte that no size or field name has.  Any token may be data.            *)
(***************************************************************************)
EXTENDS Naturals, Sequences, SequencesExt, FiniteSetsExt

CONSTANTS MaxHeaderBytes, MaxBodyBytes, MaxHeaders,
          MaxTokens,           \* bound on what the client sends after the headers
          MaxSegment           \* bound on one read

Tokens == {"S0", "S1", "N", "T", "F", "x"}
Lines == Tokens \ {"x"}        \* the tokens that end with CRLF

(* The header block: its size, and the fields that matter for framing. *)
Headers == [size : 1..(MaxHeaderBytes + 1), version : {0, 1}, hosts : 0..2, fields : 1..(MaxHeaders + 1),
            lengths : {{}, {0}, {1}, {MaxBodyBytes + 1}, {0, 1}}, codings : {<<>>, <<"chunked">>,
            <<"gzip", "chunked">>, <<"chunked", "chunked">>}]

(* One oddity at a time, to keep the enumeration small. *)
Odd(h) == {k \in 1..5 :
             \/ k = 1 /\ h.size > MaxHeaderBytes
             \/ k = 2 /\ h.hosts # 1
             \/ k = 3 /\ h.fields > MaxHeaders
             \/ k = 4 /\ h.lengths \notin {{}, {1}}
             \/ k = 5 /\ h.codings \notin {<<>>, <<"chunked">>}}

VARIABLES header,
          sent,              \* the tokens that have arrived
          ended,             \* the client has closed its side
          pc, cursor, body, need, trailers

vars == <<header, sent, ended, pc, cursor, body, need, trailers>>

Init ==
  /\ header \in {h \in Headers : Cardinality(Odd(h)) <= 1 /\ h.size >= MaxHeaderBytes /\ (h.version = 0 => h.hosts # 1)}
  /\ sent = <<>> /\ ended = FALSE /\ pc = "headers"
  /\ cursor = 0 /\ body = <<>> /\ need = 0 /\ trailers = 0

-----------------------------------------------------------------------------
Fail == pc' = "failed" /\ UNCHANGED <<cursor, body, need, trailers>>

Accept(b) == pc' = "done" /\ body' = b /\ UNCHANGED <<cursor, need, trailers>>

(* The next segment.  read_more_http_bytes refuses a buffer that is too long;
   a body of known length is read without that check. *)
ReadMore ==
  /\ \/ \E n \in 1..MaxSegment, more \in [1..MaxSegment -> Tokens] :
          /\ Len(sent) + n <= MaxTokens /\ ~ ended
          /\ sent' = sent \o SubSeq(more, 1, n)
          /\ IF pc # "body" /\ Len(sent) + n > MaxBodyBytes + MaxHeaderBytes
             THEN Fail ELSE UNCHANGED <<pc, cursor, body, need, trailers>>
          /\ UNCHANGED ended
     \/ ended' = TRUE /\ Fail /\ UNCHANGED sent
  /\ UNCHANGED header

-----------------------------------------------------------------------------
(* The headers.  The read that completes them may bring the first bytes of
   the body with it. *)

HeaderTooLarge(h) == h.size > MaxHeaderBytes
HostOk(h) == h.hosts <= 1 /\ (h.version = 1 => h.hosts = 1)
LengthOk(h) == Cardinality(h.lengths) <= 1 /\ \A n \in h.lengths : n <= MaxBodyBytes
CodingOk(h) == h.codings \in {<<>>, <<"chunked">>}
Chunked(h) == h.codings # <<>>

ParseHeaders_both(h) ==
  ~ HeaderTooLarge(h) /\ h.fields <= MaxHeaders /\ HostOk(h) /\ LengthOk(h) /\ CodingOk(h)

ParseHeaders(h) ==
  /\ ~ HeaderTooLarge(h) /\ h.fields <= MaxHeaders
  /\ HostOk(h) /\ LengthOk(h) /\ CodingOk(h)
  /\ ~ (Chunked(h) /\ h.lengths # {})

ReadHeaders ==
  /\ pc = "headers"
  /\ \E n \in 0..MaxSegment, first \in [1..MaxSegment -> Tokens] : sent' = SubSeq(first, 1, n)
  /\ IF ~ ParseHeaders(header) THEN Fail
     ELSE IF Chunked(header) THEN pc' = "size" /\ UNCHANGED <<cursor, body, need, trailers>>
     ELSE IF header.lengths = {} /\ sent' # <<>> THEN Fail
     ELSE /\ pc' = "body" /\ need' = IF header.lengths = {} THEN 0 ELSE Max(header.lengths)
          /\ UNCHANGED <<cursor, body, trailers>>
  /\ UNCHANGED <<header, ended>>

(* read_http_request_body *)
BodyComplete ==
  /\ pc = "body" /\ Len(sent) >= need
  /\ Accept(SubSeq(sent, 1, need))
  /\ UNCHANGED <<header, sent, ended>>

BodyReads == pc = "body" /\ Len(sent) < need /\ ReadMore

-----------------------------------------------------------------------------
(* read_http_line_end: where the line at the cursor ends, 0 if not yet here. *)
LineEnd == LET ends == {i \in (cursor + 1)..Len(sent) : sent[i] \in Lines}
           IN  IF ends = {} THEN 0 ELSE Min(ends)

(* A line that starts with "x" is neither a size nor a field. *)
LineAtCursor == IF LineEnd = cursor + 1 THEN sent[LineEnd] ELSE "x"

ReadChunkSize ==
  /\ pc = "size" /\ LineEnd # 0
  /\ CASE LineAtCursor = "S0" ->
            pc' = "trailers" /\ cursor' = LineEnd /\ UNCHANGED <<body, need, trailers>>
       [] LineAtCursor = "S1" ->
            IF Len(body) + 1 > MaxBodyBytes THEN Fail
            ELSE pc' = "data" /\ need' = 1 /\ cursor' = LineEnd /\ UNCHANGED <<body, trailers>>
       [] OTHER -> Fail
  /\ UNCHANGED <<header, sent, ended>>

SizeReads ==
  /\ pc = "size" /\ LineEnd = 0
  /\ IF Len(sent) - cursor > MaxHeaderBytes THEN Fail /\ UNCHANGED <<header, sent, ended>> ELSE ReadMore

ReadChunkData ==
  /\ pc = "data" /\ Len(sent) - cursor >= need + 1
  /\ IF sent[cursor + need + 1] # "N" THEN Fail
     ELSE /\ pc' = "size" /\ body' = body \o SubSeq(sent, cursor + 1, cursor + need)
          /\ cursor' = cursor + need + 1 /\ UNCHANGED <<need, trailers>>
  /\ UNCHANGED <<header, sent, ended>>

DataReads == pc = "data" /\ Len(sent) - cursor < need + 1 /\ ReadMore

MaxTrailers == MaxHeaders - header.fields

ReadTrailer ==
  /\ pc = "trailers" /\ LineEnd # 0
  /\ CASE LineAtCursor = "N" -> Accept(body)
       [] LineAtCursor = "T" ->
            IF trailers + 1 > MaxHeaderBytes \/ trailers + 1 > MaxTrailers THEN Fail
            ELSE trailers' = trailers + 1 /\ cursor' = LineEnd /\ UNCHANGED <<pc, body, need>>
       [] OTHER -> Fail
  /\ UNCHANGED <<header, sent, ended>>

TrailersRead == pc = "trailers" /\ LineEnd = 0 /\ ReadMore

Next == \/ ReadHeaders \/ BodyComplete \/ BodyReads
        \/ ReadChunkSize \/ SizeReads \/ ReadChunkData \/ DataReads \/ ReadTrailer \/ TrailersRead

Spec == Init /\ [][Next]_vars

-----------------------------------------------------------------------------
(* What a chunked stream means, however it was cut into segments: the chunks,
   the trailers and the empty line, read off the whole. *)
Decoded(n, t) ==
  /\ \A j \in 0..(n - 1) : sent[3 * j + 1] = "S1" /\ sent[3 * j + 3] = "N"
  /\ sent[3 * n + 1] = "S0"
  /\ \A j \in 1..t : sent[3 * n + 1 + j] = "T"
  /\ sent[3 * n + t + 2] = "N"

WellFormed(n, t) == 3 * n + t + 2 <= Len(sent) /\ Decoded(n, t)

(* A chunked request is accepted with the data of its chunks, and only when
   what arrived is well formed; a well-formed one within the limits is never
   refused.  Both hold for every way of cutting the stream into segments. *)
ChunkedRight ==
  /\ (pc = "done" /\ Chunked(header)) =>
       \E n, t \in 0..MaxTokens :
          /\ WellFormed(n, t)
          /\ body = [j \in 1..n |-> sent[3 * j - 1]]
          /\ n <= MaxBodyBytes /\ t <= MaxTrailers
          /\ header.lengths = {}
  /\ (pc = "failed" /\ ParseHeaders(header) /\ Chunked(header)) =>
       ~ \E n, t \in 0..MaxTokens :
          /\ WellFormed(n, t)
          /\ n <= MaxBodyBytes /\ t <= MaxTrailers /\ t <= MaxHeaderBytes
          /\ Len(sent) <= MaxBodyBytes + MaxHeaderBytes
=============================================================================
