----------------------------- MODULE WebSocket -----------------------------
(***************************************************************************)
(* WebSocket frames and messages (src/net.rs): the frame value a program   *)
(* builds field by field, its encoding and decoding, the reassembly of a   *)
(* list of frames, and the loop that reads messages from a client and      *)
(* answers its control frames.                                             *)
(*                                                                         *)
(* A payload is a sequence over "h" and "t", the two bytes of a character: *)
(* a text is valid when they alternate from "h" to "t".  The three ranges  *)
(* of the length field end at DirectMax, ShortMax and MaxBytes.            *)
(***************************************************************************)
EXTENDS Naturals, Sequences, SequencesExt

CONSTANTS DirectMax, ShortMax, MaxBytes, ControlMax,
          MaxFrames                 \* bound on the frames of the client

Opcodes == {0, 1, 8, 9, 10}
Payloads == UNION {[1..n -> {"h", "t"}] : n \in 0..2}
Bad == [opcode |-> 3]               \* stands for every error

VARIABLES mode,                     \* "value": frame is built; "session": the client sends
          frame,
          heard,                    \* the frames of the client, as read
          fragments,                \* <<>> or <<opcode, payload>> of an open message
          receiving, state,         \* a receive is in progress; "open" or "failed"
          messages, answers,        \* what receive returned, what was sent back
          from                      \* where in heard the current receive began

vars == <<mode, frame, heard, fragments, receiving, state, messages, answers, from>>

Init ==
  /\ mode \in {"value", "session"}
  /\ frame = [fin |-> TRUE, opcode |-> 1, payload |-> <<>>, masked |-> FALSE]
  /\ heard = <<>> /\ fragments = <<>> /\ receiving = FALSE /\ state = "open"
  /\ messages = <<>> /\ answers = <<>> /\ from = 0

-----------------------------------------------------------------------------
(* Frames *)

Utf8(p) == Len(p) % 2 = 0 /\ \A i \in DOMAIN p : p[i] = IF i % 2 = 1 THEN "h" ELSE "t"

Valid(f) ==
  /\ f.opcode \in Opcodes \cup {2}
  /\ Len(f.payload) <= MaxBytes
  /\ f.opcode >= 8 => f.fin /\ Len(f.payload) <= ControlMax
  /\ (f.opcode = 1 /\ f.fin) => Utf8(f.payload)
  /\ f.opcode = 8 => Len(f.payload) # 1

LengthCode(n) == IF n <= DirectMax THEN "direct" ELSE IF n <= ShortMax THEN "short" ELSE "long"

(* The mask is a key applied to every byte. *)
Mask(p, key) == [i \in DOMAIN p |-> <<key, p[i]>>]
Unmask(p, key) == [i \in DOMAIN p |-> IF p[i][1] = key THEN p[i][2] ELSE "garbled"]

EncodeFrame_unchecked(f) ==
  [rsv |-> 0, fin |-> f.fin, opcode |-> f.opcode, masked |-> f.masked,
   code |-> LengthCode(Len(f.payload)), length |-> Len(f.payload), key |-> "k",
   body |-> IF f.masked THEN Mask(f.payload, "k") ELSE f.payload]

EncodeFrame(f) ==
  IF ~ Valid(f) THEN Bad ELSE
  [rsv |-> 0, fin |-> f.fin, opcode |-> f.opcode, masked |-> f.masked,
   code |-> LengthCode(Len(f.payload)), length |-> Len(f.payload), key |-> "k",
   body |-> IF f.masked THEN Mask(f.payload, "k") ELSE f.payload]

LengthOk(e) == (e.code = "short" => e.length > DirectMax) /\ e.length <= MaxBytes

DecodeFrame(e) ==
  LET f == [fin |-> e.fin, opcode |-> e.opcode, masked |-> e.masked,
            payload |-> IF e.masked THEN Unmask(e.body, e.key) ELSE e.body]
  IN IF e.rsv # 0 \/ ~ LengthOk(e) \/ Len(e.body) # e.length \/ ~ Valid(f) THEN Bad ELSE f

(* read_websocket_frame: as DecodeFrame, but a client must mask, and what it
   masked is returned as plain. *)
ReadFrame(e) ==
  LET f == [fin |-> e.fin, opcode |-> e.opcode, masked |-> FALSE, payload |-> Unmask(e.body, e.key)]
  IN IF e.rsv # 0 \/ ~ e.masked \/ ~ LengthOk(e) \/ ~ Valid(f) THEN Bad ELSE f

(* The fields of a frame value are set first and checked afterwards. *)
Set(f) == mode = "value" /\ frame' = f
          /\ UNCHANGED <<mode, heard, fragments, receiving, state, messages, answers, from>>

SetFin     == \E b \in BOOLEAN : Set([frame EXCEPT !.fin = b])
SetMasked  == \E b \in BOOLEAN : Set([frame EXCEPT !.masked = b])
SetOpcode  == \E o \in Opcodes : Set([frame EXCEPT !.opcode = o])
SetPayload == \E p \in Payloads : Set([frame EXCEPT !.payload = p])

FrameFromConfig ==
  \E f \in [fin : BOOLEAN, opcode : Opcodes, payload : Payloads, masked : BOOLEAN] : Valid(f) /\ Set(f)

-----------------------------------------------------------------------------
(* reassemble_websocket_frames *)

Fragment(acc, f) ==
  IF acc = Bad \/ acc.done THEN Bad
  ELSE IF f.opcode >= 8 THEN acc
  ELSE IF f.opcode # 0 \/ Len(acc.payload) + Len(f.payload) > MaxBytes THEN Bad
  ELSE LET p == acc.payload \o f.payload
           bad == f.fin /\ ~ Valid([acc.first EXCEPT !.fin = TRUE, !.payload = p])
       IN IF bad THEN Bad ELSE [opcode |-> 0, first |-> acc.first, payload |-> p, done |-> f.fin]

Reassemble(fs) ==
  IF fs = <<>> \/ \E i \in DOMAIN fs : ~ Valid(fs[i]) THEN Bad
  ELSE LET first == Head(fs)
           start == [opcode |-> 0, first |-> first, payload |-> first.payload, done |-> FALSE]
           end == FoldLeft(Fragment, start, Tail(fs))
       IN IF first.opcode \notin {1, 2} THEN Bad
          ELSE IF first.fin THEN IF Len(fs) = 1 THEN first ELSE Bad
          ELSE IF end = Bad \/ ~ end.done THEN Bad
          ELSE [first EXCEPT !.fin = TRUE, !.payload = end.payload]

-----------------------------------------------------------------------------
(* read_websocket_message: one step for each frame. *)

Receive ==
  /\ mode = "session" /\ state = "open" /\ ~ receiving
  /\ receiving' = TRUE /\ fragments' = <<>> /\ from' = Len(heard)
  /\ UNCHANGED <<mode, frame, heard, state, messages, answers>>

Fail == state' = "failed" /\ receiving' = FALSE /\ UNCHANGED <<fragments, messages, answers>>

Deliver(f) ==
  /\ messages' = Append(messages, f)
  /\ receiving' = FALSE
  /\ UNCHANGED fragments

Ping(f) ==
  /\ f.opcode = 9
  /\ answers' = Append(answers, [f EXCEPT !.opcode = 10])
  /\ UNCHANGED <<fragments, receiving, state, messages>>

Pong(f) == f.opcode = 10 /\ UNCHANGED <<fragments, receiving, state, messages, answers>>

Close(f) ==
  /\ f.opcode = 8
  /\ answers' = Append(answers, f)
  /\ Deliver(f) /\ UNCHANGED state

Continuation_unchecked(f) ==
  /\ f.opcode = 0
  /\ IF fragments = <<>> THEN Fail
     ELSE LET p == fragments[2] \o f.payload IN
          IF f.fin THEN Deliver([f EXCEPT !.opcode = fragments[1], !.payload = p]) /\ UNCHANGED <<state, answers>>
          ELSE fragments' = <<fragments[1], p>> /\ UNCHANGED <<receiving, state, messages, answers>>

Continuation(f) ==
  /\ f.opcode = 0
  /\ IF fragments = <<>> THEN Fail
     ELSE LET p == fragments[2] \o f.payload
              whole == [f EXCEPT !.opcode = fragments[1], !.payload = p]
          IN IF Len(p) > MaxBytes THEN Fail
             ELSE IF ~ f.fin
             THEN fragments' = <<fragments[1], p>> /\ UNCHANGED <<receiving, state, messages, answers>>
             ELSE IF ~ Valid(whole) THEN Fail
             ELSE Deliver(whole) /\ UNCHANGED <<state, answers>>

Data(f) ==
  /\ f.opcode \in {1, 2}
  /\ IF fragments # <<>> THEN Fail
     ELSE IF f.fin THEN Deliver(f) /\ UNCHANGED <<state, answers>>
     ELSE fragments' = <<f.opcode, f.payload>> /\ UNCHANGED <<receiving, state, messages, answers>>

(* The frames a client can send: any of them, well formed or not. *)
Sent == {e \in [rsv : {0, 1}, fin : BOOLEAN, opcode : Opcodes \cup {3}, masked : BOOLEAN,
                payload : {p \in Payloads : Len(p) < 2}] :
           /\ e.rsv = 1 => e.opcode = 1 /\ e.masked
           /\ ~ e.masked => e.opcode = 1}

OnWire(e) == [rsv |-> e.rsv, fin |-> e.fin, opcode |-> e.opcode, masked |-> e.masked, key |-> "k",
              code |-> LengthCode(Len(e.payload)), length |-> Len(e.payload),
              body |-> IF e.masked THEN Mask(e.payload, "k") ELSE e.payload]

ReadMessage(e) ==
  LET f == ReadFrame(OnWire(e)) IN
  /\ receiving /\ Len(heard) < MaxFrames
  /\ heard' = Append(heard, IF f = Bad THEN Bad ELSE f)
  /\ IF f = Bad THEN Fail ELSE Ping(f) \/ Pong(f) \/ Close(f) \/ Continuation(f) \/ Data(f)
  /\ UNCHANGED <<mode, frame, from>>

ReadFails ==
  /\ receiving /\ Fail
  /\ UNCHANGED <<mode, frame, heard, from>>

Next ==
  \/ SetFin \/ SetMasked \/ SetOpcode \/ SetPayload \/ FrameFromConfig
  \/ Receive \/ ReadFails
  \/ \E e \in Sent : ReadMessage(e)

Spec == Init /\ [][Next]_vars

-----------------------------------------------------------------------------
(* Whatever order the fields of a frame are set in, also with values the
   setter refused, what encode produces decode gives back. *)
FrameRoundTrip == EncodeFrame(frame) # Bad => DecodeFrame(EncodeFrame(frame)) = frame

Plain == SelectSeq(heard, LAMBDA f : f # Bad)
Pings == SelectSeq(Plain, LAMBDA f : f.opcode \in {8, 9})
ThisReceive == SubSeq(heard, from + 1, Len(heard))
Interrupted == \E i \in DOMAIN ThisReceive : ThisReceive[i].opcode \in {3, 8}

(* A message read from the socket is the one the list operation makes of the
   same frames, from the first data frame on; a session fails on frames the
   list operation refuses; and every ping and close is answered in order. *)
MessagesWhole ==
  LET k == {i \in DOMAIN ThisReceive : ThisReceive[i].opcode < 8}
      fs == IF k = {} THEN <<>>
            ELSE SubSeq(ThisReceive, CHOOSE i \in k : \A j \in k : i <= j, Len(ThisReceive))
  IN /\ (mode = "session" /\ ~ receiving /\ fs # <<>> /\ ~ Interrupted) =>
          IF state = "open" THEN Reassemble(fs) = messages[Len(messages)] ELSE Reassemble(fs) = Bad
     /\ [i \in DOMAIN answers |-> answers[i].payload] = [i \in DOMAIN Pings |-> Pings[i].payload]
=============================================================================
