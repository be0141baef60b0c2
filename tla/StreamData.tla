----------------------------- MODULE StreamData -----------------------------
(***************************************************************************)
(* Reading and writing streams (src/stream.rs): the cursor, limit and tee  *)
(* of a reader, the calls built on single reads (read_line, read_to_end,   *)
(* read_exact, copy_to), and the cursor, captured bytes and file of a      *)
(* writer.  Threads share the reader and the writer; every slot lock is    *)
(* one step, so the chunks of several calls interleave and the tee is      *)
(* written after the reader's lock has been released.                      *)
(*                                                                         *)
(* The bytes of the source are 1..SourceSize, so that a byte tells where   *)
(* it comes from; 0 is the filler of a gap.                                *)
(***************************************************************************)
EXTENDS Integers, Sequences, FiniteSets

CONSTANTS Threads, SourceSize, Newlines, MaxAsk, MaxStreamBytes, Chunk,
          MaxCalls,       \* bound on the calls of all threads
          MaxWritten      \* bound on the position of a writer that captures nothing

NoLimit == -1

VARIABLES source,                \* where the reader reads: "none", "memory", "file" or "flow"
          position, remaining_limit, tee_writer,
          target, wposition, data, file, fposition, broken,
          op, want, got, buf, pc,              \* per thread: its call
          returned, lost, allowed, sought, begun   \* history

reader == <<position, remaining_limit, tee_writer>>
writer == <<wposition, data, file, fposition, broken>>
calls == <<op, want, got, buf, pc>>
history == <<returned, lost, allowed, sought, begun>>
vars == <<source, target, reader, writer, calls, history>>

Init ==
  /\ source = "none" /\ target = "none"
  /\ position = 0 /\ remaining_limit = NoLimit /\ tee_writer = FALSE
  /\ wposition = 0 /\ data = <<>> /\ file = <<>> /\ fposition = 0 /\ broken = FALSE
  /\ op = [t \in Threads |-> "none"] /\ want = [t \in Threads |-> 0]
  /\ got = [t \in Threads |-> <<>>] /\ buf = [t \in Threads |-> <<>>]
  /\ pc = [t \in Threads |-> "idle"]
  /\ returned = <<>> /\ lost = {} /\ allowed = NoLimit /\ sought = FALSE /\ begun = 0

Least(a, b) == IF a <= b THEN a ELSE b
Most(a, b) == IF a >= b THEN a ELSE b
Goto(t, l) == pc' = [pc EXCEPT ![t] = l]
BytesOf(s) == {s[i] : i \in DOMAIN s}
Idle(t) == pc[t] = "idle"

-----------------------------------------------------------------------------
(* Opening the two ends, the reader first.  A path or a socket that cannot be
   opened leaves no entry. *)

OpenReader(s) ==
  /\ source = "none" /\ source' = s
  /\ UNCHANGED <<target, reader, writer, calls, history>>

ReaderFromBytes == OpenReader("memory")
ReaderFromFile  == OpenReader("file")
Stdin           == OpenReader("flow")
ReaderFromTcp   == OpenReader("flow")

OpenWriter(w) ==
  /\ source # "none" /\ target = "none" /\ target' = w
  /\ UNCHANGED <<source, reader, writer, calls, history>>

WriterNew        == OpenWriter("memory")
Stdout           == OpenWriter("stdout")
WriterToFile     == OpenWriter("file")
WriterAppendFile == OpenWriter("append")
WriterFromTcp    == OpenWriter("socket")

-----------------------------------------------------------------------------
(* The end of a call: the bytes it took from the reader go to the caller, or
   are gone with the error it returns. *)

Finish(t, ok, bytes) ==
  /\ pc' = [pc EXCEPT ![t] = "idle"]
  /\ got' = [got EXCEPT ![t] = <<>>] /\ buf' = [buf EXCEPT ![t] = <<>>]
  /\ op' = [op EXCEPT ![t] = "none"] /\ want' = [want EXCEPT ![t] = 0]
  /\ returned' = IF ok /\ ~ sought THEN returned \o bytes ELSE returned
  /\ lost' = IF ok \/ sought THEN lost ELSE lost \cup BytesOf(bytes)
  /\ UNCHANGED <<allowed, sought, begun>>

-----------------------------------------------------------------------------
(* reader_read_up_to *)

Asked(t) ==
  CASE op[t] = "line"          -> 1
    [] op[t] = "read"          -> want[t]
    [] op[t] = "exact"         -> want[t] - Len(got[t])
    [] op[t] \in {"end", "copy"} -> Least(want[t] - Len(got[t]), Chunk)

(* A buffer gives all it has; a file or a socket may give less than asked. *)
Given(size) ==
  LET left == Least(size, SourceSize - position) IN
  IF source = "memory" \/ left = 0 THEN {left} ELSE 1..left

ReadUpTo_unlimited(t) ==
  /\ pc[t] = "read"
  /\ \E n \in Given(Asked(t)) :
       /\ buf' = [buf EXCEPT ![t] = [i \in 1..n |-> position + i]]
       /\ position' = position + n
       /\ UNCHANGED remaining_limit
       /\ Goto(t, IF tee_writer /\ n > 0 THEN "tee" ELSE "apply")
  /\ UNCHANGED <<source, target, tee_writer, writer, op, want, got, history>>

(* The cursor is set from where it was before the read of the lock. *)
ReadUpTo_stays(t) ==
  /\ pc[t] = "read"
  /\ LET size == IF remaining_limit = NoLimit THEN Asked(t) ELSE Least(remaining_limit, Asked(t)) IN
     \E n \in Given(size) :
       /\ buf' = [buf EXCEPT ![t] = [i \in 1..n |-> position + i]]
       /\ position' = Len(got[t]) + n
       /\ remaining_limit' = IF remaining_limit = NoLimit THEN NoLimit ELSE remaining_limit - n
       /\ Goto(t, IF tee_writer /\ n > 0 THEN "tee" ELSE "apply")
  /\ UNCHANGED <<source, target, tee_writer, writer, op, want, got, history>>

ReadUpTo(t) ==
  /\ pc[t] = "read"
  /\ LET size == IF remaining_limit = NoLimit THEN Asked(t) ELSE Least(remaining_limit, Asked(t)) IN
     \E n \in Given(size) :
       /\ buf' = [buf EXCEPT ![t] = [i \in 1..n |-> position + i]]
       /\ position' = position + n
       /\ remaining_limit' = IF remaining_limit = NoLimit THEN NoLimit ELSE remaining_limit - n
       /\ Goto(t, IF tee_writer /\ n > 0 THEN "tee" ELSE "apply")
  /\ UNCHANGED <<source, target, tee_writer, writer, op, want, got, history>>

(* What the calling operation does with the chunk. *)
Apply(t) ==
  LET all == got[t] \o buf[t]
      full == Len(all) = want[t]
      end == buf[t] = <<>>
      line == ~ end /\ buf[t][1] \in Newlines
      more == got' = [got EXCEPT ![t] = all] /\ buf' = [buf EXCEPT ![t] = <<>>]
              /\ Goto(t, "read") /\ UNCHANGED <<op, want, history>>
  IN
  /\ pc[t] = "apply"
  /\ CASE op[t] = "read"  -> Finish(t, TRUE, all)
       [] op[t] = "line"  -> IF end \/ line THEN Finish(t, TRUE, all) ELSE more
       [] op[t] = "end"   -> IF end \/ full THEN Finish(t, TRUE, all) ELSE more
       [] op[t] = "exact" -> IF full THEN Finish(t, TRUE, all)
                             ELSE IF end THEN Finish(t, FALSE, all) ELSE more
       [] op[t] = "copy"  -> IF end THEN Finish(t, TRUE, all)
                             ELSE Goto(t, "copy") /\ UNCHANGED <<op, want, got, buf, history>>
  /\ UNCHANGED <<source, target, reader, writer>>

-----------------------------------------------------------------------------
(* write_writer_slot *)

PutAt(s, at, bytes) ==
  [i \in 1..Most(Len(s), at + Len(bytes)) |->
     IF i > at /\ i <= at + Len(bytes) THEN bytes[i - at]
     ELSE IF i <= Len(s) THEN s[i] ELSE 0]

Captures == target # "stdout"
TooLong(bytes) == Captures /\ wposition + Len(bytes) > MaxStreamBytes

(* Where the operating system puts the bytes of a write. *)
FileAfter(bytes) ==
  CASE target \in {"memory", "stdout"} -> file
    [] target \in {"append", "socket"} -> file \o bytes
    [] target = "file"   -> PutAt(file, fposition, bytes)

WriteOk(bytes) ==
  /\ ~ TooLong(bytes) /\ ~ broken                \* bound: nothing is written after a failed write
  /\ wposition + Len(bytes) <= MaxWritten        \* bound, for what is not captured
  /\ data' = IF Captures THEN PutAt(data, wposition, bytes) ELSE data
  /\ wposition' = wposition + Len(bytes)
  /\ file' = FileAfter(bytes)
  /\ fposition' = fposition + Len(bytes)
  /\ UNCHANGED broken

(* The file fails in the middle: what it took stays, nothing is captured. *)
WriteFails(bytes) ==
  \/ TooLong(bytes) /\ UNCHANGED writer
  \/ /\ ~ TooLong(bytes) /\ target # "memory"
     /\ \E n \in 0..(Len(bytes) - 1) :
          file' = FileAfter(SubSeq(bytes, 1, n)) /\ fposition' = fposition + n
     /\ ~ broken /\ broken' = TRUE
     /\ UNCHANGED <<wposition, data>>

TeeWrite(t) ==
  /\ pc[t] = "tee"
  /\ \/ /\ WriteOk(buf[t])
        /\ Goto(t, "apply")
        /\ UNCHANGED <<op, want, got, buf, history>>
     \/ /\ WriteFails(buf[t])
        /\ Finish(t, FALSE, got[t] \o buf[t])
  /\ UNCHANGED <<source, target, reader>>

CopyWrite(t) ==
  LET all == got[t] \o buf[t] IN
  /\ pc[t] = "copy"
  /\ \/ /\ WriteOk(buf[t])
        /\ IF Len(all) = want[t]
           THEN Finish(t, TRUE, all)
           ELSE /\ got' = [got EXCEPT ![t] = all]
                /\ buf' = [buf EXCEPT ![t] = <<>>]
                /\ Goto(t, "read")
                /\ UNCHANGED <<op, want, history>>
     \/ /\ WriteFails(buf[t])
        /\ Finish(t, FALSE, all)
  /\ UNCHANGED <<source, target, reader>>

-----------------------------------------------------------------------------
(* Calls on the reader. *)

OneMoreCall == target # "none" /\ begun < MaxCalls /\ begun' = begun + 1

Begin(t, o, n) ==
  /\ Idle(t)
  /\ OneMoreCall
  /\ op' = [op EXCEPT ![t] = o] /\ want' = [want EXCEPT ![t] = n]
  /\ Goto(t, "read")
  /\ UNCHANGED <<source, target, reader, writer, got, buf, returned, lost, allowed, sought>>

Read(t)      == \E n \in 1..MaxAsk : Begin(t, "read", n)
ReadLine(t)  == Begin(t, "line", 0)
ReadToEnd(t) == \E n \in 1..MaxAsk : Begin(t, "end", n)
ReadExact(t) == \E n \in 1..MaxAsk : Begin(t, "exact", n)
CopyTo(t)    == \E n \in 1..MaxAsk : Begin(t, "copy", n)

Limit(n) ==
  /\ OneMoreCall
  /\ remaining_limit' = n /\ allowed' = position + n
  /\ UNCHANGED <<source, target, position, tee_writer, writer, calls, returned, lost, sought>>

Tee ==
  /\ OneMoreCall
  /\ tee_writer' = ~ tee_writer
  /\ UNCHANGED <<source, target, position, remaining_limit, writer, calls, returned, lost, allowed, sought>>

ReaderSeek(p) ==
  /\ source # "flow" /\ p <= SourceSize
  /\ OneMoreCall
  /\ position' = p /\ sought' = TRUE
  /\ UNCHANGED <<source, target, remaining_limit, tee_writer, writer, calls, returned, lost, allowed>>

(* Calls on the writer. *)

WriterWrite(bytes) ==
  /\ OneMoreCall
  /\ WriteOk(bytes) \/ WriteFails(bytes)
  /\ UNCHANGED <<source, target, reader, calls, returned, lost, allowed, sought>>

WriterSeek_capture(p) ==
  /\ target \notin {"stdout", "append", "socket"}
  /\ p <= IF target = "file" THEN Len(file) ELSE Len(data)
  /\ OneMoreCall
  /\ wposition' = p
  /\ UNCHANGED <<source, target, reader, data, file, fposition, broken, calls, returned, lost, allowed, sought>>

WriterSeek(p) ==
  /\ target \notin {"stdout", "append", "socket"}
  /\ p <= IF target = "file" THEN Len(file) ELSE Len(data)
  /\ OneMoreCall
  /\ wposition' = p
  /\ fposition' = IF target = "file" THEN p ELSE fposition
  /\ UNCHANGED <<source, target, reader, data, file, broken, calls, returned, lost, allowed, sought>>

Next ==
  \/ \E t \in Threads : \/ Read(t) \/ ReadLine(t) \/ ReadToEnd(t) \/ ReadExact(t) \/ CopyTo(t)
                        \/ ReadUpTo(t) \/ TeeWrite(t) \/ CopyWrite(t) \/ Apply(t)
  \/ \E n \in 0..1 : Limit(n)
  \/ \E p \in 0..1 : ReaderSeek(p) \/ WriterSeek(p)
  \/ Tee
  \/ ReaderFromBytes \/ ReaderFromFile \/ Stdin \/ ReaderFromTcp
  \/ WriterNew \/ Stdout \/ WriterToFile \/ WriterAppendFile \/ WriterFromTcp
  \/ WriterWrite(<<0, 0>>)

Spec == Init /\ [][Next]_vars

-----------------------------------------------------------------------------
InFlight == UNION {BytesOf(got[t]) \cup BytesOf(buf[t]) : t \in Threads}
Settled == BytesOf(returned) \cup lost

(* Until somebody seeks, every byte before the cursor has gone to exactly one
   caller, is in a call in progress, or was taken by a call that failed: reads
   of several threads neither repeat nor skip a byte. *)
EachByteOnce ==
  ~ sought =>
    /\ InFlight \cup Settled = 1..position
    /\ InFlight \cap Settled = {}
    /\ \A i, j \in DOMAIN returned : i # j => returned[i] # returned[j]
    /\ \A s, t \in Threads : s # t =>
         (BytesOf(got[s]) \cup BytesOf(buf[s])) \cap (BytesOf(got[t]) \cup BytesOf(buf[t])) = {}

(* limit bounds what all later reads return together, however they are split
   into chunks and whatever kind of call asks for them. *)
LimitHolds == (~ sought /\ allowed # NoLimit) => position <= allowed

(* bytes() of a writer on a file or a socket is what was written to it, through
   seeks and overwrites, until a write fails. *)
CaptureMirrorsFile == (target \in {"file", "append", "socket"} /\ ~ broken) => data = file
=============================================================================
