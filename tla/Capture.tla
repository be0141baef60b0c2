------------------------------- MODULE Capture -------------------------------
(***************************************************************************)
(* run_command_output of src/process.rs: run a child, read its two output  *)
(* pipes in two threads (read_captured_pipe), poll for its end, and return *)
(* what it wrote, or an error once a pipe gave more than the limit.  The   *)
(* parent, the two readers, the child and a descendant that keeps the      *)
(* pipes open run concurrently; a pipe holds PipeSize bytes.               *)
(***************************************************************************)
EXTENDS Naturals

CONSTANTS PipeSize, MAX_PROCESS_IO_BYTES

Pipes == {"stdout", "stderr"}

VARIABLES child, stray,          \* the process and its descendant
          endless,               \* the child does not end by itself
          inPipe, wrote,         \* per pipe: bytes in it, bytes written so far
          reader, output,        \* per pipe: its reader, bytes it collected
          overflow, abort, parent, status, answer

vars == <<child, endless, stray, inPipe, wrote, reader, output, overflow, abort, parent, status, answer>>
pipes == <<inPipe, wrote>>
readers == <<reader, output, overflow, abort>>

Init ==
  /\ child = "running" /\ stray \in BOOLEAN /\ endless \in BOOLEAN
  /\ inPipe = [p \in Pipes |-> 0] /\ wrote = [p \in Pipes |-> 0]
  /\ reader = [p \in Pipes |-> "reading"] /\ output = [p \in Pipes |-> 0]
  /\ overflow = FALSE /\ abort = FALSE
  /\ parent = "poll" /\ status = FALSE /\ answer = "none"

-----------------------------------------------------------------------------
(* The operating system: writing blocks while the pipe is full, and stops the
   child once nobody reads. *)

Write(p) ==
  /\ child = "running" \/ stray
  /\ reader[p] = "reading" /\ inPipe[p] < PipeSize
  /\ wrote[p] <= MAX_PROCESS_IO_BYTES              \* bound
  /\ inPipe' = [inPipe EXCEPT ![p] = @ + 1]
  /\ wrote' = [wrote EXCEPT ![p] = @ + 1]
  /\ UNCHANGED <<child, endless, stray, readers, parent, status, answer>>

(* A child that ends by itself. *)
ChildExits ==
  /\ child = "running" /\ ~ endless
  /\ child' = "zombie"
  /\ UNCHANGED <<endless, stray, pipes, readers, parent, status, answer>>

StrayExits ==
  /\ stray /\ stray' = FALSE
  /\ UNCHANGED <<child, endless, pipes, readers, parent, status, answer>>

-----------------------------------------------------------------------------
(* read_captured_pipe *)

ReadChunk(p) ==
  /\ reader[p] = "reading" /\ inPipe[p] > 0
  /\ \E n \in 1..inPipe[p] :
       /\ inPipe' = [inPipe EXCEPT ![p] = @ - n]
       /\ IF output[p] + n > MAX_PROCESS_IO_BYTES
          THEN /\ overflow' = TRUE /\ abort' = TRUE
               /\ reader' = [reader EXCEPT ![p] = "error"]
               /\ UNCHANGED output
          ELSE /\ output' = [output EXCEPT ![p] = @ + n]
               /\ UNCHANGED <<reader, overflow, abort>>
  /\ UNCHANGED <<child, endless, stray, wrote, parent, status, answer>>

ReadFails(p) ==
  /\ reader[p] = "reading"
  /\ abort' = TRUE
  /\ reader' = [reader EXCEPT ![p] = "error"]
  /\ UNCHANGED <<child, endless, stray, pipes, output, overflow, parent, status, answer>>

ReadEnd(p) ==
  /\ reader[p] = "reading" /\ inPipe[p] = 0 /\ child # "running" /\ ~ stray
  /\ reader' = [reader EXCEPT ![p] = "end"]
  /\ UNCHANGED <<child, endless, stray, pipes, output, overflow, abort, parent, status, answer>>

-----------------------------------------------------------------------------
(* The parent. *)

(* A reader gave up: kill the group and wait for the child. *)
Terminate ==
  /\ parent = "poll" /\ abort
  /\ child' = "reaped" /\ stray' = FALSE
  /\ status' = TRUE /\ parent' = "joinStdout"
  /\ UNCHANGED <<endless, pipes, readers, answer>>

SeesExit ==
  /\ parent = "poll" /\ ~ abort /\ child = "zombie"
  /\ child' = "reaped"
  /\ status' = TRUE /\ parent' = "joinStdout"
  /\ UNCHANGED <<endless, stray, pipes, readers, answer>>

Join(p, here, next) ==
  /\ parent = here /\ reader[p] # "reading"
  /\ IF reader[p] = "error"
     THEN parent' = "done" /\ answer' = "error"
     ELSE parent' = next /\ UNCHANGED answer
  /\ UNCHANGED <<child, endless, stray, pipes, readers, status>>

JoinStdout == Join("stdout", "joinStdout", "joinStderr")
JoinStderr_skipped ==
  /\ parent = "joinStderr" /\ parent' = "finish"
  /\ UNCHANGED <<child, endless, stray, pipes, readers, status, answer>>

JoinStderr == Join("stderr", "joinStderr", "finish")

Finish ==
  /\ parent = "finish"
  /\ parent' = "done"
  /\ answer' = IF overflow \/ ~ status THEN "error" ELSE "output"
  /\ UNCHANGED <<child, endless, stray, pipes, readers, status>>

ReaderStep(p) == ReadChunk(p) \/ ReadEnd(p)
Parent == Terminate \/ SeesExit \/ JoinStdout \/ JoinStderr \/ Finish

Next ==
  \/ \E p \in Pipes : Write(p) \/ ReaderStep(p) \/ ReadFails(p)
  \/ ChildExits \/ StrayExits \/ Parent

Spec == Init /\ [][Next]_vars

-----------------------------------------------------------------------------
(* Output that is returned is all the child wrote, to both pipes, and the
   child has been reaped whatever is returned. *)
OutputComplete ==
  /\ parent = "done" => child = "reaped"
  /\ answer = "output" => \A p \in Pipes : output[p] = wrote[p] /\ output[p] <= MAX_PROCESS_IO_BYTES
=============================================================================
