---------------------------- MODULE ChildProcess ----------------------------
(***************************************************************************)
(* A spawned child (src/process.rs): its handle with counted names, the    *)
(* mutex every operation on it takes, its pipes, and the operating         *)
(* system's process behind it.  Threads share the handle.  A read of a     *)
(* pipe blocks with the child's mutex held; a wait polls and holds it for  *)
(* one look at a time.                                                     *)
(*                                                                         *)
(* The child is one of three programs: one that ends by itself, one that   *)
(* reads its input to the end, and one that writes until it is stopped.    *)
(***************************************************************************)
EXTENDS Naturals, FiniteSets

CONSTANTS Threads, Programs, PipeSize, Nobody

VARIABLES program,
          cmd,          \* stdin and stdout of the CommandSpec: "inherit", "null" or "piped"
          os,           \* the process: "none", "running", "zombie" or "reaped"
          stray,        \* a descendant keeps the pipe's other end
          pipe,         \* bytes in the child's stdout
          stdin,        \* the parent's end of the child's stdin is open
          mutex,        \* who holds the child's mutex
          names,        \* threads that own a name of the handle
          entry,        \* the handle is in CHILDREN
          pc            \* where a thread is

osVars == <<program, cmd, os, stray, pipe, stdin>>
vars == <<osVars, mutex, names, entry, pc>>

Init ==
  /\ program \in Programs
  /\ cmd = [stdin |-> "inherit", stdout |-> "inherit"]
  /\ os = "none" /\ stray = FALSE /\ pipe = 0 /\ stdin = FALSE
  /\ mutex = Nobody
  /\ names = {} /\ entry = FALSE
  /\ pc = [t \in Threads |-> "idle"]

Goto(t, l) == pc' = [pc EXCEPT ![t] = l]

-----------------------------------------------------------------------------
(* The operating system. *)

ChildWrites == program # "quiet" /\ os = "running" /\ pipe < PipeSize /\ cmd.stdout = "piped"
               /\ pipe' = pipe + 1 /\ UNCHANGED <<program, cmd, os, stray, stdin>>

(* The writer never ends by itself; the reader ends at the end of its input. *)
ChildExits == /\ os = "running"
              /\ \/ program = "quiet"
                 \/ program = "reader" /\ ~ stdin /\ cmd.stdin # "inherit"
              /\ os' = "zombie" /\ UNCHANGED <<program, cmd, stray, pipe, stdin>>

StrayExits == stray /\ stray' = FALSE /\ UNCHANGED <<program, cmd, os, pipe, stdin>>

System == /\ ChildWrites \/ ChildExits \/ StrayExits
          /\ UNCHANGED <<mutex, names, entry, pc>>

Alive == os = "running" \/ stray

-----------------------------------------------------------------------------
(* The command's standard streams, and spawn. *)

SetStdioMode(field, m) ==
  /\ os = "none"
  /\ cmd' = [cmd EXCEPT ![field] = m]
  /\ UNCHANGED <<program, os, stray, pipe, stdin, mutex, names, entry, pc>>

StdinPiped  == SetStdioMode("stdin", "piped")
StdinNull   == SetStdioMode("stdin", "null")
StdoutPiped == SetStdioMode("stdout", "piped")
StdoutNull  == SetStdioMode("stdout", "null")

Spawn ==
  /\ os = "none"
  /\ os' = "running" /\ stray' \in BOOLEAN
  /\ stdin' = (cmd.stdin = "piped")
  /\ names' = Threads /\ entry' = TRUE
  /\ UNCHANGED <<program, cmd, pipe, mutex, pc>>

-----------------------------------------------------------------------------
(* Every operation finds the entry, then takes the child's mutex. *)

Call(t, op) ==
  /\ pc[t] = "idle" /\ t \in names /\ entry
  /\ Goto(t, op)
  /\ UNCHANGED <<osVars, mutex, names, entry>>

(* wait: close stdin, then look until the child has ended. *)
WaitClosesStdin(t) ==
  /\ pc[t] = "wait" /\ mutex = Nobody
  /\ stdin' = FALSE
  /\ Goto(t, "poll")
  /\ UNCHANGED <<program, cmd, os, stray, pipe, mutex, names, entry>>

(* try_wait of the Rust library: reaps a child that has ended. *)
Reap == os' = IF os = "zombie" THEN "reaped" ELSE os

Poll(t) ==
  /\ pc[t] = "poll" /\ mutex = Nobody
  /\ os # "running"
  /\ Reap
  /\ Goto(t, "idle")
  /\ UNCHANGED <<program, cmd, stray, pipe, stdin, mutex, names, entry>>

(* try_wait, and wait_timeout, which looks until its time is over. *)
TryWait(t) ==
  /\ pc[t] \in {"tryWait", "waitTimeout"} /\ mutex = Nobody
  /\ Reap
  /\ \/ Goto(t, "idle")
     \/ pc[t] = "waitTimeout" /\ os = "running" /\ UNCHANGED pc
  /\ UNCHANGED <<program, cmd, stray, pipe, stdin, mutex, names, entry>>

Kill(t) ==
  /\ pc[t] = "kill" /\ mutex = Nobody
  /\ os' = IF os = "running" THEN "zombie" ELSE os
  /\ Goto(t, "idle")
  /\ UNCHANGED <<program, cmd, stray, pipe, stdin, mutex, names, entry>>

KillGroup(t) ==
  /\ pc[t] = "killGroup" /\ mutex = Nobody
  /\ os' = IF os = "running" THEN "zombie" ELSE os
  /\ stray' = FALSE
  /\ Goto(t, "idle")
  /\ UNCHANGED <<program, cmd, pipe, stdin, mutex, names, entry>>

(* A write to stdin: refused once stdin is closed, an error once the child
   ended.  The pipe is taken to have room. *)
WriteStdin(t) ==
  /\ pc[t] = "writeStdin" /\ mutex = Nobody
  /\ Goto(t, "idle")
  /\ UNCHANGED <<osVars, mutex, names, entry>>

CloseStdin(t) ==
  /\ pc[t] = "closeStdin" /\ mutex = Nobody
  /\ stdin' = FALSE
  /\ Goto(t, "idle")
  /\ UNCHANGED <<program, cmd, os, stray, pipe, mutex, names, entry>>

(* A read takes the mutex and keeps it until there are bytes or the end. *)
ReadLock(t) ==
  /\ pc[t] = "read" /\ mutex = Nobody
  /\ IF cmd.stdout = "piped"
     THEN mutex' = t /\ Goto(t, "reading")
     ELSE Goto(t, "idle") /\ UNCHANGED mutex
  /\ UNCHANGED <<osVars, names, entry>>

ReadPipe(t) ==
  /\ pc[t] = "reading"
  /\ \/ pipe > 0 /\ pipe' = pipe - 1
     \/ pipe = 0 /\ ~ Alive /\ UNCHANGED pipe
  /\ mutex' = Nobody
  /\ Goto(t, "idle")
  /\ UNCHANGED <<program, cmd, os, stray, stdin, names, entry>>

-----------------------------------------------------------------------------
(* Names.  The last one kills the group and waits for the child. *)

DropName(t) ==
  /\ pc[t] = "idle" /\ t \in names
  /\ names' = names \ {t}
  /\ IF names = {t} THEN entry' = FALSE /\ Goto(t, "last")
                    ELSE Goto(t, "gone") /\ UNCHANGED entry
  /\ UNCHANGED <<osVars, mutex>>

LastName_kills(t) ==
  /\ pc[t] = "last" /\ mutex = Nobody
  /\ os' = IF os = "running" THEN "zombie" ELSE os
  /\ stray' = FALSE /\ stdin' = FALSE
  /\ Goto(t, "gone")
  /\ UNCHANGED <<program, cmd, pipe, mutex, names, entry>>

LastName(t) ==
  /\ pc[t] = "last" /\ mutex = Nobody
  /\ os' = "reaped" /\ stray' = FALSE /\ stdin' = FALSE
  /\ Goto(t, "gone")
  /\ UNCHANGED <<program, cmd, pipe, mutex, names, entry>>

Ops == {"wait", "tryWait", "waitTimeout", "kill", "killGroup", "writeStdin", "closeStdin", "read"}

Step(t) ==
  \/ WaitClosesStdin(t) \/ Poll(t) \/ TryWait(t) \/ Kill(t) \/ KillGroup(t)
  \/ WriteStdin(t) \/ CloseStdin(t) \/ ReadLock(t) \/ ReadPipe(t) \/ LastName(t)

Next ==
  \/ System
  \/ StdinPiped \/ StdinNull \/ StdoutPiped \/ StdoutNull \/ Spawn
  \/ \E t \in Threads : (\E op \in Ops : Call(t, op)) \/ Step(t) \/ DropName(t)

Spec == Init /\ [][Next]_vars

-----------------------------------------------------------------------------
(* When the last name is gone and its drop has returned, the child was
   reaped and nothing of its process group is left. *)
NoProcessLeft == (\A t \in Threads : pc[t] = "gone") => (os = "reaped" /\ ~ stray)
=============================================================================
