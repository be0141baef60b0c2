--------------------------------- MODULE Log --------------------------------
(***************************************************************************)
(* Loggers and the default logger (src/log.rs).  A Logger value names an   *)
(* entry that counts its references; the default logger is one more        *)
(* reference.  The table of entries and the handle of the default logger   *)
(* have a lock each, and a call takes them one after the other: every      *)
(* acquisition is a step.  Writers belong to src/stream.rs, of which only  *)
(* the reference count is kept here.                                       *)
(***************************************************************************)
EXTENDS Naturals, FiniteSets, FiniteSetsExt

CONSTANTS
  Threads,
  Setters,    \* the threads that call set_default
  Writers,
  MaxHandle,  \* loggers created
  MaxCalls

VARIABLES loggers, default, next, vals, wrefs, owned, call, calls
vars == <<loggers, default, next, vals, wrefs, owned, call, calls>>

Handles == 1..MaxHandle
NoWriter == "none"
Idle == [pc |-> "idle", h |-> 0, prev |-> 0, w |-> NoWriter, for |-> "none"]
Fresh == [refs |-> 1, writer |-> NoWriter, quiet |-> FALSE]
Live(h) == h \in DOMAIN loggers

Init ==
  /\ loggers = <<>> /\ default = 0 /\ next = 1
  /\ vals = [t \in Threads |-> [h \in Handles |-> 0]]
  /\ wrefs = [w \in Writers |-> 1] /\ owned = Writers
  /\ call = [t \in Threads |-> Idle] /\ calls = 0

At(t, pc) == call[t].pc = pc
Go(t, c) == call' = [call EXCEPT ![t] = c]
Step(t, pc) == call' = [call EXCEPT ![t].pc = pc]
Return(t) == Go(t, Idle)
Enter(t) == At(t, "idle") /\ calls < MaxCalls /\ calls' = calls + 1
Holds(t, h) == vals[t][h] > 0

Entry(h, e) == [x \in DOMAIN loggers \cup {h} |-> IF x = h THEN e ELSE loggers[x]]
Remove(h) == [x \in DOMAIN loggers \ {h} |-> loggers[x]]
Value(t, h) == vals' = [vals EXCEPT ![t][h] = @ + 1]
retain_logger(h) == loggers' = Entry(h, [loggers[h] EXCEPT !.refs = @ + 1])
Retain_writer(w) == wrefs' = [wrefs EXCEPT ![w] = @ + 1]
Release_writer(w) == wrefs' = IF w = NoWriter THEN wrefs ELSE [wrefs EXCEPT ![w] = @ - 1]

(***************************************************************************)
(* Values.                                                                 *)
(***************************************************************************)
next_handle == next <= MaxHandle /\ next' = next + 1

mux_log_logger_new(t) ==
  /\ Enter(t) /\ next_handle /\ loggers' = Entry(next, Fresh) /\ Value(t, next)
  /\ UNCHANGED <<default, wrefs, owned, call>>

copy_logger_handle(t, to, h) ==
  /\ Enter(t) /\ Holds(t, h) /\ Live(h)
  /\ retain_logger(h) /\ Value(to, h) /\ UNCHANGED <<default, next, wrefs, owned, call>>

ReleaseStep_keepsWriter(t, h) ==
  IF Live(h) /\ loggers[h].refs = 1
  THEN loggers' = Remove(h) /\ Go(t, [Idle EXCEPT !.pc = "removed", !.h = h])
  ELSE loggers' = (IF Live(h) THEN Entry(h, [loggers[h] EXCEPT !.refs = @ - 1]) ELSE loggers) /\ Return(t)

\* The count and the entry, under the lock of the table: the last reference takes it out.
ReleaseStep(t, h) ==
  IF Live(h) /\ loggers[h].refs = 1
  THEN loggers' = Remove(h) /\ Go(t, [Idle EXCEPT !.pc = "removed", !.h = h, !.w = loggers[h].writer])
  ELSE loggers' = (IF Live(h) THEN Entry(h, [loggers[h] EXCEPT !.refs = @ - 1]) ELSE loggers) /\ Return(t)

drop_logger(t, h) ==
  /\ Enter(t) /\ Holds(t, h) /\ vals' = [vals EXCEPT ![t][h] = @ - 1]
  /\ ReleaseStep(t, h) /\ UNCHANGED <<default, next, wrefs, owned>>

\* Afterwards the default logger is reset if it was this one, and the writer let go.
release_logger(t) ==
  /\ At(t, "removed") /\ default' = IF default = call[t].h THEN 0 ELSE default
  /\ Release_writer(call[t].w) /\ Return(t) /\ UNCHANGED <<loggers, next, vals, owned, calls>>

(***************************************************************************)
(* The default logger: looked up, created when there is none, and used to  *)
(* make a value or to write a message.                                     *)
(***************************************************************************)
ReadDefault(t, for) ==
  /\ Enter(t) /\ Go(t, [Idle EXCEPT !.pc = "check", !.h = default, !.for = for])
  /\ UNCHANGED <<loggers, default, next, vals, wrefs, owned>>
mux_log_default(t) == ReadDefault(t, "value")
default_message(t) == ReadDefault(t, "message")

DefaultFound(t) ==
  /\ At(t, "check") /\ Step(t, IF Live(call[t].h) THEN call[t].for ELSE "create")
  /\ UNCHANGED <<loggers, default, next, vals, wrefs, owned, calls>>

\* The entry is created and published: one reference, the default's own, stays.
default_handle(t) ==
  /\ At(t, "create") /\ next_handle /\ loggers' = Entry(next, Fresh) /\ default' = next
  /\ Go(t, [call[t] EXCEPT !.pc = call[t].for, !.h = next]) /\ UNCHANGED <<vals, wrefs, owned, calls>>

DefaultValue(t) ==
  /\ At(t, "value") /\ Return(t)
  /\ IF Live(call[t].h) THEN retain_logger(call[t].h) /\ Value(t, call[t].h) ELSE UNCHANGED <<loggers, vals>>
  /\ UNCHANGED <<default, next, wrefs, owned, calls>>

SetDefault_borrows(t, h) ==
  /\ t \in Setters /\ Enter(t) /\ Holds(t, h)
  /\ IF Live(h) THEN Go(t, [Idle EXCEPT !.pc = "previous", !.h = h]) ELSE Return(t)
  /\ UNCHANGED <<loggers, default, next, vals, wrefs, owned>>

SetDefault(t, h) ==
  /\ t \in Setters /\ Enter(t) /\ Holds(t, h)
  /\ IF Live(h) THEN retain_logger(h) /\ Go(t, [Idle EXCEPT !.pc = "previous", !.h = h])
     ELSE Return(t) /\ UNCHANGED loggers
  /\ UNCHANGED <<default, next, vals, wrefs, owned>>

ReadPrevious(t) ==
  /\ At(t, "previous") /\ Go(t, [call[t] EXCEPT !.pc = "store", !.prev = default])
  /\ UNCHANGED <<loggers, default, next, vals, wrefs, owned, calls>>

StoreDefault(t) ==
  /\ At(t, "store") /\ default' = call[t].h
  /\ IF call[t].prev = 0 THEN Return(t) ELSE Step(t, "release")
  /\ UNCHANGED <<loggers, next, vals, wrefs, owned, calls>>

ReleasePrevious(t) ==
  /\ At(t, "release") /\ ReleaseStep(t, call[t].prev) /\ UNCHANGED <<default, next, vals, wrefs, owned, calls>>

(***************************************************************************)
(* Settings and messages.                                                  *)
(***************************************************************************)
mux_log_logger_set_level(t, h) ==
  /\ Enter(t) /\ Holds(t, h) /\ Live(h)
  /\ loggers' = Entry(h, [loggers[h] EXCEPT !.quiet = ~@])
  /\ UNCHANGED <<default, next, vals, wrefs, owned, call>>

\* The new writer is retained first; the entry is looked up again for the exchange.
mux_log_logger_set_writer(t, h, w) ==
  /\ Enter(t) /\ Holds(t, h) /\ Live(h) /\ w \in owned /\ Retain_writer(w)
  /\ Go(t, [Idle EXCEPT !.pc = "exchange", !.h = h, !.w = w])
  /\ UNCHANGED <<loggers, default, next, vals, owned>>

ExchangeWriter(t) ==
  LET h == call[t].h IN
  /\ At(t, "exchange")
  /\ IF Live(h)
     THEN /\ loggers' = Entry(h, [loggers[h] EXCEPT !.writer = call[t].w])
          /\ Go(t, [Idle EXCEPT !.pc = "unwrite", !.w = loggers[h].writer])
     ELSE Step(t, "unwrite") /\ UNCHANGED loggers
  /\ UNCHANGED <<default, next, vals, wrefs, owned, calls>>

ReleaseWriter(t) ==
  /\ At(t, "unwrite") /\ Release_writer(call[t].w) /\ Return(t)
  /\ UNCHANGED <<loggers, default, next, vals, owned, calls>>

logger_message(t, h) ==
  /\ Enter(t) /\ Holds(t, h) /\ Live(h) /\ Go(t, [Idle EXCEPT !.pc = "message", !.h = h])
  /\ UNCHANGED <<loggers, default, next, vals, wrefs, owned>>

\* The entry is copied; the message is written without the table's lock.
emit(t) ==
  LET h == call[t].h IN
  /\ At(t, "message")
  /\ IF Live(h) /\ ~loggers[h].quiet THEN Go(t, [Idle EXCEPT !.pc = "write", !.w = loggers[h].writer]) ELSE Return(t)
  /\ UNCHANGED <<loggers, default, next, vals, wrefs, owned, calls>>

write_line(t) ==
  /\ At(t, "write") /\ Return(t) /\ UNCHANGED <<loggers, default, next, vals, wrefs, owned, calls>>

\* The program lets go of its own writer.
DropWriter(w) ==
  /\ w \in owned /\ owned' = owned \ {w} /\ Release_writer(w)
  /\ UNCHANGED <<loggers, default, next, vals, call, calls>>

Next ==
  \/ \E t \in Threads :
       \/ mux_log_logger_new(t) \/ mux_log_default(t) \/ default_message(t) \/ DefaultFound(t)
       \/ default_handle(t) \/ DefaultValue(t) \/ ReadPrevious(t) \/ StoreDefault(t) \/ ReleasePrevious(t)
       \/ release_logger(t) \/ ExchangeWriter(t) \/ ReleaseWriter(t) \/ emit(t) \/ write_line(t)
       \/ \E h \in Handles :
            \/ drop_logger(t, h) \/ SetDefault(t, h) \/ mux_log_logger_set_level(t, h) \/ logger_message(t, h)
            \/ \E to \in Threads : copy_logger_handle(t, to, h)
            \/ \E w \in Writers : mux_log_logger_set_writer(t, h, w)
  \/ \E w \in Writers : DropWriter(w)
Spec == Init /\ [][Next]_vars

(***************************************************************************)
(* Properties                                                              *)
(***************************************************************************)
Held(w) ==
  Cardinality({h \in DOMAIN loggers : loggers[h].writer = w})
  + Cardinality({t \in Threads : call[t].w = w /\ call[t].pc \in {"exchange", "unwrite", "removed"}})

\* A writer is retained once for every logger that writes to it and for every call that
\* is about to store it or let it go, on the error paths of set_writer too.
WriterRefsExact == \A w \in Writers : wrefs[w] = Held(w) + (IF w \in owned THEN 1 ELSE 0)

\* A Logger value always finds its entry, and so does the default logger, whatever other
\* values are dropped and whichever logger becomes the default meanwhile.
LoggerHandlesLive ==
  /\ \A t \in Threads, h \in Handles : Holds(t, h) => Live(h)
  /\ default # 0 => Live(default)
=============================================================================
