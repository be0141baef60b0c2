---------------------------- MODULE StreamHandles ----------------------------
(***************************************************************************)
(* Names of readers, writers and erased streams (src/stream.rs): the three *)
(* registries, their reference counts, and the writer a reader keeps for   *)
(* its tee.  Each registry lock and each slot lock is one step; a thread   *)
(* that has fetched a slot goes on using it after the registry forgot it.  *)
(*                                                                         *)
(* The model has one reader, one writer and one erased stream over either. *)
(* A name is an object that still stores the handle; any thread may use it.*)
(***************************************************************************)
EXTENDS Naturals, FiniteSets

CONSTANTS Threads, MaxNames

Ends == {"reader", "writer"}
Kinds == Ends \cup {"stream"}

VARIABLES reg, refs,      \* per kind: in its registry, and the count kept there
          names,          \* per kind: objects that store the handle
          lease,          \* tee_writer of the reader's slot
          wraps,          \* the end the erased stream keeps, if any
          pc, using       \* per thread: its call, and the end it retained

vars == <<reg, refs, names, lease, wraps, pc, using>>

Init ==
  /\ reg = [k \in Kinds |-> k \in Ends]
  /\ refs = [k \in Kinds |-> IF k \in Ends THEN 1 ELSE 0]
  /\ names = [k \in Kinds |-> IF k \in Ends THEN 1 ELSE 0]
  /\ lease = FALSE
  /\ wraps = "none"
  /\ pc = [t \in Threads |-> "idle"]
  /\ using = [t \in Threads |-> "none"]

Idle(t) == pc[t] = "idle"
Goto(t, l) == pc' = [pc EXCEPT ![t] = l]

-----------------------------------------------------------------------------
(* Releasing references.  drops[k] is how many references of end k go; the
   last one of a reader also lets go of the writer of its tee. *)

Retain(k) == reg[k] /\ refs' = [refs EXCEPT ![k] = @ + 1]

LastReader(drops) == reg["reader"] /\ drops["reader"] > 0 /\ refs["reader"] = drops["reader"]

WriterDrops(drops, teeGone) == drops["writer"] + (IF teeGone THEN 1 ELSE 0)

Settle(drops, teeGone) ==
  LET d == [drops EXCEPT !["writer"] = WriterDrops(drops, teeGone)]
  IN  /\ refs' = [k \in Kinds |-> IF reg[k] /\ d[k] <= refs[k] THEN refs[k] - d[k] ELSE refs[k]]
      /\ reg' = [k \in Kinds |-> reg[k] /\ (d[k] > 0 => refs[k] # d[k])]

Drops(k) == [e \in Kinds |-> IF e = k THEN 1 ELSE 0]

Release(k) ==
  LET last == LastReader(Drops(k)) IN
  /\ Settle(Drops(k), last /\ lease)
  /\ lease' = (lease /\ ~ last)

(* The erased stream's entry goes, and its reference to the end with it. *)
Unwrap ==
  LET last == LastReader(Drops(wraps))
      d == [Drops(wraps) EXCEPT !["writer"] = WriterDrops(Drops(wraps), last /\ lease)]
  IN  /\ refs' = [k \in Kinds |-> IF k = "stream" THEN 0
                                  ELSE IF reg[k] /\ d[k] <= refs[k] THEN refs[k] - d[k] ELSE refs[k]]
      /\ reg' = [k \in Kinds |-> k # "stream" /\ reg[k] /\ (d[k] > 0 => refs[k] # d[k])]
      /\ lease' = (lease /\ ~ last)
      /\ wraps' = "none"

-----------------------------------------------------------------------------
(* Names. *)

(* A copy of a name whose entry is gone stores no handle. *)
Copy(k) ==
  /\ names[k] \in 1..(MaxNames - 1)
  /\ Retain(k)
  /\ names' = [names EXCEPT ![k] = @ + 1]
  /\ UNCHANGED <<reg, lease, wraps, pc, using>>

Drop(k) ==
  /\ k \in Ends /\ names[k] > 0
  /\ names' = [names EXCEPT ![k] = @ - 1]
  /\ Release(k)
  /\ UNCHANGED <<wraps, pc, using>>

(* close removes the entry whatever its count; the other names find nothing. *)
CloseReader ==
  /\ names["reader"] > 0
  /\ names' = [names EXCEPT !["reader"] = @ - 1]
  /\ LET tee == reg["reader"] /\ lease IN
     /\ refs' = [refs EXCEPT !["writer"] = IF tee /\ reg["writer"] THEN @ - 1 ELSE @]
     /\ reg' = [reg EXCEPT !["reader"] = FALSE, !["writer"] = @ /\ ~ (tee /\ refs["writer"] = 1)]
     /\ lease' = (lease /\ ~ tee)
  /\ UNCHANGED <<wraps, pc, using>>

CloseWriter ==
  /\ names["writer"] > 0
  /\ names' = [names EXCEPT !["writer"] = @ - 1]
  /\ reg' = [reg EXCEPT !["writer"] = FALSE]
  /\ UNCHANGED <<refs, lease, wraps, pc, using>>

-----------------------------------------------------------------------------
(* Erased streams. *)

StreamFrom(k) ==
  /\ names[k] > 0 /\ reg[k] /\ wraps = "none" /\ names["stream"] = 0
  /\ refs' = [refs EXCEPT ![k] = @ + 1, !["stream"] = 1]
  /\ reg' = [reg EXCEPT !["stream"] = TRUE]
  /\ names' = [names EXCEPT !["stream"] = 1]
  /\ wraps' = k
  /\ UNCHANGED <<lease, pc, using>>

StreamDrop ==
  /\ names["stream"] > 0
  /\ names' = [names EXCEPT !["stream"] = @ - 1]
  /\ IF reg["stream"] /\ refs["stream"] = 1
     THEN Unwrap
     ELSE /\ refs' = [refs EXCEPT !["stream"] = IF reg["stream"] THEN @ - 1 ELSE @]
          /\ UNCHANGED <<reg, lease, wraps>>
  /\ UNCHANGED <<pc, using>>

StreamClose ==
  /\ names["stream"] > 0 /\ reg["stream"]
  /\ names' = [names EXCEPT !["stream"] = @ - 1]
  /\ Unwrap
  /\ UNCHANGED <<pc, using>>

(* read, write, flush and seek of an erased stream: look the end up, make a
   name of it for the call, and drop that name. *)
StreamOp(t) ==
  /\ Idle(t) /\ names["stream"] > 0 /\ reg["stream"]
  /\ Goto(t, "found")
  /\ using' = [using EXCEPT ![t] = wraps]
  /\ UNCHANGED <<reg, refs, names, lease, wraps>>

StreamOpRetain(t) ==
  /\ pc[t] = "found"
  /\ \/ Retain(using[t]) /\ Goto(t, "using") /\ UNCHANGED using
     \/ ~ reg[using[t]] /\ Goto(t, "idle") /\ using' = [using EXCEPT ![t] = "none"] /\ UNCHANGED refs
  /\ UNCHANGED <<reg, names, lease, wraps>>

(* ReaderAdapter::from_value: another component keeps the reader for a while. *)
Adapt(t) ==
  /\ Idle(t) /\ names["reader"] > 0
  /\ Retain("reader")
  /\ Goto(t, "using")
  /\ using' = [using EXCEPT ![t] = "reader"]
  /\ UNCHANGED <<reg, names, lease, wraps>>

DoneUsing(t) ==
  /\ pc[t] = "using"
  /\ Release(using[t])
  /\ Goto(t, "idle")
  /\ using' = [using EXCEPT ![t] = "none"]
  /\ UNCHANGED <<names, wraps>>

-----------------------------------------------------------------------------
(* tee: retain the writer, fetch the two slots, and store the lease. *)

Tee(t) ==
  /\ Idle(t) /\ names["reader"] > 0 /\ names["writer"] > 0
  /\ reg["reader"] /\ Retain("writer")
  /\ Goto(t, "tee")
  /\ UNCHANGED <<reg, names, lease, wraps, using>>

TeeFetch(t) ==
  /\ pc[t] = "tee"
  /\ \/ reg["reader"] /\ Goto(t, "teeReader") /\ UNCHANGED <<reg, refs, lease>>
     \/ ~ reg["reader"] /\ Release("writer") /\ Goto(t, "idle")
  /\ UNCHANGED <<names, wraps, using>>

TeeFetchWriter(t) ==
  /\ pc[t] = "teeReader"
  /\ \/ reg["writer"] /\ Goto(t, "teeStore") /\ UNCHANGED <<reg, refs, lease>>
     \/ ~ reg["writer"] /\ Release("writer") /\ Goto(t, "idle")
  /\ UNCHANGED <<names, wraps, using>>

(* The lease that was there before is released. *)
TeeStore_twice(t) ==
  /\ pc[t] = "teeStore"
  /\ lease' = TRUE
  /\ UNCHANGED <<reg, refs>>
  /\ Goto(t, "idle")
  /\ UNCHANGED <<names, wraps, using>>

TeeStore(t) ==
  /\ pc[t] = "teeStore"
  /\ lease' = TRUE
  /\ IF lease THEN Settle(Drops("writer"), FALSE) ELSE UNCHANGED <<reg, refs>>
  /\ Goto(t, "idle")
  /\ UNCHANGED <<names, wraps, using>>

Untee ==
  /\ names["reader"] > 0 /\ reg["reader"]
  /\ lease' = FALSE
  /\ IF lease THEN Settle(Drops("writer"), FALSE) ELSE UNCHANGED <<reg, refs>>
  /\ UNCHANGED <<names, wraps, pc, using>>

Next ==
  \/ \E k \in Kinds : Copy(k)
  \/ \E k \in Ends : Drop(k) \/ StreamFrom(k)
  \/ CloseReader \/ CloseWriter \/ StreamDrop \/ StreamClose \/ Untee
  \/ \E t \in Threads : \/ StreamOp(t) \/ StreamOpRetain(t) \/ Adapt(t) \/ DoneUsing(t)
                        \/ Tee(t) \/ TeeFetch(t) \/ TeeFetchWriter(t) \/ TeeStore(t)

Spec == Init /\ [][Next]_vars

-----------------------------------------------------------------------------
TypeOK ==
  /\ reg \in [Kinds -> BOOLEAN] /\ refs \in [Kinds -> Nat] /\ names \in [Kinds -> 0..MaxNames]
  /\ lease \in BOOLEAN /\ wraps \in Ends \cup {"none"}
  /\ pc \in [Threads -> {"idle", "found", "using", "tee", "teeReader", "teeStore"}]
  /\ using \in [Threads -> Ends \cup {"none"}]

Users(k) == {t \in Threads : pc[t] = "using" /\ using[t] = k}
Teeing == {t \in Threads : pc[t] \in {"tee", "teeReader", "teeStore"}}

(* The count of an open stream is the number of its names, of erased streams
   and calls that keep it and, for a writer, of tee leases: it is removed with
   the last of them and not before. *)
StreamRefsExact ==
  \A k \in Ends :
    reg[k] =>
      /\ refs[k] = names[k] + (IF wraps = k THEN 1 ELSE 0) + Cardinality(Users(k))
                   + (IF k = "writer" THEN Cardinality(Teeing) + (IF lease THEN 1 ELSE 0) ELSE 0)
      /\ refs[k] > 0
=============================================================================
