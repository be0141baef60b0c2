------------------------------- MODULE Memory -------------------------------
(***************************************************************************)
(* Reference counting (src/refcount.rs, src/closure.rs, src/object.rs, and *)
(* ObjectRef in src/lib.rs).  A closure holds capture cells, a cell holds  *)
(* a value, a value may hold an object, whose data several values share:   *)
(* each is an allocation with a count of its own.  The counts of closures, *)
(* cells and values are atomic; the count of an object's data is that of a *)
(* Rc, read and written in two steps.  Whoever takes a count to zero       *)
(* releases what the allocation holds and then frees it, step by step,     *)
(* while other threads go on.                                              *)
(***************************************************************************)
EXTENDS Naturals, Sequences, SequencesExt, FiniteSets, FiniteSetsExt

CONSTANTS
  Threads,
  Slots,      \* allocations, 1..n; none is used twice, so that stale uses show
  Types,      \* registered object types: "copy", "shared" or "output"
  MaxCalls

VARIABLES heap, owned, work, calls
vars == <<heap, owned, work, calls>>

Unused == [kind |-> "unused", count |-> 0, kids |-> <<>>, type |-> "none"]
Init ==
  /\ heap = [i \in Slots |-> Unused] /\ owned = [t \in Threads |-> [i \in Slots |-> 0]]
  /\ work = [t \in Threads |-> <<>>] /\ calls = 0

UnusedSlots == {i \in Slots : heap[i].kind = "unused"}
Fits(n) == Cardinality(UnusedSlots) >= n
New(n) == CHOOSE i \in UnusedSlots : Cardinality({j \in UnusedSlots : j < i}) = n - 1
Alloc(kind, kids, type) == [kind |-> kind, count |-> 1, kids |-> kids, type |-> type]

Busy(t) == work[t] # <<>>
Enter(t) == ~Busy(t) /\ calls < MaxCalls /\ calls' = calls + 1
Kind(i) == heap[i].kind
Owns(t, i) == owned[t][i] > 0
Own(t, i) == owned' = [owned EXCEPT ![t][i] = @ + 1]
Todo(op, i, n, for) == [op |-> op, i |-> i, n |-> n, for |-> for]
Do(t, items) == work' = [work EXCEPT ![t] = items]

\* The data of the object a value holds; 0 for a value without one.
Object(i) == IF heap[i].kids = <<>> THEN 0 ELSE heap[i].kids[1]

(***************************************************************************)
(* Values and objects.                                                     *)
(***************************************************************************)
NewValue(t) ==
  /\ Fits(1) /\ Own(t, New(1)) /\ heap' = [heap EXCEPT ![New(1)] = Alloc("value", <<>>, "none")]
  /\ UNCHANGED work
mux_rc_alloc(t) == Enter(t) /\ NewValue(t)

NewObject(t, type) ==
  /\ Fits(2) /\ Own(t, New(2))
  /\ heap' = [heap EXCEPT ![New(1)] = Alloc("object", <<>>, type), ![New(2)] = Alloc("value", <<New(1)>>, "none")]
  /\ UNCHANGED work
alloc_object(t, type) == Enter(t) /\ NewObject(t, type)

Retain(t, i, kind) ==
  /\ Enter(t) /\ Owns(t, i) /\ Kind(i) = kind
  /\ heap' = [heap EXCEPT ![i].count = @ + 1] /\ Own(t, i) /\ UNCHANGED work
mux_rc_inc(t, i) == Retain(t, i, "value")

LetGo(t, i, kind) ==
  /\ Enter(t) /\ Owns(t, i) /\ Kind(i) = kind
  /\ owned' = [owned EXCEPT ![t][i] = @ - 1] /\ Do(t, <<Todo("release", i, 0, t)>>) /\ UNCHANGED heap
mux_rc_dec(t, i) == LetGo(t, i, "value")

\* Cloning an ObjectRef counts the data up; the clone goes into a value of its own, for
\* the thread it is meant for.
CloneRef(t, i, to) ==
  /\ Fits(1) /\ Do(t, <<Todo("count", Object(i), 0, to)>>) /\ UNCHANGED <<heap, owned>>

\* A type with a copy callback gets data of its own, a shared one keeps the data.
copy_object(t, i) ==
  IF heap[Object(i)].type = "shared" THEN CloneRef(t, i, t) ELSE NewObject(t, heap[Object(i)].type)

mux_value_deep_clone(t, i) ==
  /\ Enter(t) /\ Owns(t, i) /\ Kind(i) = "value"
  /\ IF Object(i) = 0 THEN NewValue(t) ELSE copy_object(t, i)

\* Plain data is cloned for the receiver, objects are refused, except outputs.
channel_payload_is_send(i) == Object(i) # 0 => heap[Object(i)].type = "output"
channel_value(t, to, i) ==
  /\ Enter(t) /\ Owns(t, i) /\ Kind(i) = "value" /\ channel_payload_is_send(i) /\ to # t
  /\ IF Object(i) = 0 THEN NewValue(to) ELSE CloneRef(t, i, to)

(***************************************************************************)
(* Cells and closures.                                                     *)
(***************************************************************************)

\* The reference the caller owned moves into the cell.
mux_cell_alloc(t, i) ==
  /\ Enter(t) /\ Owns(t, i) /\ Kind(i) = "value" /\ Fits(1)
  /\ heap' = [heap EXCEPT ![New(1)] = Alloc("cell", <<i>>, "none")]
  /\ owned' = [owned EXCEPT ![t] = [@ EXCEPT ![i] = @ - 1, ![New(1)] = 1]] /\ UNCHANGED work

mux_cell_retain(t, i) == Retain(t, i, "cell")
mux_cell_release(t, i) == LetGo(t, i, "cell")
mux_closure_retain(t, i) == Retain(t, i, "closure")
mux_closure_release(t, i) == LetGo(t, i, "closure")

\* Generated code: a closure retains the cells of the variables it captures.
MakeClosure(t, cells) ==
  /\ Enter(t) /\ Fits(1) /\ \A c \in cells : Owns(t, c) /\ Kind(c) = "cell"
  /\ heap' = [i \in Slots |->
       CASE i = New(1) -> Alloc("closure", SetToSeq(cells), "none")
         [] i \in cells -> [heap[i] EXCEPT !.count = @ + 1]
         [] OTHER -> heap[i]]
  /\ Own(t, New(1)) /\ UNCHANGED work

RECURSIVE Reach(_)
Reach(i) == {i} \cup UNION {Reach(j) : j \in ToSet(heap[i].kids)}

\* A thread is started with a closure: its reference moves.  Objects whose data is shared
\* stay with their thread.
Spawn(t, to, i) ==
  /\ Enter(t) /\ Owns(t, i) /\ Kind(i) = "closure" /\ to # t
  /\ \A j \in Reach(i) : heap[j].type # "shared"
  /\ owned' = [owned EXCEPT ![t][i] = @ - 1, ![to][i] = @ + 1] /\ UNCHANGED <<heap, work>>

(***************************************************************************)
(* What a release does, one atomic operation at a time.                    *)
(***************************************************************************)
Releases(t, i) == [k \in 1..Len(heap[i].kids) |-> Todo("release", heap[i].kids[k], 0, t)]

Teardown_frees(t, i) ==
  [k \in 1..Len(heap[i].kids) |-> Todo(IF Kind(i) = "closure" THEN "free" ELSE "release", heap[i].kids[k], 0, t)]
    \o <<Todo("free", i, 0, t)>>

\* What an allocation holds is released, one reference each; then it is freed.
Teardown(t, i) == Releases(t, i) \o <<Todo("free", i, 0, t)>>

Release(t) ==
  LET i == work[t][1].i IN
  /\ Busy(t) /\ work[t][1].op = "release" /\ Kind(i) # "object"
  /\ heap' = [heap EXCEPT ![i].count = @ - 1]
  /\ Do(t, (IF heap[i].count = 1 THEN Teardown(t, i) ELSE <<>>) \o Tail(work[t])) /\ UNCHANGED <<owned, calls>>

\* The count of a Rc is read ...
RcRead(t) ==
  LET w == work[t][1] IN
  /\ Busy(t) /\ w.op \in {"release", "count"} /\ Kind(w.i) \in {"object", "freed"}
  /\ Do(t, <<[w EXCEPT !.op = IF @ = "count" THEN "counted" ELSE "released", !.n = heap[w.i].count]>> \o Tail(work[t]))
  /\ UNCHANGED <<heap, owned, calls>>

\* ... and written: up for a clone, which is boxed, or down for a drop.
RcClone(t) ==
  LET w == work[t][1] IN
  /\ Busy(t) /\ w.op = "counted" /\ Fits(1)
  /\ heap' = [heap EXCEPT ![w.i].count = w.n + 1, ![New(1)] = Alloc("value", <<w.i>>, "none")]
  /\ Own(w.for, New(1)) /\ Do(t, Tail(work[t])) /\ UNCHANGED calls

RcDrop(t) ==
  LET w == work[t][1] IN
  /\ Busy(t) /\ w.op = "released"
  /\ heap' = [heap EXCEPT ![w.i].count = w.n - 1]
  /\ Do(t, (IF w.n = 1 THEN <<Todo("free", w.i, 0, t)>> ELSE <<>>) \o Tail(work[t])) /\ UNCHANGED <<owned, calls>>

\* The memory is given back; for an object's data after its destructor has run.
Free(t) ==
  LET w == work[t][1] IN
  /\ Busy(t) /\ w.op = "free" /\ heap' = [heap EXCEPT ![w.i] = [Unused EXCEPT !.kind = "freed"]]
  /\ Do(t, Tail(work[t])) /\ UNCHANGED <<owned, calls>>

Next == \E t \in Threads :
  \/ mux_rc_alloc(t) \/ \E type \in Types : alloc_object(t, type)
  \/ Release(t) \/ RcRead(t) \/ RcClone(t) \/ RcDrop(t) \/ Free(t)
  \/ \E cells \in SUBSET Slots : MakeClosure(t, cells)
  \/ \E i \in Slots :
       \/ mux_rc_inc(t, i) \/ mux_rc_dec(t, i) \/ mux_value_deep_clone(t, i)
       \/ mux_cell_alloc(t, i) \/ mux_cell_retain(t, i) \/ mux_cell_release(t, i)
       \/ mux_closure_retain(t, i) \/ mux_closure_release(t, i)
       \/ \E to \in Threads : channel_value(t, to, i) \/ Spawn(t, to, i)
Spec == Init /\ [][Next]_vars

(***************************************************************************)
(* Properties                                                              *)
(***************************************************************************)
Pending(t, i) == Cardinality({k \in 1..Len(work[t]) : work[t][k].i = i /\ work[t][k].op \in {"release", "released"}})
Kids(j, i) == IF heap[j].count = 0 THEN 0 ELSE Cardinality({k \in 1..Len(heap[j].kids) : heap[j].kids[k] = i})
Refs(i) ==
  MapThenSumSet(LAMBDA t : owned[t][i] + Pending(t, i), Threads) + MapThenSumSet(LAMBDA j : Kids(j, i), Slots)

\* Nothing is freed while somebody still refers to it: a thread that owns a reference, an
\* allocation that holds one, or a release that has not happened yet.
NothingDangling == \A i \in Slots : Refs(i) > 0 => Kind(i) \in {"value", "object", "cell", "closure"}

\* Every count is the number of references there are, so that whatever a closure, its
\* cells and its values capture is released exactly once, with the last of them.
CountsExact == \A i \in Slots : Refs(i) = IF Kind(i) = "freed" THEN 0 ELSE heap[i].count
=============================================================================
