--------------------------- MODULE InsertionOrder ---------------------------
(***************************************************************************)
(* What a Mux map promises (src/ordered.rs): a sequence of entries, one    *)
(* for each key, in the order the keys were first inserted; out is the     *)
(* last call with its answer.                                              *)
(***************************************************************************)
EXTENDS Naturals, Sequences

CONSTANTS Keys, Values
VARIABLES order, out
vars == <<order, out>>

NoValue == 0
Places(k) == {n \in 1..Len(order) : order[n].k = k}
At(k) == IF Places(k) = {} THEN 0 ELSE CHOOSE n \in Places(k) : TRUE
Value(k) == IF At(k) = 0 THEN NoValue ELSE order[At(k)].v
Init == order = <<>> /\ out = <<>>

\* Assigning to a key that is there keeps its place; a new key goes to the end.
Insert(k, v) ==
  /\ out' = <<"insert", k, v, Value(k)>>
  /\ order' = IF At(k) = 0 THEN Append(order, [k |-> k, v |-> v]) ELSE [order EXCEPT ![At(k)].v = v]

\* Removing a key leaves the order of the others alone.
Without(n) == [l \in 1..(Len(order) - 1) |-> IF l < n THEN order[l] ELSE order[l + 1]]
Delete(k) ==
  /\ out' = <<"remove", k, Value(k)>>
  /\ order' = IF At(k) = 0 THEN order ELSE Without(At(k))

Get(k) == out' = <<"get", k, Value(k)>> /\ UNCHANGED order
Clear == order' = <<>> /\ out' = <<"clear">>

Next ==
  \/ \E k \in Keys : Delete(k) \/ Get(k) \/ \E v \in Values : Insert(k, v)
  \/ Clear
Spec == Init /\ [][Next]_vars
=============================================================================
