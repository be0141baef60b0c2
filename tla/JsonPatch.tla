------------------------------ MODULE JsonPatch -----------------------------
(***************************************************************************)
(* JSON Pointer, JSON Patch and JSON Merge Patch (src/json.rs).  A patch   *)
(* is applied operation by operation to a copy of the document, which      *)
(* replaces the document when the last one succeeded; a merge patch is     *)
(* applied in place, in one go.                                            *)
(*                                                                         *)
(* A JSON value is [t, n, f]: its kind, its number, and its members, a     *)
(* function from keys for an object and a sequence for an array.           *)
(***************************************************************************)
EXTENDS Naturals, Integers, Sequences, SequencesExt, FiniteSets

CONSTANTS
  Documents,   \* documents to start from
  Paths,       \* pointers: sequences of tokens, a key, an index or "-"
  Operands,    \* values operations and merge patches carry
  Kinds,       \* the operations used
  MaxOps       \* operations of one patch

VARIABLES doc, candidate, before, op, count, call, outcome
vars == <<doc, candidate, before, op, count, call, outcome>>

Json(t, n, f) == [t |-> t, n |-> n, f |-> f]
Null == Json("null", 0, <<>>)

Obj(f) == Json("obj", 0, f)

Error == Json("error", 0, <<>>)
Ok(v) == v.t # "error"

\* A token is a member's name and, when it is a canonical number, an array index too; "-"
\* appends.
Digits == <<"0", "1", "2", "3", "4">>
Key(k) == [k |-> k, i |-> -1]
Index(i) == [k |-> Digits[i + 1], i |-> i]
Dash == [k |-> "-", i |-> -1]

\* Equality of values, member by member.
RECURSIVE Same(_, _)
Same(v, w) == v.t = w.t /\ v.n = w.n /\ DOMAIN v.f = DOMAIN w.f /\ \A k \in DOMAIN v.f : Same(v.f[k], w.f[k])

With(f, k, v) == [x \in DOMAIN f \cup {k} |-> IF x = k THEN v ELSE f[x]]
Without(f, k) == [x \in DOMAIN f \ {k} |-> f[x]]
Put(v, k, child) == IF Ok(child) THEN [v EXCEPT !.f = With(v.f, k, child)] ELSE Error

\* The member a token selects, for both kinds of container: 0 when there is none.
pointer_index(v, token) == token.i \in 0..(Len(v.f) - 1)
Selects(v, token) ==
  \/ v.t = "obj" /\ token.k \in DOMAIN v.f
  \/ v.t = "arr" /\ pointer_index(v, token)
Child(v, token) == IF v.t = "obj" THEN token.k ELSE token.i + 1

RECURSIVE pointer_get(_, _)
pointer_get(v, path) ==
  IF path = <<>> THEN v
  ELSE IF Selects(v, Head(path)) THEN pointer_get(v.f[Child(v, Head(path))], Tail(path)) ELSE Error

\* The last token writes a member, replaces an element or, with "-", appends.
RECURSIVE pointer_set(_, _, _)
pointer_set(v, path, new) ==
  IF path = <<>> THEN new
  ELSE LET token == Head(path) IN
  CASE Len(path) = 1 /\ v.t = "obj" -> Put(v, token.k, new)
    [] Len(path) = 1 /\ v.t = "arr" /\ token = Dash -> [v EXCEPT !.f = Append(@, new)]
    [] Selects(v, token) -> Put(v, Child(v, token), pointer_set(v.f[Child(v, token)], Tail(path), new))
    [] OTHER -> Error

Inserted_replaces(v, i, new) == [v EXCEPT !.f = IF i < Len(@) THEN [@ EXCEPT ![i + 1] = new] ELSE Append(@, new)]

\* An element is inserted: the ones behind it move up.
Inserted(v, i, new) == [v EXCEPT !.f = InsertAt(@, i + 1, new)]

RECURSIVE pointer_add(_, _, _)
pointer_add(v, path, new) ==
  IF path = <<>> THEN new
  ELSE LET token == Head(path) IN
  CASE Len(path) = 1 /\ v.t = "obj" -> Put(v, token.k, new)
    [] Len(path) = 1 /\ v.t = "arr" /\ token = Dash -> [v EXCEPT !.f = Append(@, new)]
    [] Len(path) = 1 /\ v.t = "arr" /\ token.i \in 0..Len(v.f) -> Inserted(v, token.i, new)
    [] Len(path) > 1 /\ Selects(v, token) ->
         Put(v, Child(v, token), pointer_add(v.f[Child(v, token)], Tail(path), new))
    [] OTHER -> Error

RECURSIVE pointer_remove(_, _)
pointer_remove(v, path) ==
  IF path = <<>> \/ ~Selects(v, Head(path)) THEN Error
  ELSE LET c == Child(v, Head(path)) IN
  CASE Len(path) > 1 -> Put(v, c, pointer_remove(v.f[c], Tail(path)))
    [] v.t = "obj" -> [v EXCEPT !.f = Without(@, c)]
    [] OTHER -> [v EXCEPT !.f = RemoveAt(@, c)]

If(cond, v) == IF Ok(cond) THEN v ELSE Error
ProperPrefix(p, q) == Len(p) < Len(q) /\ IsPrefix(p, q)

apply_json_patch_operation(v, o) ==
  CASE o.op = "add" -> pointer_add(v, o.path, o.value)
    [] o.op = "remove" -> pointer_remove(v, o.path)
    [] o.op = "replace" -> If(pointer_get(v, o.path), pointer_set(v, o.path, o.value))
    [] o.op = "copy" -> If(pointer_get(v, o.from), pointer_add(v, o.path, pointer_get(v, o.from)))
    [] o.op = "move" ->
         IF ProperPrefix(o.from, o.path) THEN Error
         ELSE If(pointer_remove(v, o.from), pointer_add(pointer_remove(v, o.from), o.path, pointer_get(v, o.from)))
    [] OTHER -> IF Same(pointer_get(v, o.path), o.value) THEN v ELSE Error

\* An object merges member by member: null removes, a member that is there merges, and
\* one that is not is inserted as it stands.
RECURSIVE apply_merge_patch(_, _)
apply_merge_patch(v, patch) ==
  IF patch.t # "obj" THEN patch
  ELSE LET target == IF v.t = "obj" THEN v ELSE Obj(<<>>)
           gone == {k \in DOMAIN patch.f : patch.f[k].t = "null"} IN
       Obj([k \in (DOMAIN target.f \cup DOMAIN patch.f) \ gone |->
         CASE k \notin DOMAIN patch.f -> target.f[k]
           [] k \in DOMAIN target.f /\ k \in DOMAIN patch.f -> apply_merge_patch(target.f[k], patch.f[k])
           [] OTHER -> patch.f[k]])

(***************************************************************************)
(* The calls.                                                              *)
(***************************************************************************)
\* before is the value the last operation, op, was applied to.
NoOp == [op |-> "none", path |-> <<>>, from |-> <<>>, value |-> Null]
Init ==
  /\ doc \in Documents /\ candidate = doc /\ before = doc /\ op = NoOp /\ count = 0
  /\ call = "none" /\ outcome = "none"

\* The operations an application may put into a patch.
Operations ==
  UNION {[op : {k}, path : Paths, from : IF k \in {"copy", "move"} THEN Paths ELSE {<<>>},
          value : IF k \in {"add", "replace", "test"} THEN Operands ELSE {Null}] : k \in Kinds}

mux_json_apply_patch ==
  /\ call = "none" /\ call' = "patch" /\ candidate' = doc /\ UNCHANGED <<doc, before, op, count, outcome>>

ApplyOperation_inPlace(o) ==
  LET result == apply_json_patch_operation(candidate, o) IN
  /\ op' = o /\ before' = candidate /\ count' = count + 1
  /\ IF Ok(result) THEN candidate' = result /\ doc' = result /\ UNCHANGED <<call, outcome>>
     ELSE call' = "done" /\ outcome' = "error" /\ UNCHANGED <<doc, candidate>>

\* One operation on the copy; an error leaves the document alone.
ApplyOperation(o) ==
  LET result == apply_json_patch_operation(candidate, o) IN
  /\ op' = o /\ before' = candidate /\ count' = count + 1
  /\ IF Ok(result) THEN candidate' = result /\ UNCHANGED <<doc, call, outcome>>
     ELSE call' = "done" /\ outcome' = "error" /\ UNCHANGED <<doc, candidate>>

NextOperation == call = "patch" /\ count < MaxOps /\ \E o \in Operations : ApplyOperation(o)

PatchEnds ==
  /\ call = "patch" /\ doc' = candidate /\ call' = "done" /\ outcome' = "ok"
  /\ UNCHANGED <<candidate, before, op, count>>

Call(kind, path, value, result) ==
  /\ call = "none" /\ call' = "done" /\ outcome' = IF Ok(result) THEN "ok" ELSE "error"
  /\ doc' = IF Ok(result) THEN result ELSE doc
  /\ before' = doc /\ op' = [NoOp EXCEPT !.op = kind, !.path = path, !.value = value]
  /\ UNCHANGED <<candidate, count>>

mux_json_merge_patch == \E v \in Operands : Call("merge", <<>>, v, apply_merge_patch(doc, v))
mux_json_set_pointer == \E p \in Paths, v \in Operands : Call("set", p, v, pointer_set(doc, p, v))
mux_json_remove_pointer == \E p \in Paths : Call("remove", p, Null, pointer_remove(doc, p))

Next == mux_json_apply_patch \/ NextOperation \/ PatchEnds \/ mux_json_merge_patch
        \/ mux_json_set_pointer \/ mux_json_remove_pointer
Spec == Init /\ [][Next]_vars

(***************************************************************************)
(* Properties                                                              *)
(***************************************************************************)

\* A patch is applied as a whole or not at all: while it runs, and when one of its
\* operations failed, the document is what it was, whatever the operations before did.
PatchAtomic == outcome = "error" \/ call = "patch" => \E d \in Documents : Same(d, doc)

\* The reference: a document as the set of its nodes, each with the path that leads to it.
RECURSIVE Nodes(_)
Nodes(v) ==
  {<< <<>>, v.t, v.n >>} \cup UNION {
    LET token == IF v.t = "arr" THEN Index(c - 1)
                 ELSE IF Contains(Digits, c) THEN Index(CHOOSE i \in 0..4 : Digits[i + 1] = c) ELSE Key(c) IN
    {<< <<token>> \o node[1], node[2], node[3] >> : node \in Nodes(v.f[c])} : c \in DOMAIN v.f}

InArray(N, p) == p # <<>> /\ \E node \in N : node[1] = Front(p) /\ node[2] = "arr"
Shift(N, p, by) ==
  {IF InArray(N, p) /\ Len(node[1]) >= Len(p) /\ IsPrefix(Front(p), node[1]) /\ node[1][Len(p)].i >= Last(p).i
   THEN <<[node[1] EXCEPT ![Len(p)] = Index(@.i + by)], node[2], node[3]>> ELSE node : node \in N}
Under(N, p) == {node \in N : IsPrefix(p, node[1])}
At(N, p) == {<<SubSeq(node[1], Len(p) + 1, Len(node[1])), node[2], node[3]>> : node \in Under(N, p)}
Graft(S, p) == {<<p \o node[1], node[2], node[3]>> : node \in S}

\* "-" is the index behind the last element.
Resolved(N, p) ==
  IF InArray(N, p) /\ Last(p) = Dash
  THEN Append(Front(p), Index(Cardinality({node \in N : Len(node[1]) = Len(p) /\ IsPrefix(Front(p), node[1])})))
  ELSE p
Added(N, path, S) ==
  LET p == Resolved(N, path) IN
  Graft(S, p) \cup IF InArray(N, p) THEN Shift(N, p, 1) ELSE N \ Under(N, p)
Removed(N, p) == Shift(N \ Under(N, p), p, -1)

\* Every operation of a patch does to the document what it names and nothing else: adding
\* to an array moves the elements behind, removing closes the gap, copying and moving
\* carry the whole value, and a test changes nothing.
OperationsRight ==
  call = "patch" /\ op.op # "none" =>
    LET N == Nodes(before)  V == Nodes(op.value) IN
    Nodes(candidate) =
      CASE op.op = "add" -> Added(N, op.path, V)
        [] op.op = "remove" -> Removed(N, op.path)
        [] op.op = "replace" -> Graft(V, op.path) \cup (N \ Under(N, op.path))
        [] op.op = "copy" -> Added(N, op.path, At(N, op.from))
        [] op.op = "move" -> Added(Removed(N, op.from), op.path, At(N, op.from))
        [] OTHER -> N
=============================================================================
