----------------------------- MODULE OrderedMap -----------------------------
(***************************************************************************)
(* The map behind Mux maps and sets (src/ordered.rs): entries in a slab,   *)
(* chained in insertion order by the indices of their neighbours, holes    *)
(* chained in a free list, and a hash table of indices.  Nil is index 0.   *)
(***************************************************************************)
EXTENDS Naturals, Sequences, FiniteSets

CONSTANTS
  Keys, Values,  \* Values: positive numbers, so that 0 can say that there is none
  Hash           \* a hash for every key; keys may collide

VARIABLES slab, size, table, head, tail, free_head, len,
          out            \* the last call with its answer
mapVars == <<slab, size, table, head, tail, free_head, len, out>>

Nil == 0
Slot == [live : BOOLEAN, key : Keys, value : Values \cup {Nil}, prev : Nat, next : Nat, next_free : Nat]
Occupied(k, v, prev, next) == [live |-> TRUE, key |-> k, value |-> v, prev |-> prev, next |-> next, next_free |-> Nil]
Free(slot, next_free) ==
  [live |-> FALSE, key |-> slot.key, value |-> Nil, prev |-> Nil, next |-> Nil, next_free |-> next_free]

MapInit ==
  /\ slab = [i \in 1..0 |-> Nil] /\ size = 0 /\ table = {} /\ head = Nil /\ tail = Nil
  /\ free_head = Nil /\ len = 0 /\ out = <<>>

Live(i) == i \in 1..size /\ slab[i].live
Hole(i) == i \in 1..size /\ ~slab[i].live

Found_anyKey(k) == {i \in 1..size : [hash |-> Hash[k], i |-> i] \in table /\ slab[i].live}

\* The slots the table finds under a key's hash and that hold that key.
Found(k) == {i \in 1..size : [hash |-> Hash[k], i |-> i] \in table /\ slab[i].live /\ slab[i].key = k}
index_of(k) == IF Found(k) = {} THEN Nil ELSE CHOOSE i \in Found(k) : TRUE

get(k) ==
  /\ out' = <<"get", k, IF index_of(k) = Nil THEN Nil ELSE slab[index_of(k)].value>>
  /\ UNCHANGED <<slab, size, table, head, tail, free_head, len>>

\* A hole is taken from the free list; if it names none the slab grows.
alloc_slot == IF Hole(free_head) THEN free_head ELSE size + 1

\* An assignment to a key that is there.
Replace(k, v) ==
  /\ index_of(k) # Nil
  /\ out' = <<"insert", k, v, slab[index_of(k)].value>>
  /\ slab' = [slab EXCEPT ![index_of(k)].value = v]
  /\ UNCHANGED <<size, table, head, tail, free_head, len>>

\* The slots once a new entry is stored at index, behind the last one.
Linked(index, k, v, i) ==
  IF i = index THEN Occupied(k, v, tail, Nil)
  ELSE IF i = tail THEN [slab[i] EXCEPT !.next = index]
  ELSE slab[i]

Add(k, v) ==
  LET index == alloc_slot IN
  /\ index_of(k) = Nil
  /\ size' = IF index > size THEN index ELSE size
  /\ slab' = [i \in 1..size' |-> Linked(index, k, v, i)]
  /\ free_head' = IF Hole(free_head) THEN slab[free_head].next_free ELSE Nil
  /\ head' = IF tail = Nil THEN index ELSE head
  /\ tail' = index /\ table' = table \cup {[hash |-> Hash[k], i |-> index]}
  /\ len' = len + 1 /\ out' = <<"insert", k, v, Nil>>

insert(k, v) == Replace(k, v) \/ Add(k, v)

Unlinked_forward(at, i) ==
  IF i = at THEN Free(slab[i], free_head)
  ELSE [slab[i] EXCEPT !.next = IF i = slab[at].prev THEN slab[at].next ELSE @]

\* The slots once the entry at an index is gone: its neighbours are linked to each other.
Unlinked(at, i) ==
  IF i = at THEN Free(slab[i], free_head)
  ELSE [slab[i] EXCEPT !.next = IF i = slab[at].prev THEN slab[at].next ELSE @,
                       !.prev = IF i = slab[at].next THEN slab[at].prev ELSE @]

Missing(k) ==
  /\ index_of(k) = Nil /\ out' = <<"remove", k, Nil>>
  /\ UNCHANGED <<slab, size, table, head, tail, free_head, len>>

Take(k) ==
  LET at == index_of(k) IN
  /\ at # Nil
  /\ out' = <<"remove", k, slab[at].value>> /\ table' = {e \in table : e.i # at}
  /\ slab' = [i \in 1..size |-> Unlinked(at, i)]
  /\ free_head' = at /\ len' = len - 1
  /\ head' = IF slab[at].prev = Nil THEN slab[at].next ELSE head
  /\ tail' = IF slab[at].next = Nil THEN slab[at].prev ELSE tail
  /\ UNCHANGED size

remove(k) == Missing(k) \/ Take(k)

clear ==
  /\ slab' = [i \in 1..0 |-> Nil] /\ size' = 0 /\ table' = {} /\ head' = Nil /\ tail' = Nil
  /\ free_head' = Nil /\ len' = 0 /\ out' = <<"clear">>

\* The slots an iterator visits: it follows the links from the head until one is not live.
Visited ==
  LET at[n \in 1..(size + 1)] ==
        IF n = 1 THEN head ELSE IF Live(at[n - 1]) THEN slab[at[n - 1]].next ELSE Nil
  IN  at
iter ==
  LET at == Visited IN
  [n \in 1..Cardinality({n \in DOMAIN at : Live(at[n])}) |->
     [k |-> slab[at[n]].key, v |-> slab[at[n]].value]]

MapNext ==
  \/ \E k \in Keys : get(k) \/ remove(k) \/ \E v \in Values : insert(k, v)
  \/ clear
MapSpec == MapInit /\ [][MapNext]_mapVars

(***************************************************************************)
(* Properties                                                              *)
(***************************************************************************)

\* The types of the variables.
MapTypeOK ==
  /\ size \in Nat /\ slab \in [1..size -> Slot]
  /\ head \in Nat /\ tail \in Nat /\ free_head \in Nat

\* Every index the map stores is good: the table and the order links name live slots, the
\* free list names holes.  The code answers "absent" and asserts in debug builds where
\* one is not.  And len counts the entries that an iterator visits.
IndicesLive ==
  /\ len = Len(iter)
  /\ \A e \in table : Live(e.i)
  /\ head # Nil => Live(head)
  /\ tail # Nil => Live(tail)
  /\ free_head # Nil => Hole(free_head)
  /\ \A i \in 1..size :
       IF slab[i].live
       THEN /\ slab[i].prev # Nil => Live(slab[i].prev)
            /\ slab[i].next # Nil => Live(slab[i].next)
       ELSE slab[i].next_free # Nil => Hole(slab[i].next_free)

\* An ordered map is the sequence of its entries in insertion order, as an iterator visits
\* them: every call of get, insert, remove and clear answers and changes what it promises.
Order == INSTANCE InsertionOrder WITH order <- iter
ImplementsOrder == Order!Spec
=============================================================================
