----------------------------- MODULE SyncProofs -----------------------------
(***************************************************************************)
(* What threads of a program share is sound for any number of threads,     *)
(* handles, keys and values: the indices of the ordered map, then semaphores, *)
(* once cells, barriers, cancellation tokens and native locks.             *)
(***************************************************************************)
EXTENDS OrderedMap, Gates, NativeLocks, FiniteSetTheorems, WellFoundedInduction, TLAPS

(***************************************************************************)
(* Every index is good for any keys, values and hashes.  That the links    *)
(* name live slots is not inductive by itself: removing an entry must not  *)
(* leave a neighbour pointing at it, so neighbours have to point at each   *)
(* other, and taking a hole must not leave it on the free list, so no hole *)
(* may be listed twice.                                                    *)
(***************************************************************************)

\* The first entry has none before it, the last none behind it.
Ends ==
  /\ head = Nil <=> tail = Nil
  /\ head # Nil => Live(head) /\ slab[head].prev = Nil
  /\ tail # Nil => Live(tail) /\ slab[tail].next = Nil

\* Neighbours point at each other.
Before == \A i \in 1..size : slab[i].live =>
  IF slab[i].prev = Nil THEN i = head ELSE Live(slab[i].prev) /\ slab[slab[i].prev].next = i
Behind == \A i \in 1..size : slab[i].live =>
  IF slab[i].next = Nil THEN i = tail ELSE Live(slab[i].next) /\ slab[slab[i].next].prev = i

Table == \A e \in table : Live(e.i)

\* The free list names holes, each of them once.
Holes ==
  /\ free_head # Nil => Hole(free_head)
  /\ \A i \in 1..size : ~slab[i].live /\ slab[i].next_free # Nil =>
       Hole(slab[i].next_free) /\ slab[i].next_free # free_head
  /\ \A i, j \in 1..size :
       ~slab[i].live /\ ~slab[j].live /\ slab[i].next_free # Nil /\ slab[i].next_free = slab[j].next_free => i = j

MapInv == MapTypeOK /\ Ends /\ Before /\ Behind /\ Table /\ Holes

\* A lookup that finds a key finds a live slot.
LEMMA Lookup ==
  ASSUME NEW k, index_of(k) # Nil
  PROVE  Live(index_of(k)) /\ index_of(k) \in 1..size
<1>1. Found(k) # {}
  BY Zenon DEF index_of
<1>2. index_of(k) \in Found(k)
  BY <1>1, Zenon DEF index_of
<1> QED
  BY <1>2, Zenon DEF Found, Live

\* Before any operation nothing is stored.
LEMMA InitHolds == MapInit => MapInv
<1> SUFFICES ASSUME MapInit PROVE MapInv
  BY Zenon
<1>1. size = 0 /\ 1..size = {}
  BY DEF MapInit
<1>2. slab \in [1..size -> Slot]
  BY <1>1, Zenon DEF MapInit
<1> QED
  BY <1>1, <1>2 DEF MapInit, MapInv, MapTypeOK, Ends, Before, Behind, Table, Holes, Live, Hole, Nil

\* Assigning to a key that is there changes no index.
LEMMA ReplaceKeeps ==
  ASSUME MapInv, NEW k \in Keys, NEW v \in Values, Replace(k, v)
  PROVE  MapInv'
<1> DEFINE at == index_of(k)
<1>1. at \in 1..size /\ slab[at].live
  BY Lookup, Zenon DEF Replace, Live
<1>2. /\ slab' = [slab EXCEPT ![at].value = v]
      /\ size' = size /\ table' = table /\ head' = head /\ tail' = tail /\ free_head' = free_head
  BY Zenon DEF Replace
<1> HIDE DEF at
<1>3. MapTypeOK'
  BY <1>1, <1>2, ZenonT(30) DEF MapInv, MapTypeOK, Slot
<1>4. \A i \in 1..size : /\ slab'[i].live = slab[i].live /\ slab'[i].prev = slab[i].prev
                         /\ slab'[i].next = slab[i].next /\ slab'[i].next_free = slab[i].next_free
  BY <1>1, <1>2, Zenon DEF MapInv, MapTypeOK, Slot
<1>5. (Ends /\ Before /\ Behind /\ Table /\ Holes)'
  BY <1>2, <1>4, SMTT(30) DEF MapInv, MapTypeOK, Ends, Before, Behind, Table, Holes, Live, Hole, Nil
<1> QED
  BY <1>3, <1>5, Zenon DEF MapInv

\* What a new entry leaves of the slots, and where it goes.
LEMMA AddSlots ==
  ASSUME MapInv, NEW k \in Keys, NEW v \in Values, Add(k, v), NEW index, index = alloc_slot
  PROVE  /\ index \in 1..size' /\ ~Live(index) /\ size' \in Nat /\ size <= size' /\ tail # index
         /\ \A i \in 1..size' : i \in 1..size \/ i = index
         /\ slab'[index] = Occupied(k, v, tail, Nil)
         /\ \A i \in 1..size : i # index /\ i # tail => slab'[i] = slab[i]
         /\ tail # Nil => tail \in 1..size /\ slab'[tail] = [slab[tail] EXCEPT !.next = index]
         /\ slab' \in [1..size' -> Slot]
<1>1. /\ index \in Nat \ {0} /\ ~Live(index) /\ (index \in 1..size \/ index = size + 1)
  BY DEF alloc_slot, MapInv, MapTypeOK, Holes, Hole, Live, Nil
<1>2. tail # index
  BY <1>1, Zenon DEF MapInv, Ends, Nil
<1>3. /\ size' = (IF index > size THEN index ELSE size)
      /\ slab' = [i \in 1..size' |-> Linked(index, k, v, i)]
  BY Zenon DEF Add
<1>4. /\ size' \in Nat /\ size <= size' /\ index \in 1..size' /\ \A i \in 1..size' : i \in 1..size \/ i = index
  BY <1>1, <1>3 DEF MapInv, MapTypeOK
<1>5. slab'[index] = Occupied(k, v, tail, Nil)
  BY <1>3, <1>4, Zenon DEF Linked
<1>6. \A i \in 1..size : i # index /\ i # tail => slab'[i] = slab[i]
  BY <1>3, <1>4 DEF Linked, MapInv, MapTypeOK
<1>7. tail # Nil => tail \in 1..size /\ slab'[tail] = [slab[tail] EXCEPT !.next = index]
  BY <1>2, <1>3, <1>4 DEF Linked, MapInv, MapTypeOK, Ends, Live
<1>8. \A i \in 1..size' : slab'[i] \in Slot
  <2> SUFFICES ASSUME NEW i \in 1..size' PROVE slab'[i] \in Slot
    BY Zenon
  <2>1. CASE i = index
    BY <2>1, <1>5 DEF Occupied, Slot, MapInv, MapTypeOK, Nil
  <2>2. CASE i # index /\ i # tail
    BY <2>2, <1>4, <1>6, Zenon DEF MapInv, MapTypeOK
  <2>3. CASE i = tail
    <3>1. tail \in 1..size /\ tail # Nil /\ index \in Nat
      BY <2>3, <1>1, <1>2, <1>4 DEF Nil
    <3>2. slab[tail] \in Slot
      BY <3>1, Zenon DEF MapInv, MapTypeOK
    <3> QED
      BY <2>3, <3>1, <3>2, <1>7, Zenon DEF Slot
  <2> QED
    BY <2>1, <2>2, <2>3, Zenon
<1> QED
  BY <1>1, <1>2, <1>3, <1>4, <1>5, <1>6, <1>7, <1>8, Zenon

\* A new entry goes behind the last one.
LEMMA AddKeeps ==
  ASSUME MapInv, NEW k \in Keys, NEW v \in Values, Add(k, v)
  PROVE  MapInv'
<1> DEFINE index == alloc_slot
<1>1. /\ index \in 1..size' /\ ~Live(index) /\ size' \in Nat /\ size <= size' /\ tail # index
      /\ \A i \in 1..size' : i \in 1..size \/ i = index
      /\ slab'[index] = Occupied(k, v, tail, Nil)
      /\ \A i \in 1..size : i # index /\ i # tail => slab'[i] = slab[i]
      /\ tail # Nil => tail \in 1..size /\ slab'[tail] = [slab[tail] EXCEPT !.next = index]
      /\ slab' \in [1..size' -> Slot]
  BY AddSlots, Zenon
<1>2. /\ free_head' = (IF free_head = Nil THEN Nil ELSE slab[free_head].next_free)
      /\ head' = (IF tail = Nil THEN index ELSE head) /\ tail' = index
      /\ table' = table \cup {[hash |-> Hash[k], i |-> index]}
  <2>1. Hole(free_head) <=> free_head # Nil
    BY DEF MapInv, Holes, Hole, Nil
  <2> QED
    BY <2>1, Zenon DEF Add
<1>0. free_head # Nil => index = free_head
  BY Zenon DEF alloc_slot, MapInv, Holes
<1> HIDE DEF index
<1>3. MapTypeOK'
  <2>1. index \in Nat /\ head \in Nat
    BY <1>1 DEF MapInv, MapTypeOK
  <2>2. free_head' \in Nat
    <3>1. free_head # Nil => slab[free_head] \in Slot
      BY Zenon DEF MapInv, MapTypeOK, Holes, Hole
    <3> QED
      BY <3>1, <1>2, Zenon DEF Slot, Nil
  <2> QED
    BY <2>1, <2>2, <1>1, <1>2, Zenon DEF MapTypeOK
<1>4. /\ slab'[index].live /\ slab'[index].prev = tail /\ slab'[index].next = Nil /\ slab'[index].next_free = Nil
  BY <1>1 DEF Occupied
<1>5. \A i \in 1..size : i # index =>
        /\ slab'[i].live = slab[i].live /\ slab'[i].prev = slab[i].prev /\ slab'[i].next_free = slab[i].next_free
        /\ slab'[i].next = IF i = tail THEN index ELSE slab[i].next
  <2> SUFFICES ASSUME NEW i \in 1..size, i # index
               PROVE  /\ slab'[i].live = slab[i].live /\ slab'[i].prev = slab[i].prev
                      /\ slab'[i].next_free = slab[i].next_free
                      /\ slab'[i].next = IF i = tail THEN index ELSE slab[i].next
    BY Zenon
  <2>1. CASE i = tail
    <3>1. i # Nil /\ slab[i] \in Slot
      BY DEF MapInv, MapTypeOK, Nil
    <3> QED
      BY <2>1, <3>1, <1>1, Zenon DEF Slot
  <2>2. CASE i # tail
    BY <2>2, <1>1, Zenon
  <2> QED
    BY <2>1, <2>2, Zenon
<1>6. \A i : Live(i) => i # index /\ i \in 1..size /\ i \in 1..size' /\ slab'[i].live
  BY <1>1, <1>5 DEF Live, MapInv, MapTypeOK
<1>7. Ends'
  BY <1>1, <1>2, <1>4, <1>5, <1>6 DEF MapInv, MapTypeOK, Ends, Live, Nil
<1>8. Before'
  <2> SUFFICES ASSUME NEW i \in 1..size', slab'[i].live
               PROVE  IF slab'[i].prev = Nil THEN i = head'
                      ELSE /\ slab'[i].prev \in 1..size' /\ slab'[slab'[i].prev].live
                           /\ slab'[slab'[i].prev].next = i
    BY Zenon DEF Before, Live, Nil
  <2>0. tail # Nil => Live(tail) /\ tail \in 1..size /\ slab'[tail].next = index
    BY <1>1, <1>5, Zenon DEF MapInv, Ends
  <2>1. CASE i = index
    BY <2>0, <2>1, <1>2, <1>4, <1>6, Zenon
  <2>2. CASE i # index
    <3>1. i \in 1..size /\ slab[i].live /\ slab'[i].prev = slab[i].prev
      BY <2>2, <1>1, <1>5, Zenon
    <3>2. CASE slab[i].prev = Nil
      BY <3>1, <3>2, <1>2, <1>6 DEF MapInv, Ends, Before, Live, Nil
    <3>3. CASE slab[i].prev # Nil
      <4>1. Live(slab[i].prev) /\ slab[slab[i].prev].next = i
        BY <3>1, <3>3, Zenon DEF MapInv, Before
      <4>2. i # Nil
        BY <3>1 DEF MapInv, MapTypeOK, Nil
      <4>3. slab[i].prev # tail
        BY <4>1, <4>2, <3>1 DEF MapInv, Ends, Live, Nil
      <4> QED
        BY <3>1, <3>3, <4>1, <4>3, <1>5, <1>6
    <3> QED
      BY <3>2, <3>3, Zenon
  <2> QED
    BY <2>1, <2>2, Zenon
<1>9. Behind'
  <2> SUFFICES ASSUME NEW i \in 1..size', slab'[i].live
               PROVE  IF slab'[i].next = Nil THEN i = tail'
                      ELSE /\ slab'[i].next \in 1..size' /\ slab'[slab'[i].next].live
                           /\ slab'[slab'[i].next].prev = i
    BY Zenon DEF Behind, Live, Nil
  <2>1. CASE i = index
    BY <2>1, <1>2, <1>4, Zenon
  <2>2. CASE i = tail
    BY <2>2, <1>1, <1>2, <1>4, <1>5 DEF Nil
  <2>3. CASE i # index /\ i # tail
    <3>1. i \in 1..size /\ slab[i].live /\ slab'[i].next = slab[i].next
      BY <2>3, <1>1, <1>5, Zenon
    <3>2. slab[i].next # Nil /\ Live(slab[i].next) /\ slab[slab[i].next].prev = i
      BY <2>3, <3>1, Zenon DEF MapInv, Behind
    <3>3. slab[i].next \in 1..size' /\ slab'[slab[i].next].live /\ slab'[slab[i].next].prev = i
      BY <3>2, <1>5, <1>6, Zenon
    <3> QED
      BY <3>1, <3>2, <3>3, Zenon
  <2> QED
    BY <2>1, <2>2, <2>3, Zenon
<1>10. Table'
  BY <1>1, <1>2, <1>4, <1>6 DEF MapInv, Table, Live
<1>11. Holes'
  <2>1. \A i \in 1..size' : ~slab'[i].live =>
          i \in 1..size /\ i # index /\ ~slab[i].live /\ slab'[i].next_free = slab[i].next_free
    BY <1>1, <1>4, <1>5, Zenon
  <2>2. \A i : Hole(i) /\ i # index => i \in 1..size' /\ ~slab'[i].live
    BY <1>1, <1>5 DEF Hole, MapInv, MapTypeOK
  <2>3. free_head # Nil => Hole(free_head) /\ free_head = index
    BY <1>0, Zenon DEF MapInv, Holes
  <2>4. free_head' # Nil => free_head' \in 1..size' /\ ~slab'[free_head'].live
    BY <1>2, <2>2, <2>3, Zenon DEF MapInv, Holes, Hole, Nil
  <2>5. \A i \in 1..size' : ~slab'[i].live /\ slab'[i].next_free # Nil =>
          /\ slab'[i].next_free \in 1..size' /\ ~slab'[slab'[i].next_free].live
          /\ slab'[i].next_free # free_head'
    <3> SUFFICES ASSUME NEW i \in 1..size', ~slab'[i].live, slab'[i].next_free # Nil
                 PROVE  /\ slab'[i].next_free \in 1..size' /\ ~slab'[slab'[i].next_free].live
                        /\ slab'[i].next_free # free_head'
      BY Zenon
    <3>1. /\ i \in 1..size /\ i # index /\ ~slab[i].live /\ slab'[i].next_free = slab[i].next_free
      BY <2>1, Zenon
    <3>2. Hole(slab[i].next_free) /\ slab[i].next_free # free_head
      BY <3>1, Zenon DEF MapInv, Holes
    <3>3. slab[i].next_free # index
      BY <3>2, <2>3, <1>1 DEF Hole, alloc_slot, index, MapInv, MapTypeOK, Nil
    <3>4. slab[i].next_free # free_head'
      BY <3>1, <1>2, <2>3, Zenon DEF MapInv, Holes, Hole
    <3> QED
      BY <3>1, <3>2, <3>3, <3>4, <2>2, Zenon
  <2>6. \A i, j \in 1..size' : (/\ ~slab'[i].live /\ ~slab'[j].live /\ slab'[i].next_free # Nil
                                /\ slab'[i].next_free = slab'[j].next_free) => i = j
    BY <2>1, Zenon DEF MapInv, Holes
  <2> QED
    BY <2>4, <2>5, <2>6, Zenon DEF Holes, Hole, Nil
<1> QED
  BY <1>3, <1>7, <1>8, <1>9, <1>10, <1>11, Zenon DEF MapInv

\* The neighbours of an entry that goes are linked to each other.
LEMMA TakeKeeps ==
  ASSUME MapInv, NEW k \in Keys, Take(k)
  PROVE  MapInv'
<1> DEFINE at == index_of(k)
<1>1. at \in 1..size /\ slab[at].live
  BY Lookup, Zenon DEF Take, Live
<1>2. /\ slab' = [i \in 1..size |-> Unlinked(at, i)] /\ size' = size
      /\ table' = {e \in table : e.i # at} /\ free_head' = at
      /\ head' = (IF slab[at].prev = Nil THEN slab[at].next ELSE head)
      /\ tail' = (IF slab[at].next = Nil THEN slab[at].prev ELSE tail)
  BY Zenon DEF Take
<1> HIDE DEF at
<1>3. /\ ~slab'[at].live /\ slab'[at].next_free = free_head /\ slab'[at] \in Slot
  BY <1>1, <1>2, Zenon DEF Unlinked, Free, MapInv, MapTypeOK, Slot, Nil
<1>4. \A i \in 1..size : i # at =>
        /\ slab'[i].live = slab[i].live /\ slab'[i].next_free = slab[i].next_free
        /\ slab'[i].next = IF i = slab[at].prev THEN slab[at].next ELSE slab[i].next
        /\ slab'[i].prev = IF i = slab[at].next THEN slab[at].prev ELSE slab[i].prev
        /\ slab'[i] \in Slot
  BY <1>1, <1>2, ZenonT(30) DEF Unlinked, MapInv, MapTypeOK, Slot
<1>5. MapTypeOK'
  BY <1>1, <1>2, <1>3, <1>4 DEF MapInv, MapTypeOK, Slot
<1> DEFINE p == slab[at].prev
           n == slab[at].next
<1>11. IF p = Nil THEN at = head ELSE p \in 1..size /\ slab[p].live /\ slab[p].next = at
  BY <1>1, Zenon DEF MapInv, Before, Live
<1>12. IF n = Nil THEN at = tail ELSE n \in 1..size /\ slab[n].live /\ slab[n].prev = at
  BY <1>1, Zenon DEF MapInv, Behind, Live
<1>13. \A i \in 1..size : slab[i].live =>
        IF slab[i].prev = Nil THEN i = head ELSE slab[i].prev \in 1..size /\ slab[slab[i].prev].live /\ slab[slab[i].prev].next = i
  BY Zenon DEF MapInv, Before, Live
<1>14. \A i \in 1..size : slab[i].live =>
        IF slab[i].next = Nil THEN i = tail ELSE slab[i].next \in 1..size /\ slab[slab[i].next].live /\ slab[slab[i].next].prev = i
  BY Zenon DEF MapInv, Behind, Live
<1>15. /\ (head = Nil) <=> (tail = Nil)
       /\ head # Nil => head \in 1..size /\ slab[head].live /\ slab[head].prev = Nil
       /\ tail # Nil => tail \in 1..size /\ slab[tail].live /\ slab[tail].next = Nil
  BY Zenon DEF MapInv, Ends, Live
<1>16. \A i \in 1..size : i # Nil /\ i \in Nat
  BY DEF MapInv, MapTypeOK, Nil
<1>17. \A i \in 1..size : i # at =>
        /\ slab'[i].live = slab[i].live
        /\ slab'[i].next = IF i = p THEN n ELSE slab[i].next
        /\ slab'[i].prev = IF i = n THEN p ELSE slab[i].prev
  BY <1>4, Zenon
<1>18. /\ size' = size /\ head' = (IF p = Nil THEN n ELSE head) /\ tail' = (IF n = Nil THEN p ELSE tail)
  BY <1>2, Zenon
<1>19. slab[at].prev = p /\ slab[at].next = n
  BY Zenon
<1> HIDE DEF p, n
<1>6. Ends'
  <2>1. (head' = Nil) <=> (tail' = Nil)
    BY <1>1, <1>18, <1>11, <1>12, <1>15, <1>16, Zenon
  <2>2. head' # Nil => head' \in 1..size /\ slab'[head'].live /\ slab'[head'].prev = Nil
    BY <1>1, <1>18, <1>17, <1>19, <1>11, <1>12, <1>15, <1>16
  <2>3. tail' # Nil => tail' \in 1..size /\ slab'[tail'].live /\ slab'[tail'].next = Nil
    BY <1>1, <1>18, <1>17, <1>19, <1>11, <1>12, <1>15, <1>16
  <2> QED
    BY <2>1, <2>2, <2>3, <1>18, Zenon DEF Ends, Live, Nil
<1>7. Before'
  <2> SUFFICES ASSUME NEW i \in 1..size, slab'[i].live
               PROVE  IF slab'[i].prev = Nil THEN i = head'
                      ELSE slab'[i].prev \in 1..size /\ slab'[slab'[i].prev].live /\ slab'[slab'[i].prev].next = i
    BY <1>18, Zenon DEF Before, Live, Nil
  <2>1. i # at /\ slab[i].live
    BY <1>3, <1>17, Zenon
  <2>2. CASE i = n
    BY <2>1, <2>2, <1>1, <1>18, <1>17, <1>19, <1>11, <1>12, <1>15, <1>16
  <2>3. CASE i # n
    <3>1. slab'[i].prev = slab[i].prev
      BY <2>1, <2>3, <1>17, Zenon
    <3>2. CASE slab[i].prev = Nil
      BY <2>1, <2>3, <3>1, <3>2, <1>1, <1>18, <1>13, <1>11, <1>15, Zenon
    <3>3. CASE slab[i].prev # Nil
      <4>1. slab[i].prev \in 1..size /\ slab[slab[i].prev].live /\ slab[slab[i].prev].next = i
        BY <2>1, <3>3, <1>13, Zenon
      <4>2. slab[i].prev # at
        BY <2>3, <4>1, Zenon DEF n
      <4>3. slab[i].prev # p
        BY <2>1, <4>1, <1>11, <1>16, Zenon
      <4> QED
        BY <3>1, <3>3, <4>1, <4>2, <4>3, <1>17
    <3> QED
      BY <3>2, <3>3, Zenon
  <2> QED
    BY <2>2, <2>3, Zenon
<1>8. Behind'
  <2> SUFFICES ASSUME NEW i \in 1..size, slab'[i].live
               PROVE  IF slab'[i].next = Nil THEN i = tail'
                      ELSE slab'[i].next \in 1..size /\ slab'[slab'[i].next].live /\ slab'[slab'[i].next].prev = i
    BY <1>18, Zenon DEF Behind, Live, Nil
  <2>1. i # at /\ slab[i].live
    BY <1>3, <1>17, Zenon
  <2>2. CASE i = p
    BY <2>1, <2>2, <1>1, <1>18, <1>17, <1>19, <1>11, <1>12, <1>15, <1>16
  <2>3. CASE i # p
    <3>1. slab'[i].next = slab[i].next
      BY <2>1, <2>3, <1>17, Zenon
    <3>2. CASE slab[i].next = Nil
      BY <2>1, <2>3, <3>1, <3>2, <1>1, <1>18, <1>14, <1>12, <1>15, Zenon
    <3>3. CASE slab[i].next # Nil
      <4>1. slab[i].next \in 1..size /\ slab[slab[i].next].live /\ slab[slab[i].next].prev = i
        BY <2>1, <3>3, <1>14, Zenon
      <4>2. slab[i].next # at
        BY <2>3, <4>1, Zenon DEF p
      <4>3. slab[i].next # n
        BY <2>1, <4>1, <1>12, <1>16, Zenon
      <4> QED
        BY <3>1, <3>3, <4>1, <4>2, <4>3, <1>17
    <3> QED
      BY <3>2, <3>3, Zenon
  <2> QED
    BY <2>2, <2>3, Zenon
<1>9. Table'
  BY <1>1, <1>2, <1>4, Zenon DEF MapInv, Table, Live
<1>10. Holes'
  <2>1. \A i \in 1..size : ~slab'[i].live /\ i # at => ~slab[i].live /\ slab'[i].next_free = slab[i].next_free
    BY <1>4, Zenon
  <2>2. \A i : Hole(i) => i \in 1..size /\ ~slab'[i].live /\ i # at
    BY <1>1, <1>4, Zenon DEF Hole
  <2>3. \A i \in 1..size : ~slab'[i].live /\ slab'[i].next_free # Nil =>
          slab'[i].next_free \in 1..size /\ ~slab'[slab'[i].next_free].live /\ slab'[i].next_free # at
    BY <2>1, <2>2, <1>3, Zenon DEF MapInv, Holes
  <2>4. \A i, j \in 1..size : (/\ ~slab'[i].live /\ ~slab'[j].live /\ slab'[i].next_free # Nil
                               /\ slab'[i].next_free = slab'[j].next_free) => i = j
    <3> SUFFICES ASSUME NEW i \in 1..size, NEW j \in 1..size, ~slab'[i].live, ~slab'[j].live,
                        slab'[i].next_free # Nil, slab'[i].next_free = slab'[j].next_free
                 PROVE  i = j
      BY Zenon
    <3>1. CASE i # at /\ j # at
      BY <3>1, <2>1, Zenon DEF MapInv, Holes
    <3>2. CASE i = at \/ j = at
      BY <3>2, <2>1, <1>3, Zenon DEF MapInv, Holes
    <3> QED
      BY <3>1, <3>2, Zenon
  <2> QED
    BY <2>3, <2>4, <1>1, <1>2, <1>3, Zenon DEF Holes, Hole, Nil
<1> QED
  BY <1>5, <1>6, <1>7, <1>8, <1>9, <1>10, Zenon DEF MapInv

\* Every operation keeps the invariant.
LEMMA NextKeeps == MapInv /\ [MapNext]_mapVars => MapInv'
<1> SUFFICES ASSUME MapInv, [MapNext]_mapVars PROVE MapInv'
  BY Zenon
<1>1. ASSUME NEW k \in Keys, get(k) \/ Missing(k) PROVE MapInv'
  <2>1. UNCHANGED <<slab, size, table, head, tail, free_head>>
    BY <1>1, Zenon DEF get, Missing
  <2> QED
    BY <2>1 DEF MapInv, MapTypeOK, Ends, Before, Behind, Table, Holes, Live, Hole
<1>2. ASSUME NEW k \in Keys, NEW v \in Values, insert(k, v) PROVE MapInv'
  BY <1>2, ReplaceKeeps, AddKeeps, Zenon DEF insert
<1>3. ASSUME NEW k \in Keys, Take(k) PROVE MapInv'
  BY <1>3, TakeKeeps, Zenon
<1>4. CASE clear
  <2>1. size' = 0 /\ 1..size' = {} /\ slab' \in [1..size' -> Slot]
    BY <1>4 DEF clear
  <2> QED
    BY <1>4, <2>1 DEF clear, MapInv, MapTypeOK, Ends, Before, Behind, Table, Holes, Live, Hole, Nil
<1>5. CASE UNCHANGED mapVars
  BY <1>5 DEF mapVars, MapInv, MapTypeOK, Ends, Before, Behind, Table, Holes, Live, Hole
<1> QED
  BY <1>1, <1>2, <1>3, <1>4, <1>5, Zenon DEF MapNext, remove

(***************************************************************************)
(* The chain of links.  The slots in the order of their links are listed   *)
(* by some ord: every entry is on the list, once.                          *)
(***************************************************************************)
Chain(m, ord) ==
  /\ \A n \in 1..m : Live(ord[n])
  /\ \A i \in 1..size : slab[i].live => \E n \in 1..m : ord[n] = i
  /\ \A n, l \in 1..m : ord[n] = ord[l] => n = l
  /\ head = IF m = 0 THEN Nil ELSE ord[1]
  /\ tail = IF m = 0 THEN Nil ELSE ord[m]
  /\ \A n \in 1..m : /\ slab[ord[n]].next = IF n = m THEN Nil ELSE ord[n + 1]
                     /\ slab[ord[n]].prev = IF n = 1 THEN Nil ELSE ord[n - 1]

Chained == \E m \in Nat : len = m /\ \E ord \in [1..m -> 1..size] : Chain(m, ord)

\* The table finds every entry, and no key has two.
Keyed ==
  \A i \in 1..size : slab[i].live =>
    /\ [hash |-> Hash[slab[i].key], i |-> i] \in table
    /\ \A j \in 1..size : slab[j].live /\ slab[j].key = slab[i].key => j = i

OrderInv == MapInv /\ Chained /\ Keyed

\* Sets of numbers have a least element: induction over the places of a sequence.
Less == {p \in Nat \X Nat : p[1] < p[2]}

LEMMA LeastElement ==
  ASSUME NEW T, T \subseteq Nat, T # {}
  PROVE  \E m \in T : \A n \in T : m <= n
<1>1. IsWellFoundedOn(Less, Nat)
  BY NatLessThanWellFounded, Zenon DEF OpToRel, Less
<1>2. PICK m \in T : \A n \in T : ~(<<n, m>> \in Less)
  BY <1>1, WFMin, Zenon
<1>3. \A n \in T : ~(n < m)
  BY <1>2, Zenon DEF Less
<1> QED BY <1>3

\* A slot is listed once, so the list is no longer than the slab.
LEMMA ChainBound ==
  ASSUME NEW N \in Nat, NEW m \in Nat, NEW ord \in [1..m -> 1..N],
         \A n, l \in 1..m : ord[n] = ord[l] => n = l
  PROVE  m <= N
<1>1. IsFiniteSet(1..m) /\ Cardinality(1..m) = m
  BY FS_Interval
<1>2. IsFiniteSet(1..N) /\ Cardinality(1..N) = N
  BY FS_Interval
<1>3. ASSUME N < m PROVE FALSE
  BY <1>1, <1>2, <1>3, FS_PigeonHole, SMTT(30)
<1> QED BY <1>3

\* Following the links from the head visits the slots of the list in turn.
Steps(f) == f = [n \in 1..(size + 1) |-> IF n = 1 THEN head
                                        ELSE IF Live(f[n - 1]) THEN slab[f[n - 1]].next ELSE Nil]

LEMMA Visits ==
  ASSUME MapTypeOK, NEW m \in Nat, NEW ord \in [1..m -> 1..size], Chain(m, ord)
  PROVE  Visited = [n \in 1..(size + 1) |-> IF n <= m THEN ord[n] ELSE Nil]
<1> DEFINE g == [n \in 1..(size + 1) |-> IF n <= m THEN ord[n] ELSE Nil]
<1>0. size \in Nat /\ m <= size
  BY ChainBound, Zenon DEF MapTypeOK, Chain
<1>1. \A n \in 1..(size + 1) : g[n] = IF n <= m THEN ord[n] ELSE Nil
  BY Zenon
<1>2. Steps(g)
  <2> SUFFICES ASSUME NEW n \in 1..(size + 1)
               PROVE  g[n] = IF n = 1 THEN head
                             ELSE IF Live(g[n - 1]) THEN slab[g[n - 1]].next ELSE Nil
    BY Zenon DEF Steps
  <2>1. CASE n = 1
    BY <1>0, <1>1, <2>1 DEF Chain
  <2>2. CASE n # 1 /\ n - 1 <= m
    <3>1. n - 1 \in 1..m /\ n - 1 \in 1..(size + 1) /\ g[n - 1] = ord[n - 1]
      BY <1>0, <1>1, <2>2
    <3>2. Live(g[n - 1]) /\ slab[g[n - 1]].next = IF n - 1 = m THEN Nil ELSE ord[n]
      BY <3>1 DEF Chain
    <3> QED BY <1>0, <1>1, <2>2, <3>2
  <2>3. CASE n # 1 /\ ~(n - 1 <= m)
    <3>1. n - 1 \in 1..(size + 1) /\ g[n - 1] = Nil /\ g[n] = Nil
      BY <1>0, <1>1, <2>3
    <3>2. ~Live(Nil)
      BY <1>0 DEF Live, Nil
    <3> QED BY <2>3, <3>1, <3>2, Zenon
  <2> QED BY <2>1, <2>2, <2>3, Zenon
<1> HIDE DEF g
<1>3. Visited = CHOOSE f : Steps(f)
  BY Zenon DEF Visited, Steps
<1>4. Steps(Visited)
  BY <1>2, <1>3, Zenon
<1>5. \A n \in 1..(size + 1) : Visited[n] = g[n]
  <2> DEFINE Wrong == {n \in 1..(size + 1) : Visited[n] # g[n]}
  <2> SUFFICES ASSUME Wrong # {} PROVE FALSE
    BY Zenon
  <2>1. PICK l \in Wrong : \A n \in Wrong : l <= n
    <3>1. Wrong \subseteq Nat
      BY <1>0
    <3> QED BY <3>1, LeastElement, Zenon
  <2>2. l # 1
    BY <1>2, <1>4, Zenon DEF Steps
  <2>3. l - 1 \in 1..(size + 1) /\ Visited[l - 1] = g[l - 1]
    BY <1>0, <2>1, <2>2
  <2>4. \A f : Steps(f) => f[l] = IF Live(f[l - 1]) THEN slab[f[l - 1]].next ELSE Nil
    BY <2>1, <2>2, Zenon DEF Steps
  <2>5. Visited[l] = g[l]
    BY <1>2, <1>4, <2>3, <2>4, Zenon
  <2> QED BY <2>1, <2>5, Zenon
<1>6. DOMAIN Visited = 1..(size + 1) /\ DOMAIN g = 1..(size + 1)
  BY <1>4, Zenon DEF Steps, g
<1>7. Visited = [n \in 1..(size + 1) |-> Visited[n]]
  BY <1>4, Zenon DEF Steps
<1> QED BY <1>5, <1>7, Zenon DEF g

\* So an iterator yields the entries of the list.
Entry(i) == [k |-> slab[i].key, v |-> slab[i].value]
Entries(m, ord) == [n \in 1..m |-> Entry(ord[n])]

LEMMA Iterates ==
  MapTypeOK => \A m \in Nat : \A ord \in [1..m -> 1..size] : Chain(m, ord) => iter = Entries(m, ord)
<1> SUFFICES ASSUME MapTypeOK, NEW m \in Nat, NEW ord \in [1..m -> 1..size], Chain(m, ord)
             PROVE  iter = Entries(m, ord)
  BY Zenon
<1>1. Visited = [n \in 1..(size + 1) |-> IF n <= m THEN ord[n] ELSE Nil]
  BY Visits, Zenon
<1>2. size \in Nat /\ m <= size
  BY ChainBound, Zenon DEF MapTypeOK, Chain
<1>3. DOMAIN Visited = 1..(size + 1) /\ \A n \in 1..m : Visited[n] = ord[n]
  BY <1>1, <1>2
<1>4. \A n \in 1..(size + 1) : Live(Visited[n]) <=> n \in 1..m
  BY <1>1, <1>2 DEF Chain, Live, Nil
<1>5. {n \in DOMAIN Visited : Live(Visited[n])} = 1..m
  BY <1>2, <1>3, <1>4
<1>6. Cardinality(1..m) = m
  BY FS_Interval
<1>7. iter = [n \in 1..m |-> [k |-> slab[Visited[n]].key, v |-> slab[Visited[n]].value]]
  BY <1>5, <1>6, Zenon DEF iter
<1> QED BY <1>3, <1>7, Zenon DEF Entries, Entry

LEMMA IteratesNext ==
  (MapTypeOK => \A m \in Nat : \A ord \in [1..m -> 1..size] : Chain(m, ord) => iter = Entries(m, ord))'
BY Iterates, PTL

\* The list of a state, and what an iterator makes of it.
List(m, ord) ==
  /\ m \in Nat /\ ord \in [1..m -> 1..size]
  /\ len = m /\ Chain(m, ord) /\ iter = Entries(m, ord)
  /\ iter \in [1..m -> [k : Keys, v : Values \cup {Nil}]]
  /\ \A n \in 1..m : iter[n].k = slab[ord[n]].key /\ iter[n].v = slab[ord[n]].value

LEMMA Listed ==
  ASSUME OrderInv
  PROVE  \E m, ord : List(m, ord)
<1>1. PICK m \in Nat : len = m /\ \E ord \in [1..m -> 1..size] : Chain(m, ord)
  BY Zenon DEF OrderInv, Chained
<1>2. PICK ord \in [1..m -> 1..size] : Chain(m, ord)
  BY <1>1, Zenon
<1>3. iter = Entries(m, ord)
  BY <1>2, Iterates, Zenon DEF OrderInv, MapInv
<1>4. \A n \in 1..m : /\ iter[n].k = slab[ord[n]].key /\ iter[n].v = slab[ord[n]].value
                      /\ Entry(ord[n]) \in [k : Keys, v : Values \cup {Nil}]
  BY <1>3, Zenon DEF Entries, Entry, OrderInv, MapInv, MapTypeOK, Slot
<1>5. iter \in [1..m -> [k : Keys, v : Values \cup {Nil}]]
  BY <1>3, <1>4, Zenon DEF Entries
<1>6. List(m, ord)
  BY <1>1, <1>2, <1>3, <1>4, <1>5, Zenon DEF List
<1> QED BY <1>6, Zenon

LEMMA Lists ==
  ASSUME NEW S, NEW m \in Nat, NEW f \in [1..m -> S]
  PROVE  f \in Seq(S) /\ Len(f) = m
OBVIOUS

\* What the abstract map makes of a list without and with a key.
LEMMA AbstractPosition ==
  ASSUME NEW m \in Nat, iter \in [1..m -> [k : Keys, v : Values \cup {Nil}]], NEW k \in Keys
  PROVE  /\ Len(iter) = m /\ iter \in Seq([k : Keys, v : Values \cup {Nil}])
         /\ (\A n \in 1..m : iter[n].k # k) => Order!At(k) = 0 /\ Order!Value(k) = Nil
         /\ \A n \in 1..m : iter[n].k = k /\ (\A l \in 1..m : iter[l].k = k => l = n)
               => Order!At(k) = n /\ Order!Value(k) = iter[n].v
<1> DEFINE S == [k : Keys, v : Values \cup {Nil}]
<1>1. iter \in Seq(S)
  BY Lists, Zenon
<1>2. Len(iter) = m
  BY Lists, Zenon
<1> DEFINE I == {i \in 1..Len(iter) : iter[i].k = k}
<1>3. Order!At(k) = IF I = {} THEN 0 ELSE CHOOSE i \in I : TRUE
  BY Zenon DEF Order!At, Order!Places
<1>4. ASSUME \A n \in 1..m : iter[n].k # k PROVE Order!At(k) = 0 /\ Order!Value(k) = Nil
  <2>1. I = {}
    BY <1>2, <1>4, Zenon
  <2> QED BY <1>3, <2>1, Zenon DEF Order!Value, Order!NoValue, Nil
<1>5. ASSUME NEW n \in 1..m, iter[n].k = k, \A l \in 1..m : iter[l].k = k => l = n
      PROVE  Order!At(k) = n /\ Order!Value(k) = iter[n].v
  <2>1. I = {n}
    BY <1>2, <1>5, Zenon
  <2>2. (CHOOSE i \in {n} : TRUE) = n
    BY Zenon
  <2>3. I # {} /\ n # 0
    BY <2>1
  <2>4. Order!At(k) = n
    BY <1>3, <2>1, <2>2, <2>3, Zenon
  <2> QED BY <2>3, <2>4, Zenon DEF Order!Value
<1> QED BY <1>1, <1>2, <1>4, <1>5, Zenon

\* A lookup finds the place of its key on the list, as the abstract map does.
LEMMA Present ==
  ASSUME OrderInv, NEW m, NEW ord, List(m, ord), NEW k \in Keys, index_of(k) # Nil
  PROVE  /\ index_of(k) \in 1..size /\ slab[index_of(k)].live
         /\ Order!Value(k) = slab[index_of(k)].value
         /\ \E n \in 1..m : /\ ord[n] = index_of(k) /\ Order!At(k) = n
                            /\ \A l \in 1..m : ord[l] = index_of(k) => l = n
<1> PICK at : at = index_of(k)
  BY Zenon
<1>1. /\ m \in Nat /\ ord \in [1..m -> 1..size] /\ Chain(m, ord)
      /\ iter \in [1..m -> [k : Keys, v : Values \cup {Nil}]]
      /\ \A n \in 1..m : iter[n].k = slab[ord[n]].key /\ iter[n].v = slab[ord[n]].value
  BY Zenon DEF List
<1>2. at \in Found(k)
  BY Zenon DEF index_of
<1>3. at \in 1..size /\ slab[at].live /\ slab[at].key = k
  BY <1>2, Zenon DEF Found
<1>4. PICK n \in 1..m : ord[n] = at
  BY <1>1, <1>3, Zenon DEF Chain
<1>5. ASSUME NEW l \in 1..m, iter[l].k = k PROVE l = n
  <2>1. ord[l] \in 1..size /\ slab[ord[l]].live /\ slab[ord[l]].key = k
    BY <1>1, <1>5, Zenon DEF Chain, Live
  <2>2. ord[l] = ord[n]
    BY <1>3, <1>4, <2>1, Zenon DEF OrderInv, Keyed
  <2> QED BY <1>1, <2>2, Zenon DEF Chain
<1>6. iter[n].k = k /\ iter[n].v = slab[at].value
  BY <1>1, <1>3, <1>4, Zenon
<1>7. Order!At(k) = n /\ Order!Value(k) = slab[at].value
  BY <1>1, <1>5, <1>6, AbstractPosition, ZenonT(30)
<1>8. \A l \in 1..m : ord[l] = at => l = n
  BY <1>1, <1>4 DEF Chain
<1> QED BY <1>3, <1>4, <1>7, <1>8, Zenon

LEMMA Absent ==
  ASSUME OrderInv, NEW m, NEW ord, List(m, ord), NEW k \in Keys, index_of(k) = Nil
  PROVE  /\ Order!At(k) = 0 /\ Order!Value(k) = Nil
         /\ \A i \in 1..size : slab[i].live => slab[i].key # k
<1>1. /\ m \in Nat /\ ord \in [1..m -> 1..size] /\ Chain(m, ord)
      /\ iter \in [1..m -> [k : Keys, v : Values \cup {Nil}]]
      /\ \A n \in 1..m : iter[n].k = slab[ord[n]].key
  BY Zenon DEF List
<1>2. Found(k) = {}
  <2>1. ASSUME Found(k) # {} PROVE FALSE
    <3>1. index_of(k) \in Found(k)
      BY <2>1, Zenon DEF index_of
    <3> QED BY <3>1 DEF Found, Nil, OrderInv, MapInv, MapTypeOK
  <2> QED BY <2>1, Zenon
<1>3. \A i \in 1..size : slab[i].live => slab[i].key # k
  BY <1>2, Zenon DEF Found, OrderInv, Keyed
<1>4. ASSUME NEW n \in 1..m PROVE iter[n].k # k
  <2>1. ord[n] \in 1..size /\ slab[ord[n]].live
    BY <1>1, Zenon DEF Chain, Live
  <2> QED BY <1>1, <1>3, <2>1, Zenon
<1> QED BY <1>1, <1>3, <1>4, AbstractPosition, Zenon

\* Assigning to a key that is there changes the value in its place.
LEMMA ReplaceOrder ==
  ASSUME OrderInv, MapInv', NEW k \in Keys, NEW v \in Values, Replace(k, v)
  PROVE  Chained' /\ Keyed' /\ Order!Insert(k, v)
<1>0. PICK m, ord : List(m, ord)
  BY Listed, Zenon
<1>1. /\ m \in Nat /\ ord \in [1..m -> 1..size] /\ len = m /\ Chain(m, ord)
      /\ iter \in [1..m -> [k : Keys, v : Values \cup {Nil}]]
      /\ \A n \in 1..m : iter[n].k = slab[ord[n]].key /\ iter[n].v = slab[ord[n]].value
  BY <1>0, Zenon DEF List
<1> PICK at : at = index_of(k)
  BY Zenon
<1>2. at # Nil
  BY Zenon DEF Replace
<1>3. /\ at \in 1..size /\ slab[at].live /\ Order!Value(k) = slab[at].value
      /\ \E n \in 1..m : /\ ord[n] = at /\ Order!At(k) = n
                         /\ \A l \in 1..m : ord[l] = at => l = n
  BY <1>0, <1>2, Present
<1>4. PICK n \in 1..m : /\ ord[n] = at /\ Order!At(k) = n
                        /\ \A l \in 1..m : ord[l] = at => l = n
  BY <1>3, Zenon
<1>5. /\ slab' = [slab EXCEPT ![at].value = v] /\ size' = size /\ table' = table /\ head' = head
      /\ tail' = tail /\ len' = len /\ out' = <<"insert", k, v, slab[at].value>>
  BY Zenon DEF Replace
<1>6. \A i \in 1..size : /\ slab'[i].live = slab[i].live /\ slab'[i].key = slab[i].key
                         /\ slab'[i].next = slab[i].next /\ slab'[i].prev = slab[i].prev
                         /\ slab'[i].value = IF i = at THEN v ELSE slab[i].value
  BY <1>3, <1>5, ZenonT(30) DEF OrderInv, MapInv, MapTypeOK, Slot
<1>7. Chain(m, ord)'
  BY <1>1, <1>5, <1>6 DEF Chain, Live
<1>8. Keyed'
  BY <1>5, <1>6 DEF OrderInv, Keyed
<1>9. Chained'
  BY <1>1, <1>5, <1>7, Zenon DEF Chained
<1>10. iter' = Entries(m, ord)'
  <2>1. ord \in [1..m -> 1..size']
    BY <1>1, <1>5, Zenon
  <2> QED BY <1>1, <1>7, <2>1, IteratesNext, Zenon DEF MapInv
<1>11. iter' = [l \in 1..m |-> [k |-> slab'[ord[l]].key, v |-> slab'[ord[l]].value]]
  BY <1>10, Zenon DEF Entries, Entry
<1>12. \A l \in 1..m : slab'[ord[l]].key = iter[l].k
                      /\ slab'[ord[l]].value = IF l = n THEN v ELSE iter[l].v
  BY <1>1, <1>4, <1>6, SMTT(30)
<1>13. iter' = [iter EXCEPT ![n].v = v]
  <2>1. \A l \in 1..m : [iter EXCEPT ![n].v = v][l]
                          = [k |-> iter[l].k, v |-> IF l = n THEN v ELSE iter[l].v]
    BY <1>1, Zenon
  <2>2. \A l \in 1..m : iter'[l] = [k |-> iter[l].k, v |-> IF l = n THEN v ELSE iter[l].v]
    BY <1>11, <1>12, Zenon
  <2> QED BY <1>1, <1>11, <2>1, <2>2, Zenon
<1>14. Order!Insert(k, v)
  <2>1. n # 0
    BY <1>1
  <2> QED BY <1>3, <1>4, <1>5, <1>13, <2>1, Zenon DEF Order!Insert
<1> QED BY <1>8, <1>9, <1>14, Zenon

\* A new key goes to the end.
LEMMA AddOrder ==
  ASSUME OrderInv, MapInv', NEW k \in Keys, NEW v \in Values, Add(k, v)
  PROVE  Chained' /\ Keyed' /\ Order!Insert(k, v)
<1>0. PICK m, ord : List(m, ord)
  BY Listed, Zenon
<1>1. /\ m \in Nat /\ ord \in [1..m -> 1..size] /\ len = m /\ Chain(m, ord)
      /\ iter \in [1..m -> [k : Keys, v : Values \cup {Nil}]]
      /\ \A n \in 1..m : iter[n].k = slab[ord[n]].key /\ iter[n].v = slab[ord[n]].value
  BY <1>0, Zenon DEF List
<1>2. /\ Order!At(k) = 0 /\ Order!Value(k) = Nil
      /\ \A i \in 1..size : slab[i].live => slab[i].key # k
  BY <1>0, Absent, Zenon DEF Add
<1> PICK index : index = alloc_slot
  BY Zenon
<1>3. /\ index \in 1..size' /\ ~Live(index) /\ size' \in Nat /\ size <= size' /\ tail # index
      /\ \A i \in 1..size' : i \in 1..size \/ i = index
      /\ slab'[index] = Occupied(k, v, tail, Nil)
      /\ \A i \in 1..size : i # index /\ i # tail => slab'[i] = slab[i]
      /\ tail # Nil => tail \in 1..size /\ slab'[tail] = [slab[tail] EXCEPT !.next = index]
  BY AddSlots, Zenon DEF OrderInv
<1>4. /\ head' = (IF tail = Nil THEN index ELSE head) /\ tail' = index /\ len' = len + 1
      /\ table' = table \cup {[hash |-> Hash[k], i |-> index]}
      /\ out' = <<"insert", k, v, Nil>>
  BY Zenon DEF Add
<1>5. /\ slab'[index].live /\ slab'[index].key = k /\ slab'[index].value = v
      /\ slab'[index].prev = tail /\ slab'[index].next = Nil
  BY <1>3 DEF Occupied
<1>6. \A i \in 1..size : i # index =>
        /\ slab'[i].live = slab[i].live /\ slab'[i].key = slab[i].key /\ slab'[i].value = slab[i].value
        /\ slab'[i].prev = slab[i].prev
        /\ slab'[i].next = IF i = tail THEN index ELSE slab[i].next
  <2> SUFFICES ASSUME NEW i \in 1..size, i # index
               PROVE  /\ slab'[i].live = slab[i].live /\ slab'[i].key = slab[i].key
                      /\ slab'[i].value = slab[i].value /\ slab'[i].prev = slab[i].prev
                      /\ slab'[i].next = IF i = tail THEN index ELSE slab[i].next
    BY Zenon
  <2>1. CASE i = tail
    <3>1. i # Nil /\ slab[i] \in Slot
      BY DEF OrderInv, MapInv, MapTypeOK, Nil
    <3> QED BY <1>3, <2>1, <3>1, Zenon DEF Slot
  <2>2. CASE i # tail
    BY <1>3, <2>2, Zenon
  <2> QED BY <2>1, <2>2, Zenon
<1> PICK o : o = [n \in 1..(m + 1) |-> IF n <= m THEN ord[n] ELSE index]
  BY Zenon
<1>7. /\ m + 1 \in Nat /\ o \in [1..(m + 1) -> 1..size'] /\ o[m + 1] = index
      /\ \A n \in 1..m : n \in 1..(m + 1) /\ o[n] = ord[n]
      /\ \A n \in 1..(m + 1) : n \in 1..m \/ n = m + 1
  <2>1. \A n \in 1..m : ord[n] \in 1..size'
    BY <1>1, <1>3 DEF OrderInv, MapInv, MapTypeOK
  <2> QED BY <1>1, <1>3, <2>1
<1>8. \A n \in 1..m : /\ ord[n] \in 1..size /\ ord[n] # index /\ slab[ord[n]].live
                      /\ slab[ord[n]].next = IF n = m THEN Nil ELSE ord[n + 1]
                      /\ slab[ord[n]].prev = IF n = 1 THEN Nil ELSE ord[n - 1]
  BY <1>1, <1>3, SMTT(30) DEF Chain, Live
<1>9. tail = IF m = 0 THEN Nil ELSE ord[m]
  BY <1>1, Zenon DEF Chain
<1>10. \A n \in 1..m : ord[n] = tail <=> n = m
  BY <1>1, <1>9 DEF Chain
<1>11. Chain(m + 1, o)'
  <2>1. \A n \in 1..(m + 1) : o[n] \in 1..size' /\ slab'[o[n]].live
    BY <1>5, <1>6, <1>7, <1>8, Zenon
  <2>2. ASSUME NEW i \in 1..size', slab'[i].live PROVE \E n \in 1..(m + 1) : o[n] = i
    <3>1. CASE i = index
      BY <1>1, <1>7, <3>1
    <3>2. CASE i # index
      <4>1. i \in 1..size /\ slab[i].live
        BY <1>3, <1>6, <2>2, <3>2, Zenon
      <4>2. \E n \in 1..m : ord[n] = i
        BY <1>1, <4>1, Zenon DEF Chain
      <4> QED BY <1>7, <4>2, Zenon
    <3> QED BY <3>1, <3>2, Zenon
  <2>3. \A n, l \in 1..(m + 1) : o[n] = o[l] => n = l
    BY <1>1, <1>7, <1>8 DEF Chain
  <2>4. head' = IF m + 1 = 0 THEN Nil ELSE o[1]
    <3>1. CASE m = 0
      BY <1>4, <1>7, <1>9, <3>1
    <3>2. CASE m # 0
      <4>1. m \in 1..m /\ 1 \in 1..m
        BY <1>1, <3>2
      <4>2. tail # Nil
        BY <1>8, <1>9, <3>2, <4>1 DEF Nil, OrderInv, MapInv, MapTypeOK
      <4> QED BY <1>1, <1>4, <1>7, <3>2, <4>1, <4>2 DEF Chain
    <3> QED BY <3>1, <3>2, Zenon
  <2>5. tail' = IF m + 1 = 0 THEN Nil ELSE o[m + 1]
    BY <1>1, <1>4, <1>7
  <2>6. ASSUME NEW n \in 1..(m + 1)
        PROVE  /\ slab'[o[n]].next = IF n = m + 1 THEN Nil ELSE o[n + 1]
               /\ slab'[o[n]].prev = IF n = 1 THEN Nil ELSE o[n - 1]
    <3>1. CASE n = m + 1
      BY <1>1, <1>5, <1>7, <1>9, <3>1
    <3>2. CASE n \in 1..m
      <4>1. slab'[o[n]].next = IF n = m THEN index ELSE slab[ord[n]].next
        BY <1>6, <1>7, <1>8, <1>10, <3>2
      <4>2. slab'[o[n]].prev = slab[ord[n]].prev
        BY <1>6, <1>7, <1>8, <3>2
      <4>3. n # m => n + 1 \in 1..m
        BY <1>1, <3>2
      <4>4. n # 1 => n - 1 \in 1..m
        BY <1>1, <3>2
      <4>5. slab'[o[n]].next = IF n = m + 1 THEN Nil ELSE o[n + 1]
        BY <1>1, <1>7, <1>8, <3>2, <4>1, <4>3
      <4>6. slab'[o[n]].prev = IF n = 1 THEN Nil ELSE o[n - 1]
        BY <1>7, <1>8, <3>2, <4>2, <4>4
      <4> QED BY <4>5, <4>6, Zenon
    <3> QED BY <1>7, <3>1, <3>2, Zenon
  <2> QED BY <2>1, <2>2, <2>3, <2>4, <2>5, <2>6, Zenon DEF Chain, Live, Nil
<1>12. Chained'
  <2>1. len' = m + 1
    BY <1>1, <1>4, Zenon
  <2> QED BY <1>7, <1>11, <2>1, Zenon DEF Chained
<1>13. Keyed'
  <2> SUFFICES ASSUME NEW i \in 1..size', slab'[i].live
               PROVE  /\ [hash |-> Hash[slab'[i].key], i |-> i] \in table'
                      /\ \A j \in 1..size' : slab'[j].live /\ slab'[j].key = slab'[i].key => j = i
    BY Zenon DEF Keyed
  <2>1. \A j \in 1..size' : slab'[j].live /\ j # index =>
          j \in 1..size /\ slab[j].live /\ slab'[j].key = slab[j].key /\ slab[j].key # k
    BY <1>2, <1>3, <1>6, Zenon
  <2>2. CASE i = index
    BY <1>4, <1>5, <2>1, <2>2, Zenon
  <2>3. CASE i # index
    BY <1>4, <1>5, <2>1, <2>3, Zenon DEF OrderInv, Keyed
  <2> QED BY <2>2, <2>3, Zenon
<1>14. iter' = Entries(m + 1, o)'
  BY <1>7, <1>11, IteratesNext, Zenon DEF MapInv
<1>15. iter' = [l \in 1..(m + 1) |-> [k |-> slab'[o[l]].key, v |-> slab'[o[l]].value]]
  BY <1>14, Zenon DEF Entries, Entry
<1>16. iter' = Append(iter, [k |-> k, v |-> v])
  <2>1. Len(iter) = m /\ iter \in Seq([k : Keys, v : Values \cup {Nil}])
    BY <1>1, AbstractPosition, Zenon
  <2>2. /\ Append(iter, [k |-> k, v |-> v]) = [l \in 1..(m + 1) |->
              IF l <= m THEN iter[l] ELSE [k |-> k, v |-> v]]
    BY <1>1, <2>1
  <2>3. ASSUME NEW l \in 1..m
        PROVE  iter[l] = [k |-> slab'[o[l]].key, v |-> slab'[o[l]].value]
    <3>0. o[l] = ord[l] /\ ord[l] \in 1..size /\ ord[l] # index
      BY <1>7, <1>8, Zenon
    <3>1. slab'[o[l]].key = iter[l].k /\ slab'[o[l]].value = iter[l].v
      BY <1>1, <1>6, <3>0, SMTT(30)
    <3>2. iter[l] \in [k : Keys, v : Values \cup {Nil}]
      BY <1>1, Zenon
    <3> QED BY <3>1, <3>2, Zenon
  <2>4. ASSUME NEW l \in 1..(m + 1)
        PROVE  (IF l <= m THEN iter[l] ELSE [k |-> k, v |-> v])
                 = [k |-> slab'[o[l]].key, v |-> slab'[o[l]].value]
    <3>1. CASE l \in 1..m
      <4>1. l <= m
        BY <1>1, <3>1
      <4>2. iter[l] = [k |-> slab'[o[l]].key, v |-> slab'[o[l]].value]
        BY <2>3, <3>1, Zenon
      <4> QED BY <4>1, <4>2, Zenon
    <3>2. CASE l = m + 1
      BY <1>1, <1>5, <1>7, <3>2
    <3> QED BY <1>7, <3>1, <3>2, Zenon
  <2> QED BY <1>15, <2>2, <2>4, Zenon
<1> QED BY <1>2, <1>4, <1>12, <1>13, <1>16, Zenon DEF Order!Insert

\* Removing a key leaves the order of the others alone.
LEMMA TakeOrder ==
  ASSUME OrderInv, MapInv', NEW k \in Keys, Take(k)
  PROVE  Chained' /\ Keyed' /\ Order!Delete(k)
<1>0. PICK m, ord : List(m, ord)
  BY Listed, Zenon
<1>1. /\ m \in Nat /\ ord \in [1..m -> 1..size] /\ len = m /\ Chain(m, ord)
      /\ iter \in [1..m -> [k : Keys, v : Values \cup {Nil}]]
      /\ \A n \in 1..m : iter[n].k = slab[ord[n]].key /\ iter[n].v = slab[ord[n]].value
  BY <1>0, Zenon DEF List
<1> PICK at : at = index_of(k)
  BY Zenon
<1>2. /\ at \in 1..size /\ slab[at].live /\ Order!Value(k) = slab[at].value
      /\ \E n \in 1..m : /\ ord[n] = at /\ Order!At(k) = n
                         /\ \A l \in 1..m : ord[l] = at => l = n
  BY <1>0, Present DEF Take
<1>3. PICK n \in 1..m : /\ ord[n] = at /\ Order!At(k) = n
                        /\ \A l \in 1..m : ord[l] = at => l = n
  BY <1>2, Zenon
<1>4. /\ slab' = [i \in 1..size |-> Unlinked(at, i)] /\ size' = size
      /\ table' = {e \in table : e.i # at} /\ len' = len - 1
      /\ head' = (IF slab[at].prev = Nil THEN slab[at].next ELSE head)
      /\ tail' = (IF slab[at].next = Nil THEN slab[at].prev ELSE tail)
      /\ out' = <<"remove", k, slab[at].value>>
  BY Zenon DEF Take
<1>5. ~slab'[at].live
  BY <1>2, <1>4, Zenon DEF Unlinked, Free
<1>6. \A i \in 1..size : i # at =>
        /\ slab'[i].live = slab[i].live /\ slab'[i].key = slab[i].key /\ slab'[i].value = slab[i].value
        /\ slab'[i].next = IF i = slab[at].prev THEN slab[at].next ELSE slab[i].next
        /\ slab'[i].prev = IF i = slab[at].next THEN slab[at].prev ELSE slab[i].prev
  <2> SUFFICES ASSUME NEW i \in 1..size, i # at
               PROVE  /\ slab'[i].live = slab[i].live /\ slab'[i].key = slab[i].key
                      /\ slab'[i].value = slab[i].value
                      /\ slab'[i].next = IF i = slab[at].prev THEN slab[at].next ELSE slab[i].next
                      /\ slab'[i].prev = IF i = slab[at].next THEN slab[at].prev ELSE slab[i].prev
    BY Zenon
  <2>1. slab[i] \in Slot
    BY Zenon DEF OrderInv, MapInv, MapTypeOK
  <2>2. slab'[i] = [slab[i] EXCEPT !.next = IF i = slab[at].prev THEN slab[at].next ELSE @,
                                  !.prev = IF i = slab[at].next THEN slab[at].prev ELSE @]
    BY <1>4, Zenon DEF Unlinked
  <2> QED BY <2>1, <2>2, Zenon DEF Slot
<1>7. /\ \A l \in 1..m : ord[l] \in 1..size /\ slab[ord[l]].live /\ (l # n => ord[l] # at) /\ ord[l] # Nil
      /\ \A l \in 1..m : /\ slab[ord[l]].next = IF l = m THEN Nil ELSE ord[l + 1]
                         /\ slab[ord[l]].prev = IF l = 1 THEN Nil ELSE ord[l - 1]
  BY <1>1, <1>3, SMTT(30) DEF Chain, Live, Nil, OrderInv, MapInv, MapTypeOK
<1>8. /\ slab[at].next = IF n = m THEN Nil ELSE ord[n + 1]
      /\ slab[at].prev = IF n = 1 THEN Nil ELSE ord[n - 1]
  BY <1>3, <1>7
<1>9. \A l, i \in 1..m : ord[l] = ord[i] <=> l = i
  BY <1>1, Zenon DEF Chain
<1> PICK o : o = [l \in 1..(m - 1) |-> IF l < n THEN ord[l] ELSE ord[l + 1]]
  BY Zenon
<1> PICK to : to = [l \in 1..(m - 1) |-> IF l < n THEN l ELSE l + 1]
  BY Zenon
<1>10. /\ m - 1 \in Nat /\ o \in [1..(m - 1) -> 1..size]
       /\ \A l \in 1..(m - 1) : o[l] = ord[to[l]] /\ to[l] \in 1..m /\ to[l] # n
       /\ \A l \in 1..(m - 1) : to[l] = IF l < n THEN l ELSE l + 1
  <2>1. m - 1 \in Nat
    BY <1>1
  <2>2. ASSUME NEW l \in 1..(m - 1) PROVE to[l] \in 1..m /\ to[l] # n
    BY <1>1, <2>2
  <2>3. \A l \in 1..(m - 1) : o[l] = ord[to[l]]
    BY <1>1, Zenon
  <2>4. \A l \in 1..(m - 1) : ord[to[l]] \in 1..size
    BY <1>1, <2>2, Zenon
  <2> QED BY <2>1, <2>2, <2>3, <2>4, Zenon
<1>11. \A l \in 1..m : l # n => \E i \in 1..(m - 1) : to[i] = l
  <2> SUFFICES ASSUME NEW l \in 1..m, l # n PROVE \E i \in 1..(m - 1) : to[i] = l
    BY Zenon
  <2>1. CASE l < n
    <3>1. l \in 1..(m - 1)
      BY <1>1, <2>1
    <3> QED BY <1>10, <2>1, <3>1, Zenon
  <2>2. CASE ~(l < n)
    <3>1. l - 1 \in 1..(m - 1) /\ ~(l - 1 < n) /\ (l - 1) + 1 = l
      BY <1>1, <2>2
    <3> QED BY <1>10, <3>1, Zenon
  <2> QED BY <2>1, <2>2, Zenon
<1>12. \A l \in 1..(m - 1) : /\ o[l] \in 1..size /\ o[l] # at
                             /\ slab'[o[l]].live /\ slab'[o[l]].key = slab[o[l]].key
                             /\ slab'[o[l]].value = slab[o[l]].value
  <2> SUFFICES ASSUME NEW l \in 1..(m - 1)
               PROVE  /\ o[l] \in 1..size /\ o[l] # at
                      /\ slab'[o[l]].live /\ slab'[o[l]].key = slab[o[l]].key
                      /\ slab'[o[l]].value = slab[o[l]].value
    BY Zenon
  <2>1. to[l] \in 1..m /\ to[l] # n /\ o[l] = ord[to[l]]
    BY <1>10, Zenon
  <2>2. o[l] \in 1..size /\ o[l] # at /\ slab[o[l]].live
    BY <1>7, <2>1, Zenon
  <2> QED BY <1>6, <2>2, Zenon
<1>13. Chain(m - 1, o)'
  <2>2. ASSUME NEW i \in 1..size, slab'[i].live PROVE \E l \in 1..(m - 1) : o[l] = i
    <3>1. i # at /\ slab[i].live
      BY <1>5, <1>6, <2>2, Zenon
    <3>2. PICK l \in 1..m : ord[l] = i
      BY <1>1, <3>1, Zenon DEF Chain
    <3>3. l # n
      BY <1>3, <3>1, <3>2, Zenon
    <3> QED BY <1>10, <1>11, <3>2, <3>3, Zenon
  <2>3. ASSUME NEW i \in 1..(m - 1), NEW l \in 1..(m - 1), o[i] = o[l] PROVE i = l
    <3>1. to[i] = to[l]
      BY <1>9, <1>10, <2>3
    <3> QED BY <1>1, <1>10, <3>1
  <2>4. head' = IF m - 1 = 0 THEN Nil ELSE o[1]
    <3>0. head = ord[1]
      BY <1>1, <1>3 DEF Chain
    <3>1. CASE n = 1
      <4>1. head' = IF m = 1 THEN Nil ELSE ord[2]
        BY <1>4, <1>8, <3>1
      <4>2. m # 1 => 1 \in 1..(m - 1) /\ to[1] = 2 /\ o[1] = ord[2]
        BY <1>1, <1>10, <3>1
      <4> QED BY <1>1, <4>1, <4>2
    <3>2. CASE n # 1
      <4>1. n - 1 \in 1..m /\ 1 \in 1..(m - 1) /\ 1 < n /\ m - 1 # 0
        BY <1>1, <3>2
      <4>2. slab[at].prev # Nil
        BY <1>7, <1>8, <3>2, <4>1
      <4>3. o[1] = ord[1]
        BY <1>10, <4>1, Zenon
      <4> QED BY <1>4, <3>0, <4>1, <4>2, <4>3, Zenon
    <3> QED BY <3>1, <3>2, Zenon
  <2>5. tail' = IF m - 1 = 0 THEN Nil ELSE o[m - 1]
    <3>0. tail = ord[m]
      BY <1>1, <1>3 DEF Chain
    <3>1. CASE n = m
      <4>1. tail' = IF n = 1 THEN Nil ELSE ord[n - 1]
        BY <1>4, <1>8, <3>1, Zenon
      <4>2. m # 1 => m - 1 \in 1..(m - 1) /\ to[m - 1] = m - 1 /\ o[m - 1] = ord[m - 1]
        BY <1>1, <1>10, <3>1
      <4> QED BY <1>1, <3>1, <4>1, <4>2
    <3>2. CASE n # m
      <4>1. n + 1 \in 1..m /\ m - 1 \in 1..(m - 1) /\ ~(m - 1 < n) /\ m - 1 # 0 /\ (m - 1) + 1 = m
        BY <1>1, <3>2
      <4>2. slab[at].next # Nil
        BY <1>7, <1>8, <3>2, <4>1, Zenon
      <4>3. o[m - 1] = ord[m]
        BY <1>10, <4>1, Zenon
      <4> QED BY <1>4, <3>0, <4>1, <4>2, <4>3, Zenon
    <3> QED BY <3>1, <3>2, Zenon
  <2>6. ASSUME NEW l \in 1..(m - 1) PROVE slab'[o[l]].next = IF l = m - 1 THEN Nil ELSE o[l + 1]
    <3>0. /\ to[l] \in 1..m /\ o[l] = ord[to[l]] /\ o[l] # at /\ o[l] \in 1..size
      BY <1>10, <1>12, Zenon
    <3>1. slab'[o[l]].next = IF o[l] = slab[at].prev THEN slab[at].next ELSE slab[o[l]].next
      BY <1>6, <3>0, Zenon
    <3>2. o[l] = slab[at].prev <=> to[l] = n - 1
      <4>1. CASE n = 1
        BY <1>1, <1>7, <1>8, <3>0, <4>1
      <4>2. CASE n # 1
        <5>1. n - 1 \in 1..m
          BY <1>1, <4>2
        <5> QED BY <1>8, <1>9, <3>0, <4>2, <5>1
      <4> QED BY <4>1, <4>2, Zenon
    <3>3. CASE l = n - 1
      <4>1. to[l] = n - 1 /\ l < n
        BY <1>10, <3>3
      <4>2. slab'[o[l]].next = IF n = m THEN Nil ELSE ord[n + 1]
        BY <1>8, <3>1, <3>2, <4>1, Zenon
      <4>3. n # m => l + 1 \in 1..(m - 1) /\ ~(l + 1 < n) /\ (l + 1) + 1 = n + 1
        BY <1>1, <3>3
      <4>4. n # m => o[l + 1] = ord[n + 1]
        BY <1>10, <4>3, Zenon
      <4>5. n = m <=> l = m - 1
        BY <1>1, <3>3
      <4> QED BY <4>2, <4>4, <4>5, Zenon
    <3>4. CASE l # n - 1
      <4>1. to[l] # n - 1
        BY <1>1, <1>10, <3>4
      <4>2. slab'[o[l]].next = IF to[l] = m THEN Nil ELSE ord[to[l] + 1]
        BY <1>7, <3>0, <3>1, <3>2, <4>1, Zenon
      <4>3. to[l] = m <=> l = m - 1
        BY <1>1, <1>10, <3>4
      <4>4. l # m - 1 => l + 1 \in 1..(m - 1) /\ to[l + 1] = to[l] + 1
        BY <1>1, <1>10, <3>4
      <4> QED BY <1>10, <4>2, <4>3, <4>4, Zenon
    <3> QED BY <3>3, <3>4, Zenon
  <2>7. ASSUME NEW l \in 1..(m - 1) PROVE slab'[o[l]].prev = IF l = 1 THEN Nil ELSE o[l - 1]
    <3>0. /\ to[l] \in 1..m /\ o[l] = ord[to[l]] /\ o[l] # at /\ o[l] \in 1..size
      BY <1>10, <1>12, Zenon
    <3>1. slab'[o[l]].prev = IF o[l] = slab[at].next THEN slab[at].prev ELSE slab[o[l]].prev
      BY <1>6, <3>0, Zenon
    <3>2. o[l] = slab[at].next <=> to[l] = n + 1
      <4>1. CASE n = m
        BY <1>1, <1>7, <1>8, <3>0, <4>1
      <4>2. CASE n # m
        <5>1. n + 1 \in 1..m
          BY <1>1, <4>2
        <5> QED BY <1>8, <1>9, <3>0, <4>2, <5>1
      <4> QED BY <4>1, <4>2, Zenon
    <3>3. CASE l = n
      <4>1. to[l] = n + 1
        BY <1>1, <1>10, <3>3, Zenon
      <4>2. slab'[o[l]].prev = IF n = 1 THEN Nil ELSE ord[n - 1]
        BY <1>8, <3>1, <3>2, <4>1, Zenon
      <4>3. n # 1 => l - 1 \in 1..(m - 1) /\ l - 1 < n /\ l - 1 = n - 1
        BY <1>1, <3>3
      <4>4. n # 1 => o[l - 1] = ord[n - 1]
        BY <1>10, <4>3, Zenon
      <4> QED BY <3>3, <4>2, <4>4, Zenon
    <3>4. CASE l # n
      <4>1. to[l] # n + 1
        BY <1>1, <1>10, <3>4
      <4>2. slab'[o[l]].prev = IF to[l] = 1 THEN Nil ELSE ord[to[l] - 1]
        BY <1>7, <3>0, <3>1, <3>2, <4>1, Zenon
      <4>3. to[l] = 1 <=> l = 1
        BY <1>1, <1>10, <3>4
      <4>4. l # 1 => l - 1 \in 1..(m - 1) /\ to[l - 1] = to[l] - 1
        BY <1>1, <1>10, <3>4
      <4> QED BY <1>10, <4>2, <4>3, <4>4, Zenon
    <3> QED BY <3>3, <3>4, Zenon
  <2> QED BY <1>4, <1>12, <2>2, <2>3, <2>4, <2>5, <2>6, <2>7, Zenon DEF Chain, Live, Nil
<1>14. Chained'
  <2>1. len' = m - 1
    BY <1>1, <1>4, Zenon
  <2> QED BY <1>4, <1>10, <1>13, <2>1, Zenon DEF Chained
<1>15. Keyed'
  <2> SUFFICES ASSUME NEW i \in 1..size, slab'[i].live
               PROVE  /\ [hash |-> Hash[slab'[i].key], i |-> i] \in table'
                      /\ \A j \in 1..size : slab'[j].live /\ slab'[j].key = slab'[i].key => j = i
    BY <1>4, Zenon DEF Keyed
  <2>1. \A j \in 1..size : slab'[j].live => j # at /\ slab[j].live /\ slab'[j].key = slab[j].key
    BY <1>5, <1>6, Zenon
  <2> QED BY <1>4, <2>1 DEF OrderInv, Keyed
<1>16. iter' = Entries(m - 1, o)'
  <2>1. o \in [1..(m - 1) -> 1..size']
    BY <1>4, <1>10, Zenon
  <2> QED BY <1>10, <1>13, <2>1, IteratesNext, Zenon DEF MapInv
<1>17. iter' = [l \in 1..(m - 1) |-> [k |-> slab'[o[l]].key, v |-> slab'[o[l]].value]]
  BY <1>16, Zenon DEF Entries, Entry
<1>18. \A l \in 1..(m - 1) : iter'[l] = iter[to[l]]
  <2> SUFFICES ASSUME NEW l \in 1..(m - 1) PROVE iter'[l] = iter[to[l]]
    BY Zenon
  <2>1. to[l] \in 1..m /\ o[l] = ord[to[l]]
    BY <1>10, Zenon
  <2>2. slab'[o[l]].key = iter[to[l]].k /\ slab'[o[l]].value = iter[to[l]].v
    <3>1. iter[to[l]].k = slab[o[l]].key /\ iter[to[l]].v = slab[o[l]].value
      BY <1>1, <2>1, Zenon
    <3> QED BY <1>12, <3>1, Zenon
  <2>3. iter[to[l]] \in [k : Keys, v : Values \cup {Nil}]
    BY <1>1, <2>1, Zenon
  <2>4. iter'[l] = [k |-> slab'[o[l]].key, v |-> slab'[o[l]].value]
    BY <1>17, Zenon
  <2> QED BY <2>2, <2>3, <2>4, Zenon
<1>19. iter' = Order!Without(n)
  <2>1. Len(iter) = m /\ iter \in Seq([k : Keys, v : Values \cup {Nil}])
    BY <1>1, AbstractPosition, Zenon
  <2>2. Order!Without(n) = [l \in 1..(m - 1) |-> IF l < n THEN iter[l] ELSE iter[l + 1]]
    BY <2>1, Zenon DEF Order!Without
  <2>3. \A l \in 1..(m - 1) : iter[to[l]] = IF l < n THEN iter[l] ELSE iter[l + 1]
    BY <1>10, Zenon
  <2>4. iter' = [l \in 1..(m - 1) |-> iter'[l]]
    BY <1>17, Zenon
  <2> QED BY <1>18, <2>2, <2>3, <2>4, Zenon
<1>20. Order!Delete(k)
  <2>1. n # 0
    BY <1>1
  <2> QED BY <1>2, <1>3, <1>4, <1>19, <2>1, Zenon DEF Order!Delete
<1> QED BY <1>14, <1>15, <1>20, Zenon

\* A lookup, and a step of others, leaves the list alone.
LEMMA SameOrder ==
  ASSUME OrderInv, MapInv', UNCHANGED <<slab, size, table, head, tail, len>>
  PROVE  Chained' /\ Keyed' /\ iter' = iter
<1>0. PICK m, ord : List(m, ord)
  BY Listed, Zenon
<1>1. m \in Nat /\ ord \in [1..m -> 1..size] /\ len = m /\ Chain(m, ord) /\ iter = Entries(m, ord)
  BY <1>0, Zenon DEF List
<1>2. Chain(m, ord)' /\ ord \in [1..m -> 1..size'] /\ len' = m
  BY <1>1, Zenon DEF Chain, Live
<1>3. Chained'
  BY <1>1, <1>2, Zenon DEF Chained
<1>4. Keyed'
  BY Zenon DEF OrderInv, Keyed
<1>5. iter' = Entries(m, ord)'
  BY <1>1, <1>2, IteratesNext, Zenon DEF MapInv
<1>6. Entries(m, ord)' = Entries(m, ord)
  BY Zenon DEF Entries, Entry
<1> QED BY <1>1, <1>3, <1>4, <1>5, <1>6, Zenon

\* An empty map has the empty list.
Empty == size = 0 /\ head = Nil /\ tail = Nil /\ len = 0
LEMMA EmptyOrder == MapTypeOK /\ Empty => Chained /\ Keyed /\ iter = <<>>
<1> SUFFICES ASSUME MapTypeOK, Empty PROVE Chained /\ Keyed /\ iter = <<>>
  BY Zenon
<1> PICK ord : ord = [n \in 1..0 |-> 1]
  BY Zenon
<1>1. ord \in [1..0 -> 1..size] /\ 0 \in Nat /\ 1..0 = {} /\ 1..size = {}
  BY DEF Empty
<1>2. Chain(0, ord)
  BY <1>1, Zenon DEF Chain, Empty
<1>3. Chained
  BY <1>1, <1>2, Zenon DEF Chained, Empty
<1>4. Keyed
  BY <1>1, Zenon DEF Keyed
<1>5. iter = Entries(0, ord)
  BY <1>1, <1>2, Iterates, Zenon
<1>6. iter = <<>>
  BY <1>1, <1>5 DEF Entries
<1> QED BY <1>3, <1>4, <1>6, Zenon

LEMMA EmptyOrderNext == (MapTypeOK /\ Empty => Chained /\ Keyed /\ iter = <<>>)'
BY EmptyOrder, PTL

\* A new map is an empty list.
LEMMA InitOrder == MapInit => OrderInv /\ Order!Init
<1> SUFFICES ASSUME MapInit PROVE OrderInv /\ Order!Init
  BY Zenon
<1>1. MapInv
  BY InitHolds, Zenon
<1>2. MapTypeOK /\ Empty
  BY <1>1, Zenon DEF MapInv, MapInit, Empty
<1>3. Chained /\ Keyed /\ iter = <<>>
  BY <1>2, EmptyOrder, Zenon
<1> QED BY <1>1, <1>3, Zenon DEF OrderInv, Order!Init, MapInit

\* Every operation keeps the list, and is the operation of that name on it.
LEMMA NextOrder == OrderInv /\ [MapNext]_mapVars => OrderInv' /\ [Order!Next]_(Order!vars)
<1> SUFFICES ASSUME OrderInv, [MapNext]_mapVars PROVE OrderInv' /\ [Order!Next]_(Order!vars)
  BY Zenon
<1>0. MapInv'
  BY NextKeeps, Zenon DEF OrderInv
<1>1. ASSUME NEW k \in Keys, get(k) PROVE Chained' /\ Keyed' /\ Order!Get(k)
  <2>0. UNCHANGED <<slab, size, table, head, tail, len>>
    BY <1>1, Zenon DEF get
  <2>1. Chained' /\ Keyed' /\ iter' = iter
    BY <1>0, <2>0, SameOrder, Zenon
  <2>2. PICK m, ord : List(m, ord)
    BY Listed, Zenon
  <2>3. CASE index_of(k) = Nil
    BY <1>1, <2>1, <2>2, <2>3, Absent, Zenon DEF get, Order!Get
  <2>4. CASE index_of(k) # Nil
    BY <1>1, <2>1, <2>2, <2>4, Present, Zenon DEF get, Order!Get
  <2> QED BY <2>1, <2>3, <2>4, Zenon
<1>2. ASSUME NEW k \in Keys, Missing(k) PROVE Chained' /\ Keyed' /\ Order!Delete(k)
  <2>0. UNCHANGED <<slab, size, table, head, tail, len>> /\ index_of(k) = Nil /\ out' = <<"remove", k, Nil>>
    BY <1>2, Zenon DEF Missing
  <2>1. Chained' /\ Keyed' /\ iter' = iter
    BY <1>0, <2>0, SameOrder, Zenon
  <2>2. PICK m, ord : List(m, ord)
    BY Listed, Zenon
  <2>3. Order!At(k) = 0 /\ Order!Value(k) = Nil
    BY <2>0, <2>2, Absent, Zenon
  <2> QED BY <2>0, <2>1, <2>3, Zenon DEF Order!Delete
<1>3. ASSUME NEW k \in Keys, NEW v \in Values, insert(k, v)
      PROVE  Chained' /\ Keyed' /\ Order!Insert(k, v)
  BY <1>0, <1>3, ReplaceOrder, AddOrder, Zenon DEF insert
<1>4. ASSUME NEW k \in Keys, Take(k) PROVE Chained' /\ Keyed' /\ Order!Delete(k)
  BY <1>0, <1>4, TakeOrder, Zenon
<1>5. CASE clear
  <2>1. MapTypeOK' /\ Empty'
    BY <1>0, <1>5, Zenon DEF MapInv, clear, Empty, Nil
  <2>2. Chained' /\ Keyed' /\ iter' = <<>>
    BY <2>1, EmptyOrderNext, Zenon
  <2>3. Order!Clear
    BY <1>5, <2>2, Zenon DEF clear, Order!Clear
  <2> QED BY <1>0, <2>2, <2>3, Zenon DEF OrderInv, Order!Next
<1>6. CASE UNCHANGED mapVars
  <2>1. UNCHANGED <<slab, size, table, head, tail, len>> /\ out' = out
    BY <1>6, Zenon DEF mapVars
  <2>2. Chained' /\ Keyed' /\ iter' = iter
    BY <1>0, <2>1, SameOrder, Zenon
  <2> QED BY <1>0, <2>1, <2>2, Zenon DEF OrderInv, Order!vars
<1>7. ASSUME NEW k \in Keys, get(k) \/ remove(k) \/ \E v \in Values : insert(k, v)
      PROVE  OrderInv' /\ Order!Next
  <2>1. /\ Chained' /\ Keyed'
        /\ Order!Delete(k) \/ Order!Get(k) \/ \E v \in Values : Order!Insert(k, v)
    BY <1>1, <1>2, <1>3, <1>4, <1>7, Zenon DEF remove
  <2> QED BY <1>0, <2>1, Zenon DEF OrderInv, Order!Next
<1> QED BY <1>5, <1>6, <1>7, Zenon DEF MapNext

\* The list of the links survives any operations on any keys, with any hashes.
THEOREM OrderInductive == MapSpec => []OrderInv
BY InitOrder, NextOrder, PTL DEF MapSpec

\* Every index a map stores is good, after any operations on any keys: entry_at, insert
\* and remove never meet the slots their debug assertions rule out, alloc_slot never meets
\* a free list that names a live slot, and len is the number of entries an iterator visits.
THEOREM SlabSound == MapSpec => []IndicesLive
<1>1. OrderInv => IndicesLive
  <2> SUFFICES ASSUME OrderInv PROVE IndicesLive
    BY Zenon
  <2>1. PICK m, ord : List(m, ord)
    BY Listed, Zenon
  <2>2. m \in Nat /\ len = m /\ iter \in [1..m -> [k : Keys, v : Values \cup {Nil}]]
    BY <2>1, Zenon DEF List
  <2>3. iter \in Seq([k : Keys, v : Values \cup {Nil}]) /\ Len(iter) = m
    BY <2>2, Lists, Zenon
  <2> QED BY <2>2, <2>3, Zenon DEF OrderInv, MapInv, Ends, Before, Behind, Table, Holes, IndicesLive
<1> QED
  BY <1>1, OrderInductive, PTL

\* The slab with its table and its links is the insertion-ordered map of InsertionOrder:
\* every get, insert, remove and clear answers and changes the iterated entries as that
\* map does, for any keys, values and hashes, colliding ones included.
THEOREM MapImplementsOrder == MapSpec => ImplementsOrder
BY InitOrder, NextOrder, OrderInductive, PTL DEF MapSpec, ImplementsOrder, Order!Spec

-----------------------------------------------------------------------------
(***************************************************************************)
(* Semaphores, once cells, barriers, cancellation tokens and native locks  *)
(* are sound for any number of threads and handles.  Handles and held      *)
(* guards are counted as a set of pairs, so that a copy or a lock adds an  *)
(* element and a drop or an unlock takes one away.                         *)
(***************************************************************************)
-----------------------------------------------------------------------------
(* Things that are counted, as a set: h[t] of them belong to t. *)
Pairs(S, h) == {p \in S \X Nat : p[2] \in 1..h[p[1]]}

Grows(S, h, t, g) ==
  h \in [S -> Nat] /\ IsFiniteSet(Pairs(S, h)) /\ t \in S /\ g = [h EXCEPT ![t] = @ + 1]

Shrinks(S, h, t, g) ==
  /\ h \in [S -> Nat] /\ IsFiniteSet(Pairs(S, h)) /\ t \in S /\ h[t] > 0
  /\ g = [h EXCEPT ![t] = @ - 1]

LEMMA PairsOf ==
  ASSUME NEW S, NEW h \in [S -> Nat]
  PROVE  /\ \A t \in S, i \in Nat : <<t, i>> \in Pairs(S, h) <=> 1 <= i /\ i <= h[t]
         /\ Pairs(S, h) \subseteq S \X Nat
BY DEF Pairs

(* One thing more. *)
LEMMA OneMore ==
  ASSUME NEW S, NEW h, NEW t, NEW g, Grows(S, h, t, g)
  PROVE  /\ g \in [S -> Nat] /\ IsFiniteSet(Pairs(S, g))
         /\ Cardinality(Pairs(S, g)) = Cardinality(Pairs(S, h)) + 1
<1>0. /\ h \in [S -> Nat] /\ IsFiniteSet(Pairs(S, h)) /\ t \in S
      /\ g = [h EXCEPT ![t] = @ + 1]
  BY Zenon DEF Grows
<1>1. g \in [S -> Nat] /\ h[t] \in Nat /\ h[t] + 1 \in Nat
  BY <1>0
<1>2. Pairs(S, g) = Pairs(S, h) \cup {<<t, h[t] + 1>>}
  <2>1. ASSUME NEW u \in S, NEW i \in Nat
        PROVE  <<u, i>> \in Pairs(S, g) <=> <<u, i>> \in Pairs(S, h) \/ (u = t /\ i = h[t] + 1)
    <3>1. g[u] = IF u = t THEN h[t] + 1 ELSE h[u]
      BY <1>0, Zenon
    <3>2. <<u, i>> \in Pairs(S, h) <=> 1 <= i /\ i <= h[u]
      BY <1>0 DEF Pairs
    <3>3. <<u, i>> \in Pairs(S, g) <=> 1 <= i /\ i <= g[u]
      BY <1>1 DEF Pairs
    <3> QED BY <1>1, <3>1, <3>2, <3>3
  <2>2. Pairs(S, g) \subseteq S \X Nat /\ Pairs(S, h) \subseteq S \X Nat
    BY <1>0, <1>1, PairsOf, Zenon
  <2>3. ASSUME NEW p PROVE p \in Pairs(S, g) <=> p \in Pairs(S, h) \/ p = <<t, h[t] + 1>>
    <3>1. CASE p \in S \X Nat
      <4>1. PICK u \in S, i \in Nat : p = <<u, i>>
        BY <3>1
      <4> QED BY <2>1, <4>1, Zenon
    <3>2. CASE p \notin S \X Nat
      <4>1. <<t, h[t] + 1>> \in S \X Nat
        BY <1>0, <1>1, Zenon
      <4> QED BY <2>2, <3>2, <4>1, Zenon
    <3> QED BY <3>1, <3>2, Zenon
  <2> QED BY <2>3, Zenon
<1>3. <<t, h[t] + 1>> \notin Pairs(S, h)
  BY <1>0, <1>1, PairsOf
<1>4. /\ IsFiniteSet(Pairs(S, h) \cup {<<t, h[t] + 1>>})
      /\ Cardinality(Pairs(S, h) \cup {<<t, h[t] + 1>>}) = Cardinality(Pairs(S, h)) + 1
  BY <1>0, <1>3, FS_AddElement, Zenon
<1> QED BY <1>1, <1>2, <1>4, Zenon

(* One thing less. *)
LEMMA OneLess ==
  ASSUME NEW S, NEW h, NEW t, NEW g, Shrinks(S, h, t, g)
  PROVE  /\ g \in [S -> Nat] /\ IsFiniteSet(Pairs(S, g))
         /\ Cardinality(Pairs(S, g)) = Cardinality(Pairs(S, h)) - 1
<1>0. /\ h \in [S -> Nat] /\ IsFiniteSet(Pairs(S, h)) /\ t \in S /\ h[t] > 0
      /\ g = [h EXCEPT ![t] = @ - 1]
  BY Zenon DEF Shrinks
<1>1. g \in [S -> Nat] /\ h[t] \in Nat
  BY <1>0
<1>2. Pairs(S, g) = Pairs(S, h) \ {<<t, h[t]>>}
  <2>1. ASSUME NEW u \in S, NEW i \in Nat
        PROVE  <<u, i>> \in Pairs(S, g) <=> <<u, i>> \in Pairs(S, h) /\ ~(u = t /\ i = h[t])
    <3>1. g[u] = IF u = t THEN h[t] - 1 ELSE h[u]
      BY <1>0, Zenon
    <3>2. <<u, i>> \in Pairs(S, h) <=> 1 <= i /\ i <= h[u]
      BY <1>0 DEF Pairs
    <3>3. <<u, i>> \in Pairs(S, g) <=> 1 <= i /\ i <= g[u]
      BY <1>1 DEF Pairs
    <3> QED BY <1>1, <3>1, <3>2, <3>3
  <2>2. Pairs(S, g) \subseteq S \X Nat /\ Pairs(S, h) \subseteq S \X Nat
    BY <1>0, <1>1, PairsOf, Zenon
  <2>3. ASSUME NEW p PROVE p \in Pairs(S, g) <=> p \in Pairs(S, h) /\ p # <<t, h[t]>>
    <3>1. CASE p \in S \X Nat
      <4>1. PICK u \in S, i \in Nat : p = <<u, i>>
        BY <3>1
      <4> QED BY <2>1, <4>1, Zenon
    <3>2. CASE p \notin S \X Nat
      BY <2>2, <3>2, Zenon
    <3> QED BY <3>1, <3>2, Zenon
  <2> QED BY <2>3, Zenon
<1>3. <<t, h[t]>> \in Pairs(S, h)
  BY <1>0, <1>1, PairsOf
<1>4. /\ IsFiniteSet(Pairs(S, h) \ {<<t, h[t]>>})
      /\ Cardinality(Pairs(S, h) \ {<<t, h[t]>>}) = Cardinality(Pairs(S, h)) - 1
  BY <1>0, <1>3, FS_RemoveElement, Zenon
<1> QED BY <1>1, <1>2, <1>4, Zenon

-----------------------------------------------------------------------------
(* Gates. *)

HandleInv ==
  /\ held \in [Sharers -> Nat] /\ names \in Nat /\ reg \in BOOLEAN
  /\ IsFiniteSet(Pairs(Sharers, held))
  /\ IF reg THEN names > 0 /\ names = Cardinality(Pairs(Sharers, held)) ELSE Pairs(Sharers, held) = {}
  /\ \A t \in Sharers : doing[t] = "copy" => held[t] > 0

(* Who is in a call of a kind of object has an object of that kind. *)
CallsOf(l) ==
  IF l \in {"acquire", "timed", "expired"} THEN {"semaphore"}
  ELSE IF l \in {"once", "callback"} THEN {"once"}
  ELSE IF l = "barrier" THEN {"barrier"} ELSE {kind}

Stages == {"idle", "copy", "acquire", "timed", "expired", "once", "callback", "barrier"}

RestInv ==
  /\ kind \in Kinds /\ doing \in [Sharers -> Stages]
  /\ max \in 0..MaxPermits /\ permits \in 0..max
  /\ asleep \subseteq Sharers /\ awake \subseteq Sharers /\ asleep \cap awake = {}
  /\ status \in {"pending", "running", "complete"} /\ runs \in Nat /\ passed \subseteq Sharers
  /\ arrived \subseteq Sharers /\ token \in BOOLEAN
  /\ value \in 0 .. Modulus - 1
  /\ \A t \in Sharers : kind \in CallsOf(doing[t])

GateInv == HandleInv /\ RestInv /\ NoPermitIdle /\ OnceSound

-----------------------------------------------------------------------------
(* Handles. *)

(* Every handle finds the entry, and the entry goes with the last one. *)
LEMMA HandlesFound == HandleInv => HandlesFindEntry
<1> SUFFICES ASSUME HandleInv PROVE HandlesFindEntry
  BY Zenon
<1>1. CASE reg
  <2>1. Pairs(Sharers, held) # {}
    BY <1>1, FS_EmptySet DEF HandleInv
  <2>2. PICK p \in Sharers \X Nat : p[2] \in 1..held[p[1]]
    BY <2>1, Zenon DEF Pairs
  <2>3. p[1] \in Sharers /\ held[p[1]] > 0
    BY <2>2 DEF HandleInv
  <2> QED BY <1>1, <2>3, Zenon DEF HandlesFindEntry
<1>2. CASE ~reg
  <2>1. ASSUME NEW t \in Sharers, held[t] > 0 PROVE FALSE
    <3>1. <<t, 1>> \in Pairs(Sharers, held)
      BY <2>1, PairsOf DEF HandleInv
    <3> QED BY <1>2, <3>1, Zenon DEF HandleInv
  <2> QED BY <1>2, <2>1, Zenon DEF HandlesFindEntry
<1> QED BY <1>1, <1>2, Zenon DEF HandleInv

(* A thread that owns a handle finds the entry. *)
LEMMA HolderFinds ==
  ASSUME HandleInv, NEW t \in Sharers, held[t] > 0
  PROVE  reg /\ names = Cardinality(Pairs(Sharers, held)) /\ names > 0
BY HandlesFound, Zenon DEF HandlesFindEntry, HandleInv

(* Steps that leave the handles alone and begin no copy. *)
LEMMA HandlesSame ==
  ASSUME HandleInv, UNCHANGED handleVars, \A t \in Sharers : doing'[t] = "copy" => doing[t] = "copy"
  PROVE  HandleInv'
<1>1. held' = held /\ names' = names /\ reg' = reg
  BY Zenon DEF handleVars
<1>2. Pairs(Sharers, held)' = Pairs(Sharers, held)
  BY <1>1, Zenon DEF Pairs
<1> QED BY <1>1, <1>2, Zenon DEF HandleInv

(* Copies, drops and gifts. *)
LEMMA HandleSteps ==
  ASSUME GateInv, NEW t \in Sharers, HandleStep(t)
  PROVE  GateInv'
<1>0. HandleInv /\ RestInv /\ doing \in [Sharers -> Stages]
  BY Zenon DEF GateInv, RestInv
<1>1. UNCHANGED <<kind, max, permits, waitVars, onceVars, arrived, token, value>>
  BY Zenon DEF HandleStep, CopyFind, CopyCount, DropGate, Give
<1>2. CASE CopyFind(t)
  <2>1. /\ doing[t] = "idle" /\ held[t] > 0 /\ UNCHANGED handleVars
        /\ doing' = [doing EXCEPT ![t] = "copy"] \/ doing' = doing
    BY <1>2, Zenon DEF CopyFind, Becomes
  <2>2. doing' \in [Sharers -> Stages] /\ \A u \in Sharers : doing'[u] = doing[u] \/ (u = t /\ doing'[u] = "copy")
    BY <1>0, <2>1, Zenon DEF Stages
  <2>3. HandleInv'
    <3>1. held' = held /\ names' = names /\ reg' = reg
      BY <2>1, Zenon DEF handleVars
    <3>2. Pairs(Sharers, held)' = Pairs(Sharers, held)
      BY <3>1, Zenon DEF Pairs
    <3> QED BY <1>0, <2>1, <2>2, <3>1, <3>2, Zenon DEF HandleInv
  <2>4. RestInv' /\ NoPermitIdle' /\ OnceSound'
    BY <1>1, <2>1, <2>2, Zenon DEF GateInv, RestInv, CallsOf, NoPermitIdle, OnceSound, waitVars, onceVars
  <2> QED BY <2>3, <2>4, Zenon DEF GateInv
<1>3. CASE CopyCount(t)
  <2>1. /\ doing[t] = "copy" /\ names' = names + 1 /\ reg' = reg
        /\ held' = [held EXCEPT ![t] = @ + 1] /\ doing' = [doing EXCEPT ![t] = "idle"]
    BY <1>3, Zenon DEF CopyCount, Becomes
  <2>2. doing' \in [Sharers -> Stages] /\ \A u \in Sharers : doing'[u] = doing[u] \/ (u = t /\ doing'[u] = "idle")
    BY <1>0, <2>1, Zenon DEF Stages
  <2>3. HandleInv'
    <3>1. reg /\ names = Cardinality(Pairs(Sharers, held)) /\ names > 0
      BY <1>0, <2>1, HolderFinds, Zenon DEF HandleInv
    <3>2. /\ held' \in [Sharers -> Nat] /\ IsFiniteSet(Pairs(Sharers, held'))
          /\ Cardinality(Pairs(Sharers, held')) = Cardinality(Pairs(Sharers, held)) + 1
      <4>1. Grows(Sharers, held, t, held')
        BY <1>0, <2>1, Zenon DEF HandleInv, Grows
      <4> QED BY <4>1, OneMore, Zenon
    <3>3. \A u \in Sharers : doing'[u] = "copy" => held'[u] > 0
      BY <1>0, <2>1, Zenon DEF HandleInv
    <3>4. Pairs(Sharers, held)' = Pairs(Sharers, held')
      BY Zenon DEF Pairs
    <3> QED BY <1>0, <2>1, <3>1, <3>2, <3>3, <3>4 DEF HandleInv
  <2>4. RestInv' /\ NoPermitIdle' /\ OnceSound'
    BY <1>1, <2>1, <2>2 DEF GateInv, RestInv, CallsOf, NoPermitIdle, OnceSound, waitVars, onceVars
  <2> QED BY <2>3, <2>4, Zenon DEF GateInv
<1>4. CASE DropGate(t)
  <2>1. /\ doing[t] = "idle" /\ held[t] > 0 /\ doing' = doing /\ held' = [held EXCEPT ![t] = @ - 1]
        /\ names' = (IF reg THEN names - 1 ELSE names) /\ reg' = (reg /\ names > 1)
    BY <1>4, Zenon DEF DropGate
  <2>2. HandleInv'
    <3>1. reg /\ names = Cardinality(Pairs(Sharers, held)) /\ names > 0
      BY <1>0, <2>1, HolderFinds, Zenon
    <3>2. /\ held' \in [Sharers -> Nat] /\ IsFiniteSet(Pairs(Sharers, held'))
          /\ Cardinality(Pairs(Sharers, held')) = Cardinality(Pairs(Sharers, held)) - 1
      <4>1. Shrinks(Sharers, held, t, held')
        BY <1>0, <2>1, Zenon DEF HandleInv, Shrinks
      <4> QED BY <4>1, OneLess, Zenon
    <3>3. \A u \in Sharers : doing'[u] = "copy" => held'[u] > 0
      BY <1>0, <2>1, Zenon DEF HandleInv
    <3>4. Pairs(Sharers, held)' = Pairs(Sharers, held')
      BY Zenon DEF Pairs
    <3>5. ~reg' => Pairs(Sharers, held') = {}
      <4>1. reg \in BOOLEAN /\ names \in Nat
        BY <1>0, Zenon DEF HandleInv
      <4>0. ~reg' => ~(names > 1)
        BY <2>1, <3>1, Zenon
      <4>2. ~reg' => names = 1
        BY <3>1, <4>0, <4>1
      <4>3. ~reg' => Cardinality(Pairs(Sharers, held')) = 0
        BY <3>1, <3>2, <4>2
      <4>4. Cardinality(Pairs(Sharers, held')) = 0 <=> Pairs(Sharers, held') = {}
        BY <3>2, FS_EmptySet, Zenon
      <4> QED BY <4>3, <4>4, Zenon
    <3>6. reg' \in BOOLEAN /\ (reg' => names > 1)
      BY <2>1, Zenon
    <3>7. names' \in Nat /\ (reg' => names' > 0 /\ names' = Cardinality(Pairs(Sharers, held')))
      BY <1>0, <2>1, <3>1, <3>2, <3>6 DEF HandleInv
    <3> QED BY <3>2, <3>3, <3>4, <3>5, <3>6, <3>7, Zenon DEF HandleInv
  <2>3. RestInv' /\ NoPermitIdle' /\ OnceSound'
    BY <1>1, <2>1, Zenon DEF GateInv, RestInv, CallsOf, NoPermitIdle, OnceSound, waitVars, onceVars
  <2> QED BY <2>2, <2>3, Zenon DEF GateInv
<1>5. ASSUME NEW u \in Sharers, Give(t, u) PROVE GateInv'
  <2>1. /\ doing[t] = "idle" /\ held[t] > 0 /\ t # u /\ doing' = doing /\ names' = names /\ reg' = reg
        /\ held' = [held EXCEPT ![t] = @ - 1, ![u] = @ + 1]
    BY <1>5, Zenon DEF Give
  <2>2. HandleInv'
    <3>1. reg /\ names = Cardinality(Pairs(Sharers, held)) /\ names > 0
      BY <1>0, <2>1, HolderFinds, Zenon
    <3>0. PICK g : g = [held EXCEPT ![t] = @ - 1]
      BY Zenon
    <3>2. /\ g \in [Sharers -> Nat] /\ IsFiniteSet(Pairs(Sharers, g))
          /\ Cardinality(Pairs(Sharers, g)) = Cardinality(Pairs(Sharers, held)) - 1
      <4>1. Shrinks(Sharers, held, t, g)
        BY <1>0, <2>1, <3>0, Zenon DEF HandleInv, Shrinks
      <4> QED BY <4>1, OneLess, Zenon
    <3>3. held' = [g EXCEPT ![u] = @ + 1]
      BY <1>0, <2>1, <3>0, Zenon DEF HandleInv
    <3>4. /\ held' \in [Sharers -> Nat] /\ IsFiniteSet(Pairs(Sharers, held'))
          /\ Cardinality(Pairs(Sharers, held')) = Cardinality(Pairs(Sharers, g)) + 1
      <4>1. Grows(Sharers, g, u, held')
        BY <3>2, <3>3, Zenon DEF Grows
      <4> QED BY <4>1, OneMore, Zenon
    <3>5. \A w \in Sharers : doing'[w] = "copy" => held'[w] > 0
      BY <1>0, <2>1 DEF HandleInv
    <3>6. Pairs(Sharers, held)' = Pairs(Sharers, held')
      BY Zenon DEF Pairs
    <3>7. Cardinality(Pairs(Sharers, held')) = Cardinality(Pairs(Sharers, held))
      BY <1>0, <3>1, <3>2, <3>4 DEF HandleInv
    <3> QED BY <1>0, <2>1, <3>1, <3>4, <3>5, <3>6, <3>7, Zenon DEF HandleInv
  <2>3. RestInv' /\ NoPermitIdle' /\ OnceSound'
    BY <1>1, <2>1, Zenon DEF GateInv, RestInv, CallsOf, NoPermitIdle, OnceSound, waitVars, onceVars
  <2> QED BY <2>2, <2>3, Zenon DEF GateInv
<1> QED BY <1>2, <1>3, <1>4, <1>5, Zenon DEF HandleStep

-----------------------------------------------------------------------------
(* Semaphores. *)

LEMMA WakeCount ==
  ASSUME NEW A, A \subseteq Sharers, NEW t \in Sharers
  PROVE  /\ Cardinality(A) \in Nat
         /\ Cardinality(A \ {t}) \in Nat /\ Cardinality(A \ {t}) >= Cardinality(A) - 1
         /\ Cardinality(A \cup {t}) \in Nat /\ Cardinality(A \cup {t}) >= Cardinality(A)
         /\ t \notin A => Cardinality(A \cup {t}) = Cardinality(A) + 1
<1>1. IsFiniteSet(A)
  BY GateAssumption, FS_Subset, Zenon
<1>2. Cardinality(A) \in Nat
  BY <1>1, FS_CardinalityType, Zenon
<1>3. Cardinality(A \ {t}) = IF t \in A THEN Cardinality(A) - 1 ELSE Cardinality(A)
  BY <1>1, FS_RemoveElement, Zenon
<1>4. IsFiniteSet(A \ {t}) /\ IsFiniteSet(A \cup {t})
  BY <1>1, FS_RemoveElement, FS_AddElement, Zenon
<1>5. Cardinality(A \cup {t}) = IF t \in A THEN Cardinality(A) ELSE Cardinality(A) + 1
  BY <1>1, FS_AddElement, Zenon
<1>6. Cardinality(A \ {t}) \in Nat
  BY <1>4, FS_CardinalityType, Zenon
<1> QED BY <1>2, <1>3, <1>5, <1>6

(* What a step of a semaphore may do. *)
SemEffect(t) ==
  /\ kind = "semaphore" /\ SemRest
  /\ doing' \in [Sharers -> Stages]
  /\ \A u \in Sharers : \/ doing'[u] = doing[u]
                        \/ u = t /\ doing'[u] \in {"idle", "acquire", "timed", "expired"}
  /\ permits' \in 0..max
  /\ asleep' \subseteq Sharers /\ awake' \subseteq Sharers /\ asleep' \cap awake' = {}
  /\ asleep' # {} => permits' <= Cardinality(awake')

LEMMA TakesOrSleeps ==
  ASSUME GateInv, NEW t \in Sharers, NEW l \in {"acquire", "timed"}, kind = "semaphore",
         TakeOrSleep(t, l), SemRest
  PROVE  SemEffect(t)
<1>0. /\ doing \in [Sharers -> Stages] /\ max \in Nat /\ permits \in 0..max
      /\ asleep \subseteq Sharers /\ awake \subseteq Sharers /\ asleep \cap awake = {}
      /\ asleep # {} => permits <= Cardinality(awake)
  BY GateAssumption DEF GateInv, RestInv, NoPermitIdle
<1>1. /\ Cardinality(awake) \in Nat /\ Cardinality(awake \ {t}) \in Nat
      /\ Cardinality(awake \ {t}) >= Cardinality(awake) - 1
  BY <1>0, WakeCount, Zenon
<1>2. CASE /\ permits > 0 /\ permits' = permits - 1 /\ awake' = awake \ {t}
           /\ doing' = [doing EXCEPT ![t] = "idle"] /\ asleep' = asleep
  <2>1. asleep' # {} => permits' <= Cardinality(awake')
    BY <1>0, <1>1, <1>2
  <2>2. /\ doing' \in [Sharers -> Stages]
        /\ \A u \in Sharers : doing'[u] = doing[u] \/ (u = t /\ doing'[u] = "idle")
    BY <1>0, <1>2, Zenon DEF Stages
  <2> QED BY <1>0, <1>2, <2>1, <2>2 DEF SemEffect
<1>3. CASE /\ permits = 0 /\ asleep' = asleep \cup {t} /\ awake' = awake \ {t}
           /\ doing' = [doing EXCEPT ![t] = l] /\ permits' = permits
  <2>1. permits' <= Cardinality(awake')
    BY <1>1, <1>3
  <2>2. /\ doing' \in [Sharers -> Stages]
        /\ \A u \in Sharers : doing'[u] = doing[u] \/ (u = t /\ doing'[u] = l)
    BY <1>0, <1>3, Zenon DEF Stages
  <2> QED BY <1>0, <1>3, <2>1, <2>2, Zenon DEF SemEffect
<1> QED BY <1>2, <1>3, Zenon DEF TakeOrSleep, Becomes

LEMMA SemSteps ==
  ASSUME GateInv, NEW t \in Sharers, SemStep(t)
  PROVE  SemEffect(t)
<1>0. /\ doing \in [Sharers -> Stages] /\ max \in Nat /\ permits \in 0..max
      /\ asleep \subseteq Sharers /\ awake \subseteq Sharers /\ asleep \cap awake = {}
      /\ kind = "semaphore" /\ asleep # {} => permits <= Cardinality(awake)
      /\ \A u \in Sharers : doing[u] \in {"acquire", "timed", "expired"} => kind = "semaphore"
  BY GateAssumption DEF GateInv, RestInv, NoPermitIdle, CallsOf
<1>1. CASE Acquire(t)
  BY <1>0, <1>1, TakesOrSleeps, Zenon DEF Acquire, CallOn
<1>2. CASE AcquireTimeout(t)
  BY <1>0, <1>2, TakesOrSleeps, Zenon DEF AcquireTimeout, CallOn
<1>3. CASE Expire(t)
  <2>1. /\ doing[t] = "timed" /\ t \in asleep /\ asleep' = asleep \ {t} /\ awake' = awake \cup {t}
        /\ doing' = [doing EXCEPT ![t] = "expired"] /\ permits' = permits /\ SemRest
    BY <1>3, Zenon DEF Expire, Becomes
  <2>2. kind = "semaphore" /\ asleep' # {} => permits' <= Cardinality(awake')
    <3>1. Cardinality(awake \cup {t}) \in Nat /\ Cardinality(awake) \in Nat
          /\ Cardinality(awake \cup {t}) >= Cardinality(awake)
      BY <1>0, WakeCount, Zenon
    <3> QED BY <1>0, <2>1, <3>1
  <2>3. /\ doing' \in [Sharers -> Stages]
        /\ \A u \in Sharers : doing'[u] = doing[u] \/ (u = t /\ doing'[u] = "expired")
    BY <1>0, <2>1, Zenon DEF Stages
  <2>4. asleep' \subseteq Sharers /\ awake' \subseteq Sharers /\ asleep' \cap awake' = {}
    BY <1>0, <2>1, Zenon
  <2> QED BY <1>0, <2>1, <2>2, <2>3, <2>4, Zenon DEF SemEffect
<1>4. CASE Expired(t)
  <2>1. /\ doing[t] \in {"expired", "timed"} /\ awake' = awake \ {t} /\ asleep' = asleep
        /\ permits' = (IF permits = 0 THEN 0 ELSE permits - 1)
        /\ doing' = [doing EXCEPT ![t] = "idle"] /\ SemRest
    BY <1>4, Zenon DEF Expired, Becomes
  <2>2. asleep' # {} => permits' <= Cardinality(awake')
    <3>1. Cardinality(awake \ {t}) \in Nat /\ Cardinality(awake) \in Nat
          /\ Cardinality(awake \ {t}) >= Cardinality(awake) - 1
      BY <1>0, WakeCount, Zenon
    <3> QED BY <1>0, <2>1, <3>1
  <2>3. /\ doing' \in [Sharers -> Stages]
        /\ \A u \in Sharers : doing'[u] = doing[u] \/ (u = t /\ doing'[u] = "idle")
    BY <1>0, <2>1, Zenon DEF Stages
  <2>4. permits' \in 0..max
    BY <1>0, <2>1
  <2> QED BY <1>0, <2>1, <2>2, <2>3, <2>4, Zenon DEF SemEffect
<1>5. CASE TryAcquire(t)
  <2>1. /\ kind = "semaphore" /\ permits > 0 /\ permits' = permits - 1 /\ doing' = doing
        /\ asleep' = asleep /\ awake' = awake /\ SemRest
    BY <1>5, Zenon DEF TryAcquire, CallOn, waitVars
  <2>2. asleep' # {} => permits' <= Cardinality(awake')
    <3>1. Cardinality(awake) \in Nat
      BY <1>0, WakeCount, Zenon
    <3> QED BY <1>0, <2>1, <3>1
  <2> QED BY <1>0, <2>1, <2>2 DEF SemEffect
<1>6. CASE Release(t)
  <2>1. /\ kind = "semaphore" /\ permits # max /\ permits' = permits + 1 /\ doing' = doing
        /\ NotifyOne /\ SemRest
    BY <1>6, Zenon DEF Release, CallOn
  <2>2. CASE asleep = {} /\ asleep' = asleep /\ awake' = awake
    BY <1>0, <2>1, <2>2 DEF SemEffect
  <2>3. CASE \E w \in asleep : asleep' = asleep \ {w} /\ awake' = awake \cup {w}
    <3>1. PICK w \in asleep : asleep' = asleep \ {w} /\ awake' = awake \cup {w}
      BY <2>3, Zenon
    <3>2. w \in Sharers /\ w \notin awake
      BY <1>0, Zenon
    <3>3. Cardinality(awake \cup {w}) = Cardinality(awake) + 1 /\ Cardinality(awake) \in Nat
      BY <1>0, <3>2, WakeCount, Zenon
    <3>4. permits' <= Cardinality(awake')
      BY <1>0, <2>1, <3>1, <3>3
    <3>5. asleep' \subseteq Sharers /\ awake' \subseteq Sharers /\ asleep' \cap awake' = {}
      BY <1>0, <3>1, <3>2, Zenon
    <3> QED BY <1>0, <2>1, <3>4, <3>5 DEF SemEffect
  <2> QED BY <2>1, <2>2, <2>3, Zenon DEF NotifyOne, waitVars
<1> QED BY <1>1, <1>2, <1>3, <1>4, <1>5, <1>6, Zenon DEF SemStep

LEMMA SemKeeps ==
  ASSUME GateInv, NEW t \in Sharers, SemEffect(t)
  PROVE  GateInv'
<1>1. HandleInv'
  BY HandlesSame, Zenon DEF SemEffect, SemRest, GateInv
<1>2. RestInv'
  BY Zenon DEF SemEffect, SemRest, GateInv, RestInv, CallsOf, onceVars
<1>3. NoPermitIdle' /\ OnceSound'
  BY Zenon DEF SemEffect, SemRest, NoPermitIdle, OnceSound
<1> QED BY <1>1, <1>2, <1>3, Zenon DEF GateInv

(* A waiter that wakes for no reason. *)
LEMMA SpuriousKeeps ==
  ASSUME GateInv, NEW t \in Sharers, SpuriousWakeup(t)
  PROVE  GateInv'
<1>0. /\ asleep \subseteq Sharers /\ awake \subseteq Sharers /\ asleep \cap awake = {}
      /\ max \in Nat /\ permits \in 0..max
      /\ kind = "semaphore" /\ asleep # {} => permits <= Cardinality(awake)
  BY GateAssumption DEF GateInv, RestInv, NoPermitIdle
<1>1. /\ t \in asleep /\ asleep' = asleep \ {t} /\ awake' = awake \cup {t} /\ doing' = doing
      /\ permits' = permits /\ kind' = kind /\ max' = max /\ arrived' = arrived /\ token' = token
      /\ value' = value /\ status' = status /\ runs' = runs /\ passed' = passed /\ UNCHANGED handleVars
  BY Zenon DEF SpuriousWakeup, SemRest, onceVars
<1>2. HandleInv'
  BY <1>1, HandlesSame, Zenon DEF GateInv
<1>3. RestInv'
  BY <1>0, <1>1, Zenon DEF GateInv, RestInv, CallsOf
<1>4. NoPermitIdle'
  <2>1. /\ Cardinality(awake \cup {t}) \in Nat /\ Cardinality(awake) \in Nat
        /\ Cardinality(awake \cup {t}) >= Cardinality(awake)
    BY <1>0, WakeCount, Zenon
  <2> QED BY <1>0, <1>1, <2>1 DEF NoPermitIdle
<1>5. OnceSound'
  BY <1>1, Zenon DEF GateInv, OnceSound
<1> QED BY <1>2, <1>3, <1>4, <1>5, Zenon DEF GateInv

-----------------------------------------------------------------------------
(* Once cells. *)
LEMMA OnceKeeps ==
  ASSUME GateInv, NEW t \in Sharers, OnceStep(t)
  PROVE  GateInv'
<1>0. /\ doing \in [Sharers -> Stages] /\ asleep \subseteq Sharers /\ awake \subseteq Sharers
      /\ asleep \cap awake = {} /\ passed \subseteq Sharers /\ runs \in Nat
      /\ \A u \in Sharers : doing[u] \in {"once", "callback"} => kind = "once"
      /\ HandleInv
  BY Zenon DEF GateInv, RestInv, CallsOf
<1>1. /\ kind = "once" /\ kind' = kind /\ max' = max /\ permits' = permits /\ arrived' = arrived
      /\ token' = token /\ value' = value /\ UNCHANGED handleVars
  BY <1>0, Zenon DEF OnceStep, OnceEnter, OnceLeave, OnceRest, CallOn
<1>2. /\ (status = "running") <=> (\E u \in Sharers : doing[u] = "callback")
      /\ \A u, w \in Sharers : doing[u] = "callback" /\ doing[w] = "callback" => u = w
      /\ runs = IF status = "complete" THEN 1 ELSE 0
      /\ passed # {} => status = "complete"
      /\ asleep # {} => status = "running"
  BY <1>1, Zenon DEF GateInv, OnceSound
<1>3. ASSUME doing' \in [Sharers -> Stages],
             \A u \in Sharers : doing'[u] = doing[u] \/ (u = t /\ doing'[u] \in {"idle", "once", "callback"}),
             asleep' \subseteq Sharers, awake' \subseteq Sharers, asleep' \cap awake' = {},
             status' \in {"pending", "running", "complete"}, runs' \in Nat, passed' \subseteq Sharers,
             OnceSound'
      PROVE  GateInv'
  <2>1. HandleInv'
    BY <1>0, <1>1, <1>3, HandlesSame, Zenon
  <2>2. RestInv'
    BY <1>1, <1>3, Zenon DEF GateInv, RestInv, CallsOf
  <2>3. NoPermitIdle'
    BY <1>1, Zenon DEF NoPermitIdle
  <2> QED BY <1>3, <2>1, <2>2, <2>3, Zenon DEF GateInv
<1>4. CASE OnceEnter(t)
  <2>0. runs' = runs /\ (doing[t] = "idle" \/ doing[t] = "once")
    BY <1>4, Zenon DEF OnceEnter, CallOn
  <2>1. CASE /\ status = "complete" /\ passed' = passed \cup {t} /\ awake' = awake \ {t}
             /\ doing' = [doing EXCEPT ![t] = "idle"] /\ status' = status /\ asleep' = asleep
    <3>1. /\ doing' \in [Sharers -> Stages]
          /\ \A u \in Sharers : doing'[u] = IF u = t THEN "idle" ELSE doing[u]
      BY <1>0, <2>1, Zenon DEF Stages
    <3>2. OnceSound'
      BY <1>1, <1>2, <2>0, <2>1, <3>1, Zenon DEF OnceSound
    <3> QED BY <1>0, <1>3, <2>0, <2>1, <3>1, <3>2, Zenon
  <2>2. CASE /\ status = "pending" /\ status' = "running" /\ awake' = awake \ {t}
             /\ doing' = [doing EXCEPT ![t] = "callback"] /\ passed' = passed /\ asleep' = asleep
    <3>1. /\ doing' \in [Sharers -> Stages]
          /\ \A u \in Sharers : doing'[u] = IF u = t THEN "callback" ELSE doing[u]
      BY <1>0, <2>2, Zenon DEF Stages
    <3>2. OnceSound'
      BY <1>1, <1>2, <2>0, <2>2, <3>1, Zenon DEF OnceSound
    <3> QED BY <1>0, <1>3, <2>0, <2>2, <3>1, <3>2, Zenon
  <2>3. CASE /\ status = "running" /\ asleep' = asleep \cup {t} /\ awake' = awake \ {t}
             /\ doing' = [doing EXCEPT ![t] = "once"] /\ status' = status /\ passed' = passed
    <3>1. /\ doing' \in [Sharers -> Stages]
          /\ \A u \in Sharers : doing'[u] = IF u = t THEN "once" ELSE doing[u]
      BY <1>0, <2>3, Zenon DEF Stages
    <3>2. OnceSound'
      BY <1>1, <1>2, <2>0, <2>3, <3>1, Zenon DEF OnceSound
    <3> QED BY <1>0, <1>3, <2>0, <2>3, <3>1, <3>2, Zenon
  <2> QED BY <1>4, <2>1, <2>2, <2>3, Zenon DEF OnceEnter, Becomes
<1>5. CASE OnceLeave(t)
  <2>1. /\ doing[t] = "callback" /\ awake' = awake \cup asleep /\ asleep' = {}
        /\ doing' = [doing EXCEPT ![t] = "idle"]
        /\ \/ status' = "complete" /\ runs' = runs + 1 /\ passed' = passed \cup {t}
           \/ status' = "pending" /\ runs' = runs /\ passed' = passed
    BY <1>5, Zenon DEF OnceLeave, Becomes
  <2>2. /\ doing' \in [Sharers -> Stages]
        /\ \A u \in Sharers : doing'[u] = IF u = t THEN "idle" ELSE doing[u]
    BY <1>0, <2>1, Zenon DEF Stages
  <2>3. status = "running" /\ runs = 0 /\ passed = {}
    BY <1>2, <2>1, Zenon
  <2>4. OnceSound'
    BY <1>1, <1>2, <2>1, <2>2, <2>3 DEF OnceSound
  <2> QED BY <1>0, <1>3, <2>1, <2>2, <2>3, <2>4
<1> QED BY <1>4, <1>5, Zenon DEF OnceStep

-----------------------------------------------------------------------------
(* Barriers, tokens and atomics; nothing waits. *)
LEMMA OthersKeep ==
  ASSUME GateInv, NEW t \in Sharers, BarrierWait(t) \/ CancelToken(t) \/ AtomStep(t)
  PROVE  GateInv'
<1>0. doing \in [Sharers -> Stages] /\ arrived \subseteq Sharers /\ HandleInv
  BY Zenon DEF GateInv, RestInv
<1>1. CASE BarrierWait(t)
  <2>1. /\ kind = "barrier" /\ UNCHANGED <<kind, handleVars, max, permits, waitVars, onceVars, token, value>>
        /\ doing' \in [Sharers -> Stages] /\ arrived' \subseteq Sharers
        /\ \A u \in Sharers : doing'[u] = doing[u] \/ doing'[u] \in {"idle", "barrier"}
    BY <1>0, <1>1 DEF BarrierWait, CallOn, Becomes, Stages
  <2>2. HandleInv'
    BY <1>0, <2>1, HandlesSame, Zenon
  <2>3. RestInv'
    BY <2>1, Zenon DEF GateInv, RestInv, CallsOf, waitVars, onceVars
  <2>4. NoPermitIdle' /\ OnceSound'
    BY <2>1, Zenon DEF NoPermitIdle, OnceSound
  <2> QED BY <2>2, <2>3, <2>4, Zenon DEF GateInv
<1>2. CASE CancelToken(t)
  <2>1. /\ token' = TRUE
        /\ UNCHANGED <<kind, handleVars, doing, max, permits, waitVars, onceVars, arrived, value>>
    BY <1>2, Zenon DEF CancelToken
  <2>2. HandleInv'
    BY <1>0, <2>1, HandlesSame, Zenon
  <2>3. RestInv' /\ NoPermitIdle' /\ OnceSound'
    BY <2>1, Zenon DEF GateInv, RestInv, CallsOf, NoPermitIdle, OnceSound, waitVars, onceVars
  <2> QED BY <2>2, <2>3, Zenon DEF GateInv
<1>3. CASE AtomStep(t)
  <2>1. AtomRest
    BY <1>3, Zenon DEF AtomStep, FetchAdd, Store, CompareExchange
  <2>2. value' \in 0 .. Modulus - 1
    <3>1. \A n \in Nat : n % Modulus \in 0 .. Modulus - 1
      BY GateAssumption
    <3>2. value + 1 \in Nat
      BY GateAssumption DEF GateInv, RestInv
    <3> QED BY <1>3, <3>1, <3>2, Zenon DEF AtomStep, FetchAdd, Store, CompareExchange, GateInv, RestInv
  <2>3. HandleInv'
    BY <1>0, <2>1, HandlesSame, Zenon DEF AtomRest
  <2>4. RestInv' /\ NoPermitIdle' /\ OnceSound'
    BY <2>1, <2>2, Zenon DEF AtomRest, GateInv, RestInv, CallsOf, NoPermitIdle, OnceSound, waitVars, onceVars
  <2> QED BY <2>3, <2>4, Zenon DEF GateInv
<1> QED BY <1>1, <1>2, <1>3, Zenon

-----------------------------------------------------------------------------
LEMMA GateStart == GateInit => GateInv
<1> SUFFICES ASSUME GateInit PROVE GateInv
  BY Zenon
<1>1. PICK o \in Sharers : held = [t \in Sharers |-> IF t = o THEN 1 ELSE 0]
  BY Zenon DEF GateInit
<1>2. Pairs(Sharers, held) = {<<o, 1>>}
  BY <1>1 DEF Pairs
<1>3. HandleInv
  <2>1. IsFiniteSet(Pairs(Sharers, held)) /\ Cardinality(Pairs(Sharers, held)) = 1
    BY <1>2, FS_Singleton, Zenon
  <2>2. held \in [Sharers -> Nat] /\ names = 1 /\ reg = TRUE /\ \A t \in Sharers : doing[t] = "idle"
    BY <1>1, Zenon DEF GateInit
  <2> QED BY <2>1, <2>2 DEF HandleInv
<1>4. max \in 0..MaxPermits /\ permits \in 0..max
  BY GateAssumption DEF GateInit
<1>5. RestInv /\ NoPermitIdle /\ OnceSound
  <2>1. /\ kind \in Kinds /\ doing = [t \in Sharers |-> "idle"] /\ asleep = {} /\ awake = {}
        /\ status = "pending" /\ runs = 0 /\ passed = {} /\ arrived = {} /\ token = FALSE /\ value = 0
    BY Zenon DEF GateInit
  <2>2. 0 \in 0 .. Modulus - 1
    BY GateAssumption
  <2>3. RestInv
    BY <1>4, <2>1, <2>2, Zenon DEF RestInv, Stages, CallsOf
  <2>4. NoPermitIdle /\ OnceSound
    BY <2>1, Zenon DEF NoPermitIdle, OnceSound
  <2> QED BY <2>3, <2>4, Zenon
<1> QED BY <1>3, <1>5, Zenon DEF GateInv

LEMMA GateKeeps == GateInv /\ [GateNext]_gateVars => GateInv'
<1> SUFFICES ASSUME GateInv, [GateNext]_gateVars PROVE GateInv'
  BY Zenon
<1>1. CASE UNCHANGED gateVars
  <2>1. UNCHANGED <<kind, handleVars, doing, max, permits, waitVars, onceVars, arrived, token, value>>
    BY <1>1, Zenon DEF gateVars
  <2>2. HandleInv'
    BY <2>1, HandlesSame, Zenon DEF GateInv
  <2>3. RestInv' /\ NoPermitIdle' /\ OnceSound'
    BY <2>1, Zenon DEF GateInv, RestInv, CallsOf, NoPermitIdle, OnceSound, waitVars, onceVars
  <2> QED BY <2>2, <2>3, Zenon DEF GateInv
<1>2. ASSUME NEW t \in Sharers, HandleStep(t) \/ SemStep(t) \/ OnceStep(t) \/ AtomStep(t)
                                \/ BarrierWait(t) \/ CancelToken(t) \/ SpuriousWakeup(t)
      PROVE  GateInv'
  BY <1>2, HandleSteps, SemSteps, SemKeeps, SpuriousKeeps, OnceKeeps, OthersKeep, Zenon
<1> QED BY <1>1, <1>2, Zenon DEF GateNext

(* The invariant of the gates is inductive. *)
THEOREM GatesInductive == GateSpec => []GateInv
BY GateStart, GateKeeps, PTL DEF GateSpec

(* However threads copy, give and drop handles, wait, time out, wake for no reason and
   run callbacks that fail: every handle finds its entry, no permit stays free while the
   waiters of a semaphore sleep, and a once cell runs one callback at a time and succeeds
   once. *)
THEOREM GatesAreSound == GateSpec => []GatesSound
<1>1. GateInv => GatesSound
  BY HandlesFound, Zenon DEF GateInv, GatesSound, GateTypeOK, HandleInv, RestInv, Stages
<1> QED BY <1>1, GatesInductive, PTL
-----------------------------------------------------------------------------
(* Native locks.  A stack holds one write lock or only read locks, the native
   primitive has granted just that, and the holds are counted as pairs. *)

LockStages == {"run", "lock", "wait", "woken", "exited"}

Writes(t) ==
  /\ Len(stack[t]) = 1 /\ stack[t][1] = "w" /\ readers[t] = 0
  /\ writer = t <=> stage[t] \notin {"wait", "woken"}

Reads(t) ==
  /\ \A i \in 1..Len(stack[t]) : stack[t][i] = "r"
  /\ readers[t] = Len(stack[t]) /\ writer # t /\ stage[t] \notin {"wait", "woken"}
  /\ lock_kind = "mutex" => Len(stack[t]) = 0

LockHold(t) ==
  /\ Len(stack[t]) <= MaxDepth /\ (stage[t] = "lock" => Len(stack[t]) < MaxDepth)
  /\ Writes(t) \/ Reads(t)
  /\ lock_kind = "mutex" /\ stage[t] = "lock" => mode[t] = "w"

Depths == [t \in Lockers |-> Len(stack[t])]

Counted == IsFiniteSet(Pairs(Lockers, Depths)) /\ holds = Cardinality(Pairs(Lockers, Depths))

LockShape ==
  /\ lock_kind \in LockKinds /\ has \subseteq Lockers /\ scope \subseteq has
  /\ stage \in [Lockers -> LockStages] /\ mode \in [Lockers -> Modes]
  /\ waiting = {t \in Lockers : stage[t] = "wait"}
  /\ writer \in Lockers \cup {NoThread} /\ readers \in [Lockers -> Nat]
  /\ stack \in [Lockers -> Seq(Modes)]

Used == has # {} \/ \E t \in Lockers : stack[t] # <<>> \/ stage[t] \in {"lock", "wait", "woken"}

LockInv ==
  /\ LockShape /\ (\A t \in Lockers : LockHold(t)) /\ Counted
  /\ alive \in BOOLEAN /\ (alive <=> Used)

(* What stays as it is for a thread. *)
SameFor(u) ==
  /\ stack'[u] = stack[u] /\ stage'[u] = stage[u] /\ mode'[u] = mode[u] /\ readers'[u] = readers[u]
  /\ writer' = u <=> writer = u

LEMMA OtherHold ==
  ASSUME NEW u \in Lockers, LockHold(u), SameFor(u), lock_kind' = lock_kind
  PROVE  LockHold(u)'
BY Zenon DEF LockHold, Writes, Reads, SameFor

LEMMA CountedSame ==
  ASSUME Counted, stack' = stack, holds' = holds
  PROVE  Counted'
<1>1. Pairs(Lockers, Depths)' = Pairs(Lockers, Depths)
  BY Zenon DEF Pairs, Depths
<1> QED BY <1>1, Zenon DEF Counted

(* The primitive is destroyed by the step after which nobody uses it. *)
LEMMA Settled ==
  ASSUME LockInv, LockShape', Counted', Settle, Used' => Used
  PROVE  alive' \in BOOLEAN /\ (alive' <=> Used')
<1>1. Kept(has', scope', stack', stage') <=> Used'
  BY Zenon DEF Kept, Used, LockShape
<1>2. holds' # 0 => Used'
  <2>1. ASSUME holds' # 0 PROVE Used'
    <3>1. Pairs(Lockers, Depths)' # {}
      BY <2>1, FS_EmptySet, Zenon DEF Counted
    <3>2. PICK p : p \in Pairs(Lockers, Depths)'
      BY <3>1, Zenon
    <3>3. p[1] \in Lockers /\ p[2] \in 1..Len(stack'[p[1]])
      BY <3>2, Zenon DEF Pairs, Depths
    <3>4. stack'[p[1]] # <<>>
      BY <3>3 DEF LockShape
    <3> QED BY <3>3, <3>4, Zenon DEF Used
  <2> QED BY <2>1, Zenon
<1>3. alive \in BOOLEAN /\ (alive <=> Used)
  BY Zenon DEF LockInv
<1>4. alive' = (alive /\ (Kept(has', scope', stack', stage') \/ holds' # 0))
  BY Zenon DEF Settle
<1> QED BY <1>1, <1>2, <1>3, <1>4, Zenon

LEMMA LockPreserved ==
  ASSUME LockInv, LockShape', \A u \in Lockers : LockHold(u)', Counted', Settle, Used' => Used
  PROVE  LockInv'
BY Settled, Zenon DEF LockInv

(* A step of one thread. *)
LEMMA OneMoves ==
  ASSUME LockInv, NEW t \in Lockers, LockShape', LockHold(t)', lock_kind' = lock_kind,
         \A u \in Lockers \ {t} : SameFor(u), Counted', Settle, Used' => Used
  PROVE  LockInv'
<1>1. ASSUME NEW u \in Lockers PROVE LockHold(u)'
  <2>1. CASE u = t
    BY <2>1, Zenon
  <2>2. CASE u # t
    BY <2>2, OtherHold, Zenon DEF LockInv
  <2> QED BY <2>1, <2>2, Zenon
<1> QED BY <1>1, LockPreserved, Zenon

LEMMA DropLockKeeps ==
  ASSUME LockInv, NEW t \in Lockers, DropLock(t)
  PROVE  LockInv'
<1>1. /\ t \in has /\ t \notin scope /\ has' = has \ {t}
      /\ UNCHANGED <<lock_kind, stack, holds, stage, mode, scope, writer, readers, waiting>> /\ Settle
  BY Zenon DEF DropLock, native
<1>2. LockShape'
  BY <1>1, Zenon DEF LockInv, LockShape
<1>3. \A u \in Lockers : SameFor(u)
  BY <1>1, Zenon DEF SameFor
<1>4. LockHold(t)'
  BY <1>1, <1>3, OtherHold, Zenon DEF LockInv
<1>5. Counted'
  BY <1>1, CountedSame, Zenon DEF LockInv
<1>6. Used
  BY <1>1, Zenon DEF Used
<1> QED BY <1>1, <1>2, <1>3, <1>4, <1>5, <1>6, OneMoves, Zenon

LEMMA LockCallKeeps ==
  ASSUME LockInv, NEW t \in Lockers, NEW m \in Modes, NEW c \in BOOLEAN, LockCall(t, m, c),
         lock_kind = "mutex" => m = "w"
  PROVE  LockInv'
<1>1. /\ stage[t] = "run" /\ t \in has /\ Len(stack[t]) < MaxDepth
      /\ mode' = [mode EXCEPT ![t] = m] /\ stage' = [stage EXCEPT ![t] = "lock"]
      /\ scope' \subseteq scope \cup {t}
      /\ UNCHANGED <<lock_kind, has, stack, holds, writer, readers, waiting>> /\ Settle
  BY Zenon DEF LockCall, Running, GoOn, native
<1>2. stage \in [Lockers -> LockStages] /\ mode \in [Lockers -> Modes]
  BY Zenon DEF LockInv, LockShape
<1>3. /\ stage' \in [Lockers -> LockStages] /\ mode' \in [Lockers -> Modes]
      /\ stage'[t] = "lock" /\ mode'[t] = m
      /\ \A u \in Lockers \ {t} : stage'[u] = stage[u] /\ mode'[u] = mode[u]
  BY <1>1, <1>2, Zenon DEF LockStages
<1>4. LockShape'
  <2>1. {u \in Lockers : stage'[u] = "wait"} = {u \in Lockers : stage[u] = "wait"}
    BY <1>1, <1>3, Zenon
  <2> QED BY <1>1, <1>3, <2>1, Zenon DEF LockInv, LockShape
<1>5. \A u \in Lockers \ {t} : SameFor(u)
  BY <1>1, <1>3, Zenon DEF SameFor
<1>6. LockHold(t)'
  <2>1. Len(stack[t]) <= MaxDepth /\ (Writes(t) \/ Reads(t))
    BY Zenon DEF LockInv, LockHold
  <2>2. Writes(t) => Writes(t)'
    BY <1>1, <1>3, Zenon DEF Writes
  <2>3. Reads(t) => Reads(t)'
    BY <1>1, <1>3, Zenon DEF Reads
  <2> QED BY <1>1, <1>3, <2>1, <2>2, <2>3, Zenon DEF LockHold
<1>7. Counted'
  BY <1>1, CountedSame, Zenon DEF LockInv
<1>8. Used
  BY <1>1, Zenon DEF Used
<1> QED BY <1>1, <1>4, <1>5, <1>6, <1>7, <1>8, OneMoves, Zenon

(* One hold more. *)
LEMMA CountedMore ==
  ASSUME LockInv, NEW t \in Lockers, NEW m \in Modes, stack' = [stack EXCEPT ![t] = Append(@, m)],
         holds' = holds + 1
  PROVE  Counted'
<1>1. stack \in [Lockers -> Seq(Modes)] /\ Counted
  BY Zenon DEF LockInv, LockShape
<1>2. ASSUME NEW u \in Lockers PROVE Depths'[u] = IF u = t THEN Depths[u] + 1 ELSE Depths[u]
  <2>1. CASE u = t
    <3>1. stack'[t] = Append(stack[t], m) /\ stack[t] \in Seq(Modes)
      BY <1>1, Zenon
    <3>2. Len(stack'[t]) = Len(stack[t]) + 1
      BY <3>1
    <3> QED BY <2>1, <3>2, Zenon DEF Depths
  <2>2. CASE u # t
    <3>1. stack'[u] = stack[u]
      BY <1>1, <2>2, Zenon
    <3> QED BY <2>2, <3>1 DEF Depths
  <2> QED BY <2>1, <2>2, Zenon
<1>3. Depths \in [Lockers -> Nat]
  BY <1>1 DEF Depths
<1>4. Depths' = [Depths EXCEPT ![t] = @ + 1]
  <2>1. Depths' = [u \in Lockers |-> Depths'[u]]
    BY DEF Depths
  <2> QED BY <1>2, <1>3, <2>1, Zenon
<1>5. Grows(Lockers, Depths, t, Depths')
  BY <1>1, <1>3, <1>4, Zenon DEF Grows, Counted
<1>6. /\ IsFiniteSet(Pairs(Lockers, Depths'))
      /\ Cardinality(Pairs(Lockers, Depths')) = Cardinality(Pairs(Lockers, Depths)) + 1
  BY <1>5, OneMore, Zenon
<1>7. Pairs(Lockers, Depths)' = Pairs(Lockers, Depths')
  BY Zenon DEF Pairs
<1> QED BY <1>1, <1>6, <1>7, Zenon DEF Counted

LEMMA LockedKeeps ==
  ASSUME LockInv, NEW t \in Lockers, Locked(t)
  PROVE  LockInv'
<1>0. PICK m : m = mode[t]
  BY Zenon
<1>1. /\ stage[t] = "lock" /\ writer = NoThread /\ (m = "w" => \A u \in Lockers : readers[u] = 0)
      /\ writer' = (IF m = "w" THEN t ELSE writer)
      /\ readers' = (IF m = "r" THEN [readers EXCEPT ![t] = @ + 1] ELSE readers)
      /\ holds' = holds + 1 /\ stack' = [stack EXCEPT ![t] = Append(@, m)]
      /\ stage' = [stage EXCEPT ![t] = "run"]
      /\ UNCHANGED <<lock_kind, has, mode, scope, waiting>> /\ Settle
  BY <1>0, Zenon DEF Locked, FreeFor, Grab, GoOn
<1>2. /\ stage \in [Lockers -> LockStages] /\ m \in Modes /\ readers \in [Lockers -> Nat]
      /\ stack \in [Lockers -> Seq(Modes)] /\ stack[t] \in Seq(Modes) /\ NoThread \notin Lockers
  BY <1>0, LockAssumption, Zenon DEF LockInv, LockShape
<1>3. /\ stage' \in [Lockers -> LockStages] /\ stage'[t] = "run"
      /\ \A u \in Lockers \ {t} : stage'[u] = stage[u]
  BY <1>1, <1>2, Zenon DEF LockStages
<1>4. /\ stack' \in [Lockers -> Seq(Modes)] /\ stack'[t] = Append(stack[t], m)
      /\ \A u \in Lockers \ {t} : stack'[u] = stack[u]
  <2>1. Append(stack[t], m) \in Seq(Modes)
    BY <1>2
  <2> QED BY <1>1, <1>2, <2>1, Zenon
<1>5. /\ readers' \in [Lockers -> Nat] /\ readers'[t] = IF m = "r" THEN readers[t] + 1 ELSE readers[t]
      /\ \A u \in Lockers \ {t} : readers'[u] = readers[u]
  BY <1>1, <1>2
<1>6. LockShape'
  <2>1. {u \in Lockers : stage'[u] = "wait"} = {u \in Lockers : stage[u] = "wait"}
    BY <1>1, <1>3, Zenon
  <2>2. writer' \in Lockers \cup {NoThread}
    BY <1>1, Zenon
  <2> QED BY <1>1, <1>3, <1>4, <1>5, <2>1, <2>2, Zenon DEF LockInv, LockShape
<1>7. \A u \in Lockers \ {t} : SameFor(u)
  BY <1>1, <1>2, <1>3, <1>4, <1>5, Zenon DEF SameFor
<1>8. LockHold(t)'
  <2>1. Reads(t) /\ Len(stack[t]) < MaxDepth /\ (lock_kind = "mutex" => m = "w")
    BY <1>0, <1>1, <1>2, Zenon DEF LockInv, LockHold, Writes
  <2>2. /\ Len(stack[t]) \in Nat /\ Len(stack'[t]) = Len(stack[t]) + 1
        /\ \A i \in 1..Len(stack[t]) : stack'[t][i] = stack[t][i]
        /\ stack'[t][Len(stack[t]) + 1] = m
    BY <1>2, <1>4
  <2>5. Len(stack'[t]) <= MaxDepth /\ stage'[t] # "lock"
    <3>1. Len(stack'[t]) <= MaxDepth
      BY <2>1, <2>2, LockAssumption
    <3> QED BY <1>3, <3>1
  <2>3. CASE m = "w"
    <3>1. Len(stack[t]) = 0 /\ readers'[t] = 0
      BY <1>1, <1>5, <2>1, <2>3, Zenon DEF Reads
    <3>2. Writes(t)'
      BY <1>1, <1>3, <2>2, <2>3, <3>1 DEF Writes
    <3> QED BY <2>5, <3>2, Zenon DEF LockHold
  <2>4. CASE m = "r"
    <3>1. lock_kind # "mutex" /\ lock_kind' = lock_kind /\ writer' # t /\ readers'[t] = Len(stack'[t])
      BY <1>1, <1>2, <1>5, <2>1, <2>2, <2>4, Zenon DEF Reads
    <3>2. ASSUME NEW i \in 1..Len(stack'[t]) PROVE stack'[t][i] = "r"
      <4>1. i \in 1..Len(stack[t]) \/ i = Len(stack[t]) + 1
        BY <2>2
      <4>2. CASE i \in 1..Len(stack[t])
        BY <2>1, <2>2, <4>2, Zenon DEF Reads
      <4>3. CASE i = Len(stack[t]) + 1
        BY <2>2, <2>4, <4>3, Zenon
      <4> QED BY <4>1, <4>2, <4>3, Zenon
    <3>3. Reads(t)'
      BY <1>3, <3>1, <3>2, Zenon DEF Reads
    <3> QED BY <2>5, <3>3, Zenon DEF LockHold
  <2> QED BY <1>2, <2>3, <2>4, Zenon DEF Modes
<1>9. Counted'
  BY <1>1, <1>2, CountedMore, Zenon
<1>10. Used
  BY <1>1, Zenon DEF Used
<1> QED BY <1>1, <1>6, <1>7, <1>8, <1>9, <1>10, OneMoves, Zenon

(* One hold less. *)
LEMMA CountedLess ==
  ASSUME LockInv, NEW t \in Lockers, stack[t] # <<>>,
         stack' = [stack EXCEPT ![t] = SubSeq(@, 1, Len(@) - 1)], holds' = holds - 1
  PROVE  Counted'
<1>1. stack \in [Lockers -> Seq(Modes)] /\ Counted
  BY Zenon DEF LockInv, LockShape
<1>2. ASSUME NEW u \in Lockers PROVE Depths'[u] = IF u = t THEN Depths[u] - 1 ELSE Depths[u]
  <2>1. CASE u = t
    <3>1. stack'[t] = SubSeq(stack[t], 1, Len(stack[t]) - 1) /\ stack[t] \in Seq(Modes) /\ stack[t] # <<>>
      BY <1>1, Zenon
    <3>2. Len(stack'[t]) = Len(stack[t]) - 1
      BY <3>1
    <3> QED BY <2>1, <3>2, Zenon DEF Depths
  <2>2. CASE u # t
    <3>1. stack'[u] = stack[u]
      BY <1>1, <2>2, Zenon
    <3> QED BY <2>2, <3>1 DEF Depths
  <2> QED BY <2>1, <2>2, Zenon
<1>3. Depths \in [Lockers -> Nat] /\ Depths[t] > 0
  BY <1>1 DEF Depths
<1>4. Depths' = [Depths EXCEPT ![t] = @ - 1]
  <2>1. Depths' = [u \in Lockers |-> Depths'[u]]
    BY DEF Depths
  <2> QED BY <1>2, <1>3, <2>1, Zenon
<1>5. Shrinks(Lockers, Depths, t, Depths')
  BY <1>1, <1>3, <1>4, Zenon DEF Shrinks, Counted
<1>6. /\ IsFiniteSet(Pairs(Lockers, Depths'))
      /\ Cardinality(Pairs(Lockers, Depths')) = Cardinality(Pairs(Lockers, Depths)) - 1
  BY <1>5, OneLess, Zenon
<1>7. Pairs(Lockers, Depths)' = Pairs(Lockers, Depths')
  BY Zenon DEF Pairs
<1> QED BY <1>1, <1>6, <1>7, Zenon DEF Counted

(* A hold is popped and the native lock given back. *)
LEMMA PopKeeps ==
  ASSUME LockInv, NEW t \in Lockers, Running(t), PopHold(t), has' = has, scope' \subseteq scope,
         UNCHANGED <<lock_kind, stage, mode, waiting>>, Settle
  PROVE  LockInv'
<1>1. /\ stage[t] = "run" /\ stack[t] # <<>> /\ holds' = holds - 1
      /\ stack' = [stack EXCEPT ![t] = SubSeq(@, 1, Len(@) - 1)]
      /\ \/ writer = t /\ writer' = NoThread /\ readers' = readers
         \/ writer # t /\ readers' = [readers EXCEPT ![t] = @ - 1] /\ writer' = writer
  BY Zenon DEF Running, PopHold, LetGo
<1>2. /\ readers \in [Lockers -> Nat] /\ stack \in [Lockers -> Seq(Modes)] /\ stack[t] \in Seq(Modes)
      /\ NoThread \notin Lockers
  BY LockAssumption, Zenon DEF LockInv, LockShape
<1>3. /\ stack' \in [Lockers -> Seq(Modes)] /\ stack'[t] = SubSeq(stack[t], 1, Len(stack[t]) - 1)
      /\ \A u \in Lockers \ {t} : stack'[u] = stack[u]
  <2>1. SubSeq(stack[t], 1, Len(stack[t]) - 1) \in Seq(Modes)
    BY <1>2
  <2> QED BY <1>1, <1>2, <2>1, Zenon
<1>4. /\ Len(stack[t]) \in Nat \ {0} /\ Len(stack'[t]) = Len(stack[t]) - 1
      /\ \A i \in 1..Len(stack'[t]) : stack'[t][i] = stack[t][i]
  <2>1. Len(stack[t]) \in Nat \ {0}
    BY <1>1, <1>2
  <2>2. PICK s : s = stack[t]
    BY Zenon
  <2>3. /\ Len(SubSeq(s, 1, Len(s) - 1)) = Len(s) - 1
        /\ \A i \in 1..(Len(s) - 1) : SubSeq(s, 1, Len(s) - 1)[i] = s[i]
    <3>1. s \in Seq(Modes) /\ Len(s) - 1 \in Nat /\ Len(s) \in Nat
      BY <1>2, <2>1, <2>2
    <3>2. PICK k : k = Len(s) - 1
      BY Zenon
    <3>3. k \in 0..Len(s)
      BY <3>1, <3>2
    <3>4. Len(SubSeq(s, 1, k)) = k /\ \A i \in 1..k : SubSeq(s, 1, k)[i] = s[i]
      BY <3>1, <3>3
    <3> QED BY <3>2, <3>4, Zenon
  <2> QED BY <1>3, <2>1, <2>2, <2>3, Zenon
<1>5. LockHold(t)
  BY Zenon DEF LockInv
<1>6. /\ Reads(t)' /\ readers' \in [Lockers -> Nat] /\ writer' \in Lockers \cup {NoThread}
      /\ \A u \in Lockers \ {t} : readers'[u] = readers[u] /\ (writer' = u <=> writer = u)
  <2>1. CASE writer = t
    <3>1. Writes(t)
      BY <1>5, <2>1, Zenon DEF LockHold, Reads
    <3>2. Len(stack'[t]) = 0 /\ readers' = readers /\ writer' = NoThread
      BY <1>1, <1>4, <2>1, <3>1 DEF Writes
    <3> QED BY <1>1, <1>2, <2>1, <3>1, <3>2 DEF Reads, Writes
  <2>2. CASE writer # t
    <3>1. Reads(t) /\ readers' = [readers EXCEPT ![t] = @ - 1] /\ writer' = writer
      BY <1>1, <1>5, <2>2, Zenon DEF LockHold, Writes
    <3>2. readers[t] = Len(stack[t])
      BY <3>1, Zenon DEF Reads
    <3>3. /\ readers' \in [Lockers -> Nat] /\ readers'[t] = Len(stack'[t])
          /\ \A u \in Lockers \ {t} : readers'[u] = readers[u]
      BY <1>2, <1>4, <3>1, <3>2
    <3>4. lock_kind # "mutex"
      BY <1>4, <3>1, Zenon DEF Reads
    <3>5. \A i \in 1..Len(stack'[t]) : i \in 1..Len(stack[t])
      BY <1>4
    <3>6. Reads(t)'
      BY <1>1, <1>4, <2>2, <3>1, <3>3, <3>4, <3>5 DEF Reads
    <3>7. writer' \in Lockers \cup {NoThread}
      BY <3>1, Zenon DEF LockInv, LockShape
    <3> QED BY <3>1, <3>3, <3>6, <3>7, Zenon
  <2> QED BY <2>1, <2>2, Zenon
<1>7. LockShape'
  BY <1>3, <1>6, Zenon DEF LockInv, LockShape
<1>8. LockHold(t)'
  BY <1>1, <1>4, <1>5, <1>6, LockAssumption DEF LockHold
<1>9. \A u \in Lockers \ {t} : SameFor(u)
  BY <1>3, <1>6, Zenon DEF SameFor
<1>10. Counted'
  BY <1>1, CountedLess, Zenon
<1>11. Used
  BY <1>1, Zenon DEF Used
<1> QED BY <1>7, <1>8, <1>9, <1>10, <1>11, OneMoves, Zenon

LEMMA UnlockKeeps ==
  ASSUME LockInv, NEW t \in Lockers, Unlock(t)
  PROVE  LockInv'
BY PopKeeps, Zenon DEF Unlock

LEMMA CallbackKeeps ==
  ASSUME LockInv, NEW t \in Lockers, CallbackReturns(t)
  PROVE  LockInv'
<1>1. /\ Running(t) /\ t \in scope /\ scope' = scope \ {t} /\ Settle
      /\ UNCHANGED <<lock_kind, has, stage, mode, waiting>>
  BY Zenon DEF CallbackReturns
<1>2. CASE PopHold(t)
  BY <1>1, <1>2, PopKeeps, Zenon
<1>3. CASE UNCHANGED <<stack, holds, writer, readers>>
  <2>1. LockShape'
    BY <1>1, <1>3, Zenon DEF LockInv, LockShape
  <2>2. \A u \in Lockers : SameFor(u)
    BY <1>1, <1>3, Zenon DEF SameFor
  <2>3. LockHold(t)'
    BY <1>1, <2>2, OtherHold, Zenon DEF LockInv
  <2>4. Counted'
    BY <1>3, CountedSame, Zenon DEF LockInv
  <2>5. Used
    BY <1>1, Zenon DEF LockInv, LockShape, Used
  <2> QED BY <1>1, <2>1, <2>2, <2>3, <2>4, <2>5, OneMoves, Zenon
<1> QED BY <1>2, <1>3, Zenon DEF CallbackReturns, native

LEMMA SleepKeeps ==
  ASSUME LockInv, NEW t \in Lockers, Running(t), t \in has, lock_kind = "mutex", stack[t] # <<>>,
         GoToSleep(t)
  PROVE  LockInv'
<1>1. /\ stage[t] = "run" /\ writer' = NoThread /\ waiting' = waiting \cup {t}
      /\ stage' = [stage EXCEPT ![t] = "wait"]
      /\ UNCHANGED <<lock_kind, has, stack, holds, mode, scope, readers>> /\ Settle
  BY Zenon DEF Running, GoToSleep, GoOn
<1>2. stage \in [Lockers -> LockStages] /\ stack[t] \in Seq(Modes) /\ NoThread \notin Lockers
  BY LockAssumption, Zenon DEF LockInv, LockShape
<1>3. /\ stage' \in [Lockers -> LockStages] /\ stage'[t] = "wait"
      /\ \A u \in Lockers \ {t} : stage'[u] = stage[u]
  BY <1>1, <1>2, Zenon DEF LockStages
<1>4. Writes(t) /\ writer = t
  <2>1. Len(stack[t]) # 0
    BY <1>2
  <2> QED BY <1>1, <2>1, Zenon DEF LockInv, LockHold, Reads, Writes
<1>5. LockShape'
  <2>1. waiting' = {u \in Lockers : stage'[u] = "wait"}
    BY <1>1, <1>3, Zenon DEF LockInv, LockShape
  <2> QED BY <1>1, <1>3, <2>1, Zenon DEF LockInv, LockShape
<1>6. \A u \in Lockers \ {t} : SameFor(u)
  BY <1>1, <1>2, <1>3, <1>4, Zenon DEF SameFor
<1>7. LockHold(t)'
  <2>1. Writes(t)'
    BY <1>1, <1>2, <1>3, <1>4, Zenon DEF Writes
  <2> QED BY <1>1, <1>3, <2>1, Zenon DEF LockInv, LockHold
<1>8. Counted'
  BY <1>1, CountedSame, Zenon DEF LockInv
<1>9. Used
  BY Zenon DEF Used
<1> QED BY <1>1, <1>5, <1>6, <1>7, <1>8, <1>9, OneMoves, Zenon

LEMMA ReacquireKeeps ==
  ASSUME LockInv, NEW t \in Lockers, Reacquire(t)
  PROVE  LockInv'
<1>1. /\ stage[t] = "woken" /\ writer = NoThread /\ writer' = t /\ readers' = readers
      /\ stage' = [stage EXCEPT ![t] = "run"]
      /\ UNCHANGED <<lock_kind, has, stack, holds, mode, scope, waiting>> /\ Settle
  BY Zenon DEF Reacquire, FreeFor, Grab, GoOn
<1>2. stage \in [Lockers -> LockStages] /\ NoThread \notin Lockers
  BY LockAssumption, Zenon DEF LockInv, LockShape
<1>3. /\ stage' \in [Lockers -> LockStages] /\ stage'[t] = "run"
      /\ \A u \in Lockers \ {t} : stage'[u] = stage[u]
  BY <1>1, <1>2, Zenon DEF LockStages
<1>4. LockShape'
  <2>1. {u \in Lockers : stage'[u] = "wait"} = {u \in Lockers : stage[u] = "wait"}
    BY <1>1, <1>3, Zenon
  <2> QED BY <1>1, <1>3, <2>1, Zenon DEF LockInv, LockShape
<1>5. \A u \in Lockers \ {t} : SameFor(u)
  BY <1>1, <1>2, <1>3, Zenon DEF SameFor
<1>6. LockHold(t)'
  <2>1. Writes(t)
    BY <1>1, Zenon DEF LockInv, LockHold, Reads
  <2>2. Writes(t)'
    BY <1>1, <1>3, <2>1, Zenon DEF Writes
  <2> QED BY <1>1, <1>3, <2>2, Zenon DEF LockInv, LockHold
<1>7. Counted'
  BY <1>1, CountedSame, Zenon DEF LockInv
<1>8. Used
  BY <1>1, Zenon DEF Used
<1> QED BY <1>1, <1>4, <1>5, <1>6, <1>7, <1>8, OneMoves, Zenon

LEMMA WakeKeeps ==
  ASSUME LockInv, NEW ts, ts \subseteq waiting, ts # {}, Wake(ts)
  PROVE  LockInv'
<1>1. /\ waiting' = waiting \ ts /\ stage' = [u \in Lockers |-> IF u \in ts THEN "woken" ELSE stage[u]]
      /\ UNCHANGED <<lock_kind, has, stack, holds, mode, scope, writer, readers>> /\ Settle
  BY Zenon DEF Wake, native
<1>2. /\ stage \in [Lockers -> LockStages] /\ ts \subseteq Lockers /\ \A u \in ts : stage[u] = "wait"
      /\ waiting = {u \in Lockers : stage[u] = "wait"}
  BY Zenon DEF LockInv, LockShape
<1>3. /\ stage' \in [Lockers -> LockStages]
      /\ \A u \in Lockers : stage'[u] = IF u \in ts THEN "woken" ELSE stage[u]
  BY <1>1, <1>2, Zenon DEF LockStages
<1>4. LockShape'
  <2>1. waiting' = {u \in Lockers : stage'[u] = "wait"}
    BY <1>1, <1>2, <1>3, Zenon
  <2> QED BY <1>1, <1>3, <2>1, Zenon DEF LockInv, LockShape
<1>5. ASSUME NEW u \in Lockers PROVE LockHold(u)'
  <2>1. LockHold(u)
    BY Zenon DEF LockInv
  <2>2. CASE u \in ts
    <3>1. stage[u] = "wait" /\ stage'[u] = "woken"
      BY <1>2, <1>3, <2>2, Zenon
    <3>2. Writes(u)
      BY <2>1, <3>1, Zenon DEF LockHold, Reads
    <3>3. Writes(u)'
      BY <1>1, <3>1, <3>2, Zenon DEF Writes
    <3> QED BY <1>1, <2>1, <3>1, <3>3, Zenon DEF LockHold
  <2>3. CASE u \notin ts
    BY <1>1, <1>3, <2>1, <2>3, OtherHold, Zenon DEF SameFor
  <2> QED BY <2>2, <2>3, Zenon
<1>6. Counted'
  BY <1>1, CountedSame, Zenon DEF LockInv
<1>7. Used
  <2>1. PICK u : u \in ts
    BY Zenon
  <2> QED BY <1>2, <2>1, Zenon DEF Used
<1> QED BY <1>1, <1>4, <1>5, <1>6, <1>7, LockPreserved, Zenon

(* All the holds of a thread go. *)
LEMMA CountedNone ==
  ASSUME LockInv, NEW t \in Lockers, stack' = [stack EXCEPT ![t] = <<>>], holds' = holds - Len(stack[t])
  PROVE  Counted'
<1>0. PICK n : n = Len(stack[t])
  BY Zenon
<1>1. stack \in [Lockers -> Seq(Modes)] /\ Counted /\ n \in Nat
  BY <1>0 DEF LockInv, LockShape
<1>2. ASSUME NEW u \in Lockers PROVE Depths'[u] = IF u = t THEN 0 ELSE Depths[u]
  BY <1>1, Zenon DEF Depths
<1>3. Depths \in [Lockers -> Nat] /\ Depths' \in [Lockers -> Nat] /\ Depths[t] = n
  <2>1. Depths \in [Lockers -> Nat] /\ Depths[t] = n
    BY <1>0, <1>1 DEF Depths
  <2>2. Depths' = [u \in Lockers |-> Depths'[u]]
    BY DEF Depths
  <2> QED BY <1>2, <2>1, <2>2
<1> DEFINE P == Pairs(Lockers, Depths)
           Q == Pairs(Lockers, Depths')
           T == {t} \X (1..n)
<1>4. Q = P \ T /\ P \cap T = T
  <2>1. ASSUME NEW u \in Lockers, NEW i \in Nat
        PROVE  /\ <<u, i>> \in P <=> 1 <= i /\ i <= Depths[u]
               /\ <<u, i>> \in Q <=> 1 <= i /\ i <= Depths'[u]
               /\ <<u, i>> \in T <=> u = t /\ 1 <= i /\ i <= n
    <3>1. <<u, i>> \in P <=> 1 <= i /\ i <= Depths[u]
      BY <1>3 DEF Pairs
    <3>2. <<u, i>> \in Q <=> 1 <= i /\ i <= Depths'[u]
      BY <1>3 DEF Pairs
    <3>3. <<u, i>> \in T <=> u = t /\ 1 <= i /\ i <= n
      BY <1>1
    <3> QED BY <3>1, <3>2, <3>3, Zenon
  <2>2. P \subseteq Lockers \X Nat /\ Q \subseteq Lockers \X Nat /\ T \subseteq Lockers \X Nat
    <3>1. T \subseteq Lockers \X Nat
      BY <1>1
    <3> QED BY <3>1, Zenon DEF Pairs
  <2>3. ASSUME NEW u \in Lockers, NEW i \in Nat
        PROVE  /\ <<u, i>> \in Q <=> <<u, i>> \in P /\ <<u, i>> \notin T
               /\ <<u, i>> \in T => <<u, i>> \in P
    BY <1>2, <1>3, <2>1
  <2>4. ASSUME NEW p \in Lockers \X Nat
        PROVE  (p \in Q <=> p \in P /\ p \notin T) /\ (p \in T => p \in P)
    <3>1. PICK u \in Lockers, i \in Nat : p = <<u, i>>
      OBVIOUS
    <3> QED BY <2>3, <3>1, Zenon
  <2> HIDE DEF P, Q, T
  <2> QED BY <2>2, <2>4, Zenon
<1>5. IsFiniteSet(T) /\ Cardinality(T) = n
  <2>1. IsFiniteSet(1..n) /\ Cardinality(1..n) = n
    BY <1>1, FS_Interval
  <2>2. IsFiniteSet({t}) /\ Cardinality({t}) = 1
    BY FS_Singleton, Zenon
  <2>3. IsFiniteSet({t} \X (1..n)) /\ Cardinality({t} \X (1..n)) = Cardinality({t}) * Cardinality(1..n)
    BY <2>1, <2>2, FS_Product, Zenon
  <2> QED BY <1>1, <2>1, <2>2, <2>3
<1>6. IsFiniteSet(P \ T) /\ Cardinality(P \ T) = Cardinality(P) - Cardinality(P \cap T)
  <2>1. IsFiniteSet(P)
    BY <1>1, Zenon DEF Counted
  <2> HIDE DEF P, T
  <2> QED BY <2>1, FS_Difference, Zenon
<1>7. Pairs(Lockers, Depths)' = Q
  BY Zenon DEF Pairs
<1>8. IsFiniteSet(Q) /\ Cardinality(Q) = Cardinality(P) - n
  <2> HIDE DEF P, Q, T
  <2> QED BY <1>4, <1>5, <1>6, Zenon
<1> QED BY <1>0, <1>1, <1>7, <1>8, Zenon DEF Counted

LEMMA ExitKeeps ==
  ASSUME LockInv, NEW t \in Lockers, ThreadExit(t)
  PROVE  LockInv'
<1>1. /\ stage[t] = "run" /\ t \notin scope /\ has' = has \ {t}
      /\ stack' = [stack EXCEPT ![t] = <<>>] /\ holds' = holds - Len(stack[t])
      /\ writer' = (IF writer = t THEN NoThread ELSE writer) /\ readers' = [readers EXCEPT ![t] = 0]
      /\ stage' = [stage EXCEPT ![t] = "exited"]
      /\ UNCHANGED <<lock_kind, mode, scope, waiting>> /\ Settle
  BY Zenon DEF ThreadExit, Running, GoOn
<1>2. /\ stage \in [Lockers -> LockStages] /\ readers \in [Lockers -> Nat]
      /\ stack \in [Lockers -> Seq(Modes)] /\ writer \in Lockers \cup {NoThread} /\ NoThread \notin Lockers
  BY LockAssumption, Zenon DEF LockInv, LockShape
<1>3. /\ stage' \in [Lockers -> LockStages] /\ stage'[t] = "exited"
      /\ \A u \in Lockers \ {t} : stage'[u] = stage[u]
  BY <1>1, <1>2, Zenon DEF LockStages
<1>4. /\ stack' \in [Lockers -> Seq(Modes)] /\ stack'[t] = <<>>
      /\ \A u \in Lockers \ {t} : stack'[u] = stack[u]
  BY <1>1, <1>2
<1>5. /\ readers' \in [Lockers -> Nat] /\ readers'[t] = 0 /\ writer' # t
      /\ writer' \in Lockers \cup {NoThread}
      /\ \A u \in Lockers \ {t} : readers'[u] = readers[u] /\ (writer' = u <=> writer = u)
  BY <1>1, <1>2, Zenon
<1>6. LockShape'
  <2>1. {u \in Lockers : stage'[u] = "wait"} = {u \in Lockers : stage[u] = "wait"}
    BY <1>1, <1>3, Zenon
  <2>2. scope' \subseteq has' /\ has' \subseteq Lockers
    BY <1>1, Zenon DEF LockInv, LockShape
  <2> QED BY <1>1, <1>3, <1>4, <1>5, <2>1, <2>2, Zenon DEF LockInv, LockShape
<1>7. \A u \in Lockers \ {t} : SameFor(u)
  BY <1>1, <1>3, <1>4, <1>5, Zenon DEF SameFor
<1>8. LockHold(t)'
  <2>1. Len(stack'[t]) = 0
    BY <1>4
  <2>2. Reads(t)'
    BY <1>3, <1>5, <2>1 DEF Reads
  <2> QED BY <1>3, <2>1, <2>2, LockAssumption DEF LockHold
<1>9. Counted'
  BY <1>1, CountedNone, Zenon
<1>10. Used' => Used
  BY <1>1, <1>3, <1>4, Zenon DEF Used
<1> QED BY <1>1, <1>6, <1>7, <1>8, <1>9, <1>10, OneMoves, Zenon

LEMMA LockStart == LockInit => LockInv
<1> SUFFICES ASSUME LockInit PROVE LockInv
  BY Zenon
<1>1. /\ lock_kind \in LockKinds /\ has = Lockers /\ stack = [t \in Lockers |-> <<>>] /\ holds = 0
      /\ stage = [t \in Lockers |-> "run"] /\ mode = [t \in Lockers |-> "w"] /\ scope = {}
      /\ writer = NoThread /\ readers = [t \in Lockers |-> 0] /\ waiting = {} /\ alive = TRUE
  BY Zenon DEF LockInit
<1>2. LockShape
  BY <1>1 DEF LockShape, LockStages, Modes
<1>3. ASSUME NEW t \in Lockers PROVE LockHold(t)
  BY <1>1, LockAssumption DEF LockHold, Reads
<1>4. Counted
  <2>1. Pairs(Lockers, Depths) = {}
    BY <1>1 DEF Pairs, Depths
  <2> QED BY <1>1, <2>1, FS_EmptySet, Zenon DEF Counted
<1>5. Used
  BY <1>1, LockAssumption, Zenon DEF Used
<1> QED BY <1>1, <1>2, <1>3, <1>4, <1>5, Zenon DEF LockInv

LEMMA LockKeeps == LockInv /\ [LockNext]_lockVars => LockInv'
<1> SUFFICES ASSUME LockInv, [LockNext]_lockVars PROVE LockInv'
  BY Zenon
<1>1. CASE UNCHANGED lockVars
  <2>1. UNCHANGED <<lock_kind, has, stack, holds, stage, mode, scope, writer, readers, waiting, alive>>
    BY <1>1, Zenon DEF lockVars, native
  <2>2. LockShape' /\ Used' = Used
    BY <2>1, Zenon DEF LockInv, LockShape, Used
  <2>3. ASSUME NEW u \in Lockers PROVE LockHold(u)'
    BY <2>1, OtherHold, Zenon DEF LockInv, SameFor
  <2>4. Counted'
    BY <2>1, CountedSame, Zenon DEF LockInv
  <2> QED BY <2>1, <2>2, <2>3, <2>4, Zenon DEF LockInv
<1>2. ASSUME NEW t \in Lockers,
             \/ MutexLock(t) \/ MutexWithLock(t)
             \/ ReadLock(t) \/ WriteLock(t) \/ WithRead(t) \/ WithWrite(t)
      PROVE  LockInv'
  <2>1. \E m \in Modes, c \in BOOLEAN : LockCall(t, m, c) /\ (lock_kind = "mutex" => m = "w")
    BY <1>2, Zenon DEF MutexLock, MutexWithLock, ReadLock, WriteLock, WithRead, WithWrite, Modes
  <2> QED BY <2>1, LockCallKeeps, Zenon
<1>3. ASSUME NEW t \in Lockers, MutexUnlock(t) \/ RwLockUnlock(t) PROVE LockInv'
  BY <1>3, UnlockKeeps, Zenon DEF MutexUnlock, RwLockUnlock
<1>4. ASSUME NEW t \in Lockers, Wait(t) \/ WaitTimeout(t) PROVE LockInv'
  BY <1>4, SleepKeeps, Zenon DEF Wait, WaitTimeout
<1>5. ASSUME NEW t \in Lockers, TimeOut(t) \/ Signal(t) \/ Broadcast(t) PROVE LockInv'
  <2>1. CASE Broadcast(t)
    BY <2>1, WakeKeeps, Zenon DEF Broadcast
  <2>2. CASE TimeOut(t) \/ Signal(t)
    <3>1. PICK u : u \in waiting /\ Wake({u})
      BY <2>2, Zenon DEF TimeOut, Signal
    <3> QED BY <3>1, WakeKeeps, Zenon
  <2> QED BY <1>5, <2>1, <2>2, Zenon
<1>6. ASSUME NEW t \in Lockers,
             Locked(t) \/ CallbackReturns(t) \/ DropLock(t) \/ ThreadExit(t) \/ Reacquire(t)
      PROVE  LockInv'
  BY <1>6, LockedKeeps, CallbackKeeps, DropLockKeeps, ExitKeeps, ReacquireKeeps, Zenon
<1> QED BY <1>1, <1>2, <1>3, <1>4, <1>5, <1>6, Zenon DEF LockNext

(* The invariant of the locks is inductive. *)
THEOREM LocksInductive == LockSpec => []LockInv
BY LockStart, LockKeeps, PTL DEF LockSpec

LEMMA LocksMatch == LockInv => LocksSound
<1> SUFFICES ASSUME LockInv PROVE LocksSound
  BY Zenon
<1>1. ASSUME NEW t \in Lockers
      PROVE  /\ stack[t] \in Seq(Modes) /\ Len(stack[t]) \in 0..MaxDepth
             /\ DOMAIN stack[t] = 1..Len(stack[t])
             /\ Writes(t) \/ Reads(t)
  BY LockAssumption DEF LockInv, LockShape, LockHold
<1>2. ASSUME NEW t \in Lockers
      PROVE  /\ readers[t] = Count(t, "r")
             /\ (writer = t) <=> (Count(t, "w") = 1 /\ stage[t] \notin {"wait", "woken"})
  <2>1. CASE Writes(t)
    <3>1. {i \in DOMAIN stack[t] : stack[t][i] = "r"} = {}
      BY <1>1, <2>1 DEF Writes
    <3>2. {i \in DOMAIN stack[t] : stack[t][i] = "w"} = {1}
      BY <1>1, <2>1 DEF Writes
    <3>3. Count(t, "r") = 0 /\ Count(t, "w") = 1
      BY <3>1, <3>2, FS_EmptySet, FS_Singleton, Zenon DEF Count
    <3> QED BY <2>1, <3>3, Zenon DEF Writes
  <2>2. CASE Reads(t)
    <3>1. {i \in DOMAIN stack[t] : stack[t][i] = "r"} = 1..Len(stack[t])
      BY <1>1, <2>2, Zenon DEF Reads
    <3>2. {i \in DOMAIN stack[t] : stack[t][i] = "w"} = {}
      BY <1>1, <2>2, Zenon DEF Reads
    <3>3. Len(stack[t]) \in Nat
      BY <1>1
    <3>4. Cardinality(1..Len(stack[t])) = Len(stack[t])
      BY <3>3, FS_Interval
    <3>5. Count(t, "r") = Len(stack[t]) /\ Count(t, "w") = 0
      BY <3>1, <3>2, <3>4, FS_EmptySet, Zenon DEF Count
    <3> QED BY <2>2, <3>5 DEF Reads
  <2> QED BY <1>1, <2>1, <2>2, Zenon
<1>3. holds = Cardinality({p \in Lockers \X (1..MaxDepth) : p[2] \in DOMAIN stack[p[1]]})
  <2>1. \A p : p \in Pairs(Lockers, Depths)
                 <=> p \in Lockers \X (1..MaxDepth) /\ p[2] \in DOMAIN stack[p[1]]
    BY <1>1, LockAssumption DEF Pairs, Depths
  <2>2. Pairs(Lockers, Depths) = {p \in Lockers \X (1..MaxDepth) : p[2] \in DOMAIN stack[p[1]]}
    BY <2>1, Zenon
  <2> QED BY <2>2, Zenon DEF LockInv, Counted
<1>4. DestroyedWhenUnused
  <2>1. ASSUME NEW t \in Lockers, writer = t PROVE stack[t] # <<>>
    BY <1>1, <2>1 DEF Writes, Reads
  <2> QED BY <2>1, Zenon DEF LockInv, Used, DestroyedWhenUnused
<1>5. LockTypeOK
  <2>1. ASSUME NEW t \in Lockers
        PROVE  stack[t] \in UNION {[1..n -> Modes] : n \in 0..MaxDepth}
    <3>1. stack[t] \in [1..Len(stack[t]) -> Modes]
      BY <1>1
    <3> QED BY <1>1, <3>1, Zenon
  <2>2. stack \in [Lockers -> UNION {[1..n -> Modes] : n \in 0..MaxDepth}]
    BY <2>1, Zenon DEF LockInv, LockShape
  <2>3. ASSUME NEW t \in Lockers PROVE readers[t] \in 0..MaxDepth
    BY <1>1, LockAssumption DEF Writes, Reads
  <2>4. holds \in Nat
    BY FS_CardinalityType, Zenon DEF LockInv, Counted
  <2>5. readers \in [Lockers -> 0..MaxDepth]
    BY <2>3, Zenon DEF LockInv, LockShape
  <2> QED BY <2>2, <2>4, <2>5, Zenon DEF LockInv, LockShape, LockTypeOK, LockStages
<1> QED BY <1>2, <1>3, <1>4, <1>5, Zenon DEF LocksSound, HeldMatchesNative

(* Whatever threads lock, unlock, wait for, drop or leave locked when they end, what a
   thread's stack says it holds is what the native primitive has granted it, and the
   primitive is destroyed with its last user, not before and not later. *)
THEOREM LocksAreSound == LockSpec => []LocksSound
BY LocksInductive, LocksMatch, PTL
=============================================================================
