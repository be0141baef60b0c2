---------------------------- MODULE ChannelProofs ----------------------------
(***************************************************************************)
(* Channels tell the truth, select honours its list and the handles of     *)
(* threads lose no result, for any number of threads, channels, messages,  *)
(* names and calls.                                                        *)
(*                                                                         *)
(* Thread handles come first.  For channels, in the second half, type      *)
(* correctness comes first, then the invariant that ties each message to   *)
(* the one place it is in: with its sender, in one queue, received or      *)
(* refused.                                                                *)
(***************************************************************************)
EXTENDS Channel, Threads, TLAPS

(* Thread handles.  Only the first task of an actor matters: behind it there is
   at most the unlocking of the registry.  Besides the worker, whoever has the
   entry of a thread is alone: the registry, a join, or a call that drops it. *)

Tasks == [op : {"destroy", "entry", "name", "unlock", "join", "take"}, id : Ids]

At(td, a, op, i) == td[a] # <<>> /\ Head(td[a]) = Task(op, i)
Holds(td, a, i) == At(td, a, "join", i) \/ At(td, a, "take", i) \/ At(td, a, "entry", i)
Cares(td, a, i) == At(td, a, "name", i) \/ At(td, a, "destroy", i)

ThreadShape ==
  /\ inner \in [Ids -> Ids \cup {NoOne}]
  /\ \A i, j \in Ids : inner[i] = inner[j] /\ inner[i] # NoOne => i = j
  /\ state \in [Ids -> {"new", "running", "stored", "exited", "failed"}]
  /\ registered \subseteq Ids /\ lock \in Actors \cup {NoOne} /\ closure \in [Ids -> 0..1]
  /\ slot \in [Ids -> {"empty", "full", "taken", "released"}]
  /\ owns \in [Owners -> [Ids -> 0..MaxOwned]]
  /\ taken \in [Ids -> Nat]

UnlockTasks == [op : {"unlock"}, id : Ids]
Short(s) == Len(s) \in 0..2 /\ (Len(s) = 2 => s[2] \in UnlockTasks)
TodoShape(td) == td \in [Actors -> Seq(Tasks)] /\ \A a \in Actors : Short(td[a])

(* The slot follows the worker, and what was never started is nowhere. *)
StateInv ==
  \A i \in Ids :
    /\ slot[i] = "empty" <=> state[i] \in {"new", "running", "failed"}
    /\ taken[i] = IF slot[i] = "taken" THEN 1 ELSE 0
    /\ state[i] \in {"new", "failed"} =>
         /\ i \notin registered /\ \A o \in Owners : owns[o][i] = 0
         /\ \A a \in Actors : ~ Holds(todo, a, i)
    /\ state[i] # "exited" => todo[i] = <<>>

EntryOf(i) ==
  /\ i \in registered => /\ \A a \in Actors \ {i} : ~ Holds(todo, a, i)
                        /\ slot[i] \in {"empty", "full"}
  /\ \A a, b \in Actors \ {i} : Holds(todo, a, i) /\ Holds(todo, b, i) => a = b
  /\ \A c \in Callers : At(todo, c, "join", i) => slot[i] \in {"empty", "full"}
  /\ \A c \in Callers : At(todo, c, "take", i) => slot[i] = "full"
  /\ state[i] = "exited" /\ i \notin registered /\ (\A a \in Actors : ~ Holds(todo, a, i)) =>
       slot[i] \in {"taken", "released"}
EntryInv == \A i \in Ids : EntryOf(i)

(* A result owns the handle it was made with, alone. *)
OwnInv ==
  /\ \A i, j \in Ids : owns[i][j] > 0 =>
       inner[i] = j /\ owns[i][j] = 1 /\ \A o \in Owners \ {i} : owns[o][j] = 0
  /\ \A i \in registered : Named(i) \/ \E a \in Actors : Cares(todo, a, i)

ThreadInv == ThreadShape /\ TodoShape(todo) /\ StateInv /\ EntryInv /\ OwnInv

(* What a step does to the tasks: others keep theirs, and a goes on with one task, or
   has at most the registry left to unlock. *)
OthersWait(a) ==
  /\ TodoShape(todo')
  /\ \A b \in Actors \ {a} : todo'[b] = todo[b] /\ \A o, j : At(todo', b, o, j) <=> At(todo, b, o, j)

Turns(a, op, i) == OthersWait(a) /\ \A o, j : At(todo', a, o, j) <=> o = op /\ j = i
Rests(a) == OthersWait(a) /\ \A o, j : At(todo', a, o, j) => o = "unlock"

LEMMA TaskIs ==
  ASSUME NEW op, NEW i, NEW o, NEW j
  PROVE  Task(op, i) = Task(o, j) <=> op = o /\ i = j
BY Zenon DEF Task

LEMMA InsteadTurns ==
  ASSUME TodoShape(todo), NEW a \in Actors, todo[a] # <<>>,
         NEW op \in {"destroy", "entry", "name", "unlock", "join", "take"}, NEW i \in Ids,
         Instead(a, <<Task(op, i)>>)
  PROVE  Turns(a, op, i)
<1>0. PICK s : s = todo[a]
  BY Zenon
<1>1. s \in Seq(Tasks) /\ s # <<>> /\ Len(s) \in 1..2 /\ (Len(s) = 2 => s[2] \in UnlockTasks)
  BY <1>0 DEF TodoShape, Short
<1>2. Task(op, i) \in Tasks
  BY Zenon DEF Task, Tasks
<1>3. PICK r : r = <<Task(op, i)>> \o Tail(s)
  BY Zenon
<1>4. /\ Tail(s) \in Seq(Tasks) /\ Len(Tail(s)) = Len(s) - 1
      /\ (Len(s) = 2 => Tail(s)[1] = s[2])
  BY <1>1
<1>5. r \in Seq(Tasks) /\ Len(r) = Len(s) /\ r[1] = Task(op, i) /\ (Len(s) = 2 => r[2] = s[2])
  BY <1>1, <1>2, <1>3, <1>4
<1>6. todo' = [todo EXCEPT ![a] = r]
  BY <1>0, <1>3, Zenon DEF Instead
<1>7. todo' \in [Actors -> Seq(Tasks)] /\ todo'[a] = r /\ \A b \in Actors \ {a} : todo'[b] = todo[b]
  BY <1>5, <1>6, Zenon DEF TodoShape
<1>8. TodoShape(todo')
  <2>1. Short(r)
    BY <1>1, <1>5 DEF Short
  <2> QED BY <1>7, <2>1, Zenon DEF TodoShape
<1>9. r # <<>> /\ Head(r) = Task(op, i)
  BY <1>1, <1>5
<1>10. \A o, j : At(todo', a, o, j) <=> o = op /\ j = i
  BY <1>7, <1>9, TaskIs DEF At
<1>11. \A b \in Actors \ {a} : \A o, j : At(todo', b, o, j) <=> At(todo, b, o, j)
  BY <1>7, Zenon DEF At
<1> QED BY <1>7, <1>8, <1>10, <1>11, Zenon DEF Turns, OthersWait

LEMMA InsteadRests ==
  ASSUME TodoShape(todo), NEW a \in Actors, todo[a] # <<>>, Instead(a, <<>>)
  PROVE  Rests(a)
<1>0. PICK s : s = todo[a]
  BY Zenon
<1>1. s \in Seq(Tasks) /\ s # <<>> /\ Len(s) \in 1..2 /\ (Len(s) = 2 => s[2] \in UnlockTasks)
  BY <1>0 DEF TodoShape, Short
<1>2. PICK r : r = <<>> \o Tail(s)
  BY Zenon
<1>3. /\ Tail(s) \in Seq(Tasks) /\ Len(Tail(s)) = Len(s) - 1
      /\ (Len(s) = 2 => Tail(s)[1] = s[2])
  BY <1>1
<1>4. r \in Seq(Tasks) /\ Len(r) = Len(s) - 1 /\ (Len(r) = 1 => r[1] \in UnlockTasks)
  BY <1>1, <1>2, <1>3
<1>5. todo' = [todo EXCEPT ![a] = r]
  BY <1>0, <1>2, Zenon DEF Instead
<1>6. todo' \in [Actors -> Seq(Tasks)] /\ todo'[a] = r /\ \A b \in Actors \ {a} : todo'[b] = todo[b]
  BY <1>4, <1>5, Zenon DEF TodoShape
<1>7. TodoShape(todo')
  <2>1. Short(r)
    BY <1>1, <1>4 DEF Short
  <2> QED BY <1>6, <2>1, Zenon DEF TodoShape
<1>8. \A o, j : At(todo', a, o, j) => o = "unlock"
  <2>1. ASSUME NEW o, NEW j, At(todo', a, o, j) PROVE o = "unlock"
    <3>1. r # <<>> /\ Head(r) = Task(o, j)
      BY <1>6, <2>1, Zenon DEF At
    <3>2. Len(r) = 1 /\ Head(r) = r[1]
      BY <1>1, <1>4, <3>1
    <3>3. Task(o, j) \in UnlockTasks
      BY <1>4, <3>1, <3>2, Zenon
    <3> QED BY <3>3, Zenon DEF Task, UnlockTasks
  <2> QED BY <2>1, Zenon
<1>9. \A b \in Actors \ {a} : \A o, j : At(todo', b, o, j) <=> At(todo, b, o, j)
  BY <1>6, Zenon DEF At
<1> QED BY <1>6, <1>7, <1>8, <1>9, Zenon DEF Rests, OthersWait

(* A call begins. *)
LEMMA BeginTurns ==
  ASSUME TodoShape(todo), NEW a \in Actors,
         NEW op \in {"destroy", "entry", "name", "unlock", "join", "take"}, NEW i \in Ids,
         BeginTasks(a, <<Task(op, i)>>) \/ BeginTasks(a, <<Task(op, i), Task("unlock", i)>>)
  PROVE  Turns(a, op, i)
<1>1. PICK r : /\ r = <<Task(op, i)>> \/ r = <<Task(op, i), Task("unlock", i)>>
               /\ todo' = [todo EXCEPT ![a] = r]
  BY Zenon DEF BeginTasks
<1>2. Task(op, i) \in Tasks /\ Task("unlock", i) \in Tasks /\ Task("unlock", i) \in UnlockTasks
  BY Zenon DEF Task, Tasks, UnlockTasks
<1>3. r \in Seq(Tasks) /\ Len(r) \in 1..2 /\ r[1] = Task(op, i) /\ (Len(r) = 2 => r[2] \in UnlockTasks)
  <2>1. CASE r = <<Task(op, i)>>
    BY <1>2, <2>1
  <2>2. CASE r = <<Task(op, i), Task("unlock", i)>>
    BY <1>2, <2>2
  <2> QED BY <1>1, <2>1, <2>2, Zenon
<1>4. todo' \in [Actors -> Seq(Tasks)] /\ todo'[a] = r /\ \A b \in Actors \ {a} : todo'[b] = todo[b]
  BY <1>1, <1>3, Zenon DEF TodoShape
<1>5. TodoShape(todo')
  <2>1. Short(r)
    BY <1>3 DEF Short
  <2> QED BY <1>4, <2>1, Zenon DEF TodoShape
<1>6. r # <<>> /\ Head(r) = Task(op, i)
  BY <1>3
<1>7. \A o, j : At(todo', a, o, j) <=> o = op /\ j = i
  BY <1>4, <1>6, TaskIs DEF At
<1>8. \A b \in Actors \ {a} : \A o, j : At(todo', b, o, j) <=> At(todo, b, o, j)
  BY <1>4, Zenon DEF At
<1> QED BY <1>4, <1>5, <1>7, <1>8, Zenon DEF Turns, OthersWait

LEMMA OnlyFirst ==
  ASSUME TodoShape(todo), NEW a \in Actors, NEW op, op # "unlock", NEW i
  PROVE  (\E k \in 1..Len(todo[a]) : todo[a][k] = Task(op, i)) <=> At(todo, a, op, i)
<1>0. PICK s : s = todo[a]
  BY Zenon
<1>1. s \in Seq(Tasks) /\ Len(s) \in 0..2 /\ (Len(s) = 2 => s[2] \in UnlockTasks)
  BY <1>0, Zenon DEF TodoShape, Short
<1>2. Task(op, i) \notin UnlockTasks
  BY Zenon DEF Task, UnlockTasks
<1>3. (\E k \in 1..Len(s) : s[k] = Task(op, i)) => s # <<>> /\ s[1] = Task(op, i)
  BY <1>1, <1>2
<1>4. s # <<>> /\ s[1] = Task(op, i) => \E k \in 1..Len(s) : s[k] = Task(op, i)
  BY <1>1
<1>5. s # <<>> => Head(s) = s[1]
  BY <1>1
<1> QED BY <1>0, <1>3, <1>4, <1>5, Zenon DEF At

LEMMA HoldersAre ==
  ASSUME TodoShape(todo), NEW i \in Ids
  PROVE  /\ Holders(i) = {} <=> /\ state[i] \notin {"running", "stored"} /\ i \notin registered
                                /\ \A a \in Actors : ~ Holds(todo, a, i)
         /\ \A a \in Actors : Holders(i) = {<<"call", a>>} =>
              /\ state[i] \notin {"running", "stored"} /\ i \notin registered
              /\ \A b \in Actors : Holds(todo, b, i) => b = a
         /\ \A a \in Actors : Holds(todo, a, i) /\ Holders(i) # {<<"call", a>>} =>
              \/ state[i] \in {"running", "stored"} \/ i \in registered
              \/ \E b \in Actors \ {a} : Holds(todo, b, i)
<1>1. PICK H : H = {b \in Actors : Holds(todo, b, i)}
  BY Zenon
<1>2. {b \in Actors : \E k \in 1..Len(todo[b]) :
         todo[b][k] \in {Task("join", i), Task("take", i), Task("entry", i)}} = H
  <2>1. ASSUME NEW b \in Actors
        PROVE  (\E k \in 1..Len(todo[b]) :
                  todo[b][k] \in {Task("join", i), Task("take", i), Task("entry", i)})
                 <=> Holds(todo, b, i)
    <3>1. \A op \in {"join", "take", "entry"} :
            (\E k \in 1..Len(todo[b]) : todo[b][k] = Task(op, i)) <=> At(todo, b, op, i)
      BY OnlyFirst, Zenon
    <3> QED BY <3>1, Zenon DEF Holds
  <2> QED BY <1>1, <2>1, Zenon
<1>3. Holders(i) = (IF state[i] \in {"running", "stored"} THEN {<<"worker">>} ELSE {})
                     \cup (IF i \in registered THEN {<<"registry">>} ELSE {})
                     \cup {<<"call", a>> : a \in H}
  BY <1>2, Zenon DEF Holders
<1>4. \A a, b : <<"call", a>> = <<"call", b>> => a = b
  BY Zenon
<1>5. \A a : <<"call", a>> # <<"worker">> /\ <<"call", a>> # <<"registry">>
  BY Zenon
<1>6. Holders(i) = {} <=> state[i] \notin {"running", "stored"} /\ i \notin registered /\ H = {}
  BY <1>3, Zenon
<1>7. ASSUME NEW a \in Actors, Holders(i) = {<<"call", a>>}
      PROVE  state[i] \notin {"running", "stored"} /\ i \notin registered /\ \A b \in H : b = a
  <2>1. <<"worker">> \notin Holders(i) /\ <<"registry">> \notin Holders(i)
    BY <1>5, <1>7, Zenon
  <2>2. \A b \in H : <<"call", b>> \in Holders(i)
    BY <1>3, Zenon
  <2> QED BY <1>3, <1>4, <1>7, <2>1, <2>2, Zenon
<1>8. ASSUME NEW a \in Actors, a \in H, state[i] \notin {"running", "stored"}, i \notin registered,
             \A b \in Actors \ {a} : b \notin H
      PROVE  Holders(i) = {<<"call", a>>}
  <2>1. H = {a}
    BY <1>1, <1>8, Zenon
  <2> QED BY <1>3, <1>8, <2>1, Zenon
<1> QED BY <1>1, <1>6, <1>7, <1>8, Zenon

LEMMA SpawnKeeps ==
  ASSUME ThreadInv, NEW o \in Owners, NEW i \in Ids, Spawn(o, i), inner' = inner,
         o \in Ids => inner[o] = i, o \in Callers => \A j \in Ids : inner[j] # i
  PROVE  ThreadInv'
<1>0. ThreadShape /\ TodoShape(todo) /\ StateInv /\ EntryInv /\ OwnInv
  BY Zenon DEF ThreadInv
<1>1. /\ state[i] = "new" /\ lock' = lock /\ slot' = slot /\ todo' = todo /\ taken' = taken
      /\ i \notin registered /\ (\A p \in Owners : owns[p][i] = 0)
      /\ (\A a \in Actors : ~ Holds(todo, a, i)) /\ slot[i] = "empty"
  BY <1>0, Zenon DEF Spawn, StateInv
<1>2. CASE /\ state' = [state EXCEPT ![i] = "running"] /\ closure' = [closure EXCEPT ![i] = 1]
           /\ registered' = registered \cup {i} /\ owns' = [owns EXCEPT ![o][i] = 1]
  <2>1. /\ state'[i] = "running" /\ \A j \in Ids \ {i} : state'[j] = state[j]
        /\ owns'[o][i] = 1 /\ \A p \in Owners, j \in Ids : owns'[p][j] = IF p = o /\ j = i THEN 1 ELSE owns[p][j]
    BY <1>0, <1>2, Zenon DEF ThreadShape
  <2>2. ThreadShape'
    <3>1. owns' \in [Owners -> [Ids -> 0..MaxOwned]]
      BY <1>0, <1>2, ThreadAssumption DEF ThreadShape
    <3> QED BY <1>0, <1>1, <1>2, <3>1 DEF ThreadShape
  <2>3. StateInv'
    BY <1>0, <1>1, <1>2, <2>1 DEF StateInv
  <2>4. EntryInv'
    BY <1>0, <1>1, <1>2, <2>1 DEF EntryInv, EntryOf, StateInv
  <2>5. OwnInv'
    <3>1. ASSUME NEW k \in Ids, NEW j \in Ids, owns'[k][j] > 0
          PROVE  inner'[k] = j /\ owns'[k][j] = 1 /\ \A p \in Owners \ {k} : owns'[p][j] = 0
      <4>1. CASE k = o /\ j = i
        BY <1>1, <2>1, <4>1, Zenon
      <4>2. CASE ~(k = o /\ j = i)
        <5>1. owns[k][j] > 0 /\ owns'[k][j] = owns[k][j] /\ k \in Owners
          BY <2>1, <3>1, <4>2, Zenon DEF Owners, Actors
        <5>2. inner[k] = j /\ owns[k][j] = 1 /\ \A p \in Owners \ {k} : owns[p][j] = 0
          BY <1>0, <5>1, Zenon DEF OwnInv
        <5>3. j # i
          BY <1>1, <5>1, <5>2
        <5> QED BY <2>1, <5>1, <5>2, <5>3
      <4> QED BY <4>1, <4>2, Zenon
    <3>2. ASSUME NEW j \in registered'
          PROVE  Named(j)' \/ \E a \in Actors : Cares(todo', a, j)
      <4>1. CASE j = i
        BY <2>1, <4>1 DEF Named
      <4>2. CASE j # i
        <5>1. j \in registered /\ j \in Ids
          BY <1>0, <1>2, <4>2, Zenon DEF ThreadShape
        <5>2. Named(j)' <=> Named(j)
          BY <2>1, <4>2, <5>1, Zenon DEF Named
        <5> QED BY <1>0, <1>1, <5>1, <5>2, Zenon DEF OwnInv
      <4> QED BY <4>1, <4>2, Zenon
    <3> QED BY <3>1, <3>2, Zenon DEF OwnInv
  <2> QED BY <1>0, <1>1, <2>2, <2>3, <2>4, <2>5, Zenon DEF ThreadInv
<1>3. CASE state' = [state EXCEPT ![i] = "failed"] /\ UNCHANGED <<closure, registered, owns>>
  <2>1. state'[i] = "failed" /\ \A j \in Ids \ {i} : state'[j] = state[j]
    BY <1>0, <1>3, Zenon DEF ThreadShape
  <2>2. ThreadShape'
    BY <1>0, <1>1, <1>3, Zenon DEF ThreadShape
  <2>3. StateInv'
    BY <1>0, <1>1, <1>3, <2>1 DEF StateInv
  <2>4. EntryInv'
    BY <1>0, <1>1, <1>3, <2>1, Zenon DEF EntryInv, EntryOf
  <2>5. OwnInv'
    BY <1>0, <1>1, <1>3 DEF OwnInv, Named
  <2> QED BY <1>0, <1>1, <2>2, <2>3, <2>4, <2>5, Zenon DEF ThreadInv
<1> QED BY <1>2, <1>3, Zenon DEF Spawn

LEMMA StoreKeeps ==
  ASSUME ThreadInv, NEW i \in Ids, StoreResult(i), inner' = inner
  PROVE  ThreadInv'
<1>0. ThreadShape /\ TodoShape(todo) /\ StateInv /\ EntryInv /\ OwnInv
  BY Zenon DEF ThreadInv
<1>1. /\ state[i] = "running" /\ state' = [state EXCEPT ![i] = "stored"]
      /\ slot' = [slot EXCEPT ![i] = "full"]
      /\ UNCHANGED <<registered, lock, closure, owns, todo, taken>>
  BY Zenon DEF StoreResult
<1>2. /\ state'[i] = "stored" /\ slot'[i] = "full" /\ slot[i] = "empty"
      /\ \A j \in Ids \ {i} : state'[j] = state[j] /\ slot'[j] = slot[j]
  BY <1>0, <1>1, Zenon DEF ThreadShape, StateInv
<1>3. ThreadShape'
  BY <1>0, <1>1, Zenon DEF ThreadShape
<1>4. StateInv'
  BY <1>0, <1>1, <1>2 DEF StateInv
<1>5. EntryInv'
  BY <1>0, <1>1, <1>2 DEF EntryInv, EntryOf
<1>6. OwnInv'
  BY <1>0, <1>1 DEF OwnInv, Named
<1> QED BY <1>0, <1>1, <1>3, <1>4, <1>5, <1>6, Zenon DEF ThreadInv

LEMMA ExitTurns ==
  ASSUME ThreadInv, NEW i \in Ids, Exit(i), inner' = inner
  PROVE  ThreadInv'
<1>0. ThreadShape /\ TodoShape(todo) /\ StateInv /\ EntryInv /\ OwnInv /\ i \in Actors
  BY Zenon DEF ThreadInv, Actors
<1>1. /\ state[i] = "stored" /\ state' = [state EXCEPT ![i] = "exited"]
      /\ closure' = [closure EXCEPT ![i] = 0]
      /\ UNCHANGED <<registered, lock, slot, owns, taken>>
  BY Zenon DEF Exit
<1>2. Turns(i, "entry", i)
  BY <1>0, BeginTurns, Zenon DEF Exit
<1>3. todo[i] = <<>> /\ \A o, j : ~ At(todo, i, o, j)
  BY <1>0, <1>1, Zenon DEF StateInv, At
<1>4. state'[i] = "exited" /\ \A j \in Ids \ {i} : state'[j] = state[j]
  BY <1>0, <1>1, Zenon DEF ThreadShape
<1>5. TodoShape(todo')
  BY <1>2, Zenon DEF Turns, OthersWait
<1>6. /\ \A a \in Actors : \A j : Holds(todo', a, j) <=> Holds(todo, a, j) \/ (a = i /\ j = i)
      /\ \A a \in Actors : \A j : Cares(todo', a, j) <=> Cares(todo, a, j)
      /\ \A a \in Actors \ {i} : todo'[a] = todo[a]
      /\ \A c \in Callers : \A j : At(todo', c, "join", j) <=> At(todo, c, "join", j)
      /\ \A c \in Callers : \A j : At(todo', c, "take", j) <=> At(todo, c, "take", j)
  <2>1. \A c \in Callers : c \in Actors \ {i}
    BY ThreadAssumption, Zenon DEF Actors
  <2> QED BY <1>2, <1>3, <2>1 DEF Turns, OthersWait, Holds, Cares
<1>7. ThreadShape'
  BY <1>0, <1>1 DEF ThreadShape
<1>8. StateInv'
  <2>1. \A j \in Ids : j \in Actors
    BY Zenon DEF Actors
  <2> QED BY <1>0, <1>1, <1>4, <1>6, <2>1 DEF StateInv
<1>9. EntryInv'
  BY <1>0, <1>1, <1>4, <1>6 DEF EntryInv, EntryOf
<1>10. OwnInv'
  BY <1>0, <1>1, <1>6 DEF OwnInv, Named
<1> QED BY <1>5, <1>7, <1>8, <1>9, <1>10, Zenon DEF ThreadInv

-----------------------------------------------------------------------------
LEMMA DoingAt ==
  ASSUME TodoShape(todo), NEW a \in Actors, NEW op, Doing(a, op)
  PROVE  /\ TaskId(a) \in Ids /\ todo[a] # <<>>
         /\ \A o, j : At(todo, a, o, j) <=> o = op /\ j = TaskId(a)
<1>0. PICK x : x = Head(todo[a])
  BY Zenon
<1>1. todo[a] # <<>> /\ todo[a] \in Seq(Tasks) /\ x \in Tasks /\ x.op = op
  BY <1>0 DEF Doing, TodoShape
<1>2. x.id \in Ids /\ x = Task(op, x.id)
  BY <1>1, Zenon DEF Tasks, Task
<1>3. TaskId(a) = x.id
  BY <1>0, Zenon DEF TaskId
<1>4. \A o, j : x = Task(o, j) <=> o = op /\ j = x.id
  BY <1>2, TaskIs
<1> QED BY <1>0, <1>1, <1>2, <1>3, <1>4, Zenon DEF At

LEMMA IdleAt ==
  ASSUME NEW a, Idle(a)
  PROVE  \A o, j : ~ At(todo, a, o, j)
BY Zenon DEF Idle, At

LEMMA ShareKeeps ==
  ASSUME ThreadInv, NEW c \in Callers, NEW d \in Callers, NEW i \in Ids, Share(c, d, i), inner' = inner
  PROVE  ThreadInv'
<1>0. /\ ThreadShape /\ TodoShape(todo) /\ StateInv /\ EntryInv /\ OwnInv
      /\ d \in Owners /\ c \in Owners /\ d \notin Ids /\ c \notin Ids
  BY ThreadAssumption, Zenon DEF ThreadInv, Owners, Actors
<1>1. /\ owns[c][i] > 0 /\ owns[d][i] < MaxOwned /\ owns' = [owns EXCEPT ![d][i] = @ + 1]
      /\ UNCHANGED <<state, registered, lock, closure, slot, todo, taken>>
  BY Zenon DEF Share
<1>2. \A p \in Owners, j \in Ids : owns'[p][j] = IF p = d /\ j = i THEN owns[d][i] + 1 ELSE owns[p][j]
  BY <1>0, <1>1, Zenon DEF ThreadShape
<1>3. ThreadShape'
  <2>1. owns[d][i] + 1 \in 0..MaxOwned
    BY <1>0, <1>1, ThreadAssumption DEF ThreadShape
  <2>2. owns' \in [Owners -> [Ids -> 0..MaxOwned]]
    BY <1>0, <1>1, <2>1, Zenon DEF ThreadShape
  <2> QED BY <1>0, <1>1, <2>2, Zenon DEF ThreadShape
<1>4. StateInv'
  <2>1. state[i] \notin {"new", "failed"}
    BY <1>0, <1>1 DEF StateInv
  <2> QED BY <1>0, <1>1, <1>2, <2>1 DEF StateInv
<1>5. EntryInv'
  BY <1>0, <1>1, Zenon DEF EntryInv, EntryOf
<1>6. OwnInv'
  <2>1. ASSUME NEW k \in Ids, NEW j \in Ids, owns'[k][j] > 0
        PROVE  inner'[k] = j /\ owns'[k][j] = 1 /\ \A p \in Owners \ {k} : owns'[p][j] = 0
    <3>1. k \in Owners /\ k # d /\ k # c
      BY <1>0, Zenon DEF Owners, Actors
    <3>2. owns'[k][j] = owns[k][j]
      BY <1>2, <3>1, Zenon
    <3>3. inner[k] = j /\ owns[k][j] = 1 /\ \A p \in Owners \ {k} : owns[p][j] = 0
      BY <1>0, <2>1, <3>2, Zenon DEF OwnInv
    <3>4. j # i
      BY <1>0, <1>1, <3>1, <3>3
    <3> QED BY <1>2, <3>2, <3>3, <3>4, Zenon
  <2>2. ASSUME NEW j \in Ids, Named(j) PROVE Named(j)'
    <3>1. PICK p \in Owners : owns[p][j] > 0
      BY <2>2, Zenon DEF Named
    <3>2. owns[p][j] \in Nat /\ owns[d][i] \in Nat
      BY <1>0, ThreadAssumption DEF ThreadShape
    <3>3. owns'[p][j] > 0
      BY <1>2, <3>1, <3>2
    <3> QED BY <3>3, Zenon DEF Named
  <2> QED BY <1>0, <1>1, <2>1, <2>2, Zenon DEF OwnInv, ThreadShape
<1> QED BY <1>0, <1>1, <1>3, <1>4, <1>5, <1>6, Zenon DEF ThreadInv

LEMMA DropHandleKeeps ==
  ASSUME ThreadInv, NEW c \in Callers, NEW i \in Ids, DropHandle(c, i), inner' = inner
  PROVE  ThreadInv'
<1>0. /\ ThreadShape /\ TodoShape(todo) /\ StateInv /\ EntryInv /\ OwnInv
      /\ c \in Owners /\ c \in Actors /\ c \notin Ids
  BY ThreadAssumption, Zenon DEF ThreadInv, Owners, Actors
<1>1. /\ Idle(c) /\ owns[c][i] > 0 /\ owns' = [owns EXCEPT ![c][i] = @ - 1]
      /\ BeginTasks(c, <<Task("name", i)>>)
      /\ UNCHANGED <<state, registered, lock, closure, slot, taken>>
  BY Zenon DEF DropHandle
<1>2. Turns(c, "name", i)
  BY <1>0, <1>1, BeginTurns, Zenon
<1>3. \A o, j : ~ At(todo, c, o, j)
  BY <1>1, IdleAt, Zenon
<1>4. \A p \in Owners, j \in Ids : owns'[p][j] = IF p = c /\ j = i THEN owns[c][i] - 1 ELSE owns[p][j]
  BY <1>0, <1>1, Zenon DEF ThreadShape
<1>5. /\ \A a \in Actors : \A j : Holds(todo', a, j) <=> Holds(todo, a, j)
      /\ \A a \in Actors : \A j : Cares(todo, a, j) => Cares(todo', a, j)
      /\ Cares(todo', c, i)
      /\ \A a \in Actors \ {c} : todo'[a] = todo[a]
      /\ \A d \in Callers : \A j : At(todo', d, "join", j) <=> At(todo, d, "join", j)
      /\ \A d \in Callers : \A j : At(todo', d, "take", j) <=> At(todo, d, "take", j)
  <2>1. \A d \in Callers : d \in Actors
    BY Zenon DEF Actors
  <2> QED BY <1>2, <1>3, <2>1 DEF Turns, OthersWait, Holds, Cares
<1>6. ThreadShape'
  <2>1. owns[c][i] - 1 \in 0..MaxOwned
    BY <1>0, <1>1, ThreadAssumption DEF ThreadShape
  <2>2. owns' \in [Owners -> [Ids -> 0..MaxOwned]]
    BY <1>0, <1>1, <2>1, Zenon DEF ThreadShape
  <2> QED BY <1>0, <1>1, <2>2, Zenon DEF ThreadShape
<1>7. StateInv'
  <2>1. state[i] \notin {"new", "failed"}
    BY <1>0, <1>1 DEF StateInv
  <2>2. \A j \in Ids : j \in Actors \ {c}
    BY <1>0, Zenon DEF Actors
  <2> QED BY <1>0, <1>1, <1>4, <1>5, <2>1, <2>2 DEF StateInv
<1>8. EntryInv'
  BY <1>0, <1>1, <1>5, Zenon DEF EntryInv, EntryOf
<1>9. OwnInv'
  <2>1. ASSUME NEW k \in Ids, NEW j \in Ids, owns'[k][j] > 0
        PROVE  inner'[k] = j /\ owns'[k][j] = 1 /\ \A p \in Owners \ {k} : owns'[p][j] = 0
    <3>1. k \in Owners /\ k # c
      BY <1>0, Zenon DEF Owners, Actors
    <3>2. owns'[k][j] = owns[k][j]
      BY <1>4, <3>1, Zenon
    <3>3. inner[k] = j /\ owns[k][j] = 1 /\ \A p \in Owners \ {k} : owns[p][j] = 0
      BY <1>0, <2>1, <3>2, Zenon DEF OwnInv
    <3>4. j # i
      BY <1>0, <1>1, <3>1, <3>3
    <3> QED BY <1>4, <3>2, <3>3, <3>4, Zenon
  <2>2. ASSUME NEW j \in Ids, j # i, Named(j) PROVE Named(j)'
    BY <1>4, <2>2, Zenon DEF Named
  <2> QED BY <1>0, <1>1, <1>5, <2>1, <2>2 DEF OwnInv, ThreadShape
<1> QED BY <1>2, <1>6, <1>7, <1>8, <1>9, Zenon DEF ThreadInv, Turns, OthersWait

LEMMA ThreadSame ==
  ASSUME ThreadInv, UNCHANGED <<inner, state, registered, lock, closure, slot, owns, todo, taken>>
  PROVE  ThreadInv'
<1>1. ThreadShape' /\ TodoShape(todo')
  BY Zenon DEF ThreadInv, ThreadShape
<1>2. StateInv' /\ EntryInv' /\ OwnInv'
  BY DEF ThreadInv, StateInv, EntryInv, EntryOf, OwnInv, Named
<1> QED BY <1>1, <1>2, Zenon DEF ThreadInv

(* An entry nobody touches, and whom it is with. *)
LEMMA EntrySame ==
  ASSUME EntryInv, NEW j \in Ids, j \in registered' <=> j \in registered,
         \A b \in Actors : Holds(todo', b, j) <=> Holds(todo, b, j),
         \A d \in Callers : At(todo', d, "join", j) => At(todo, d, "join", j),
         \A d \in Callers : At(todo', d, "take", j) => At(todo, d, "take", j),
         slot'[j] = slot[j], state'[j] = state[j]
  PROVE  EntryOf(j)'
BY Zenon DEF EntryInv, EntryOf

LEMMA EntryHeldOnce ==
  ASSUME EntryInv, NEW j \in Ids, \A b \in Actors : Holds(todo', b, j) <=> Holds(todo, b, j)
  PROVE  \A a, b \in Actors \ {j} : Holds(todo', a, j) /\ Holds(todo', b, j) => a = b
BY Zenon DEF EntryInv, EntryOf

(* An entry is taken out of the registry: by a join, a detach or a drop. *)
LEMMA TakesOut ==
  ASSUME ThreadInv, NEW a \in Actors, NEW i \in registered, NEW op \in {"join", "entry"},
         Turns(a, op, i), registered' = registered \ {i}, lock' \in Actors \cup {NoOne},
         UNCHANGED <<inner, state, closure, slot, owns, taken>>,
         \A j : ~ Holds(todo, a, j), \A j : Cares(todo, a, j) => j = i,
         a \in Ids => state[a] = "exited"
  PROVE  ThreadInv'
<1>0. ThreadShape /\ TodoShape(todo) /\ StateInv /\ EntryInv /\ OwnInv /\ i \in Ids
  BY Zenon DEF ThreadInv, ThreadShape
<1>1. /\ \A b \in Actors : \A j : Holds(todo', b, j) <=> Holds(todo, b, j) \/ (b = a /\ j = i)
      /\ \A b \in Actors : \A j : Cares(todo, b, j) => Cares(todo', b, j) \/ j = i
      /\ \A b \in Actors \ {a} : todo'[b] = todo[b]
      /\ \A d \in Callers : \A j : At(todo', d, "join", j) => At(todo, d, "join", j) \/ j = i
      /\ \A d \in Callers : \A j : At(todo', d, "take", j) => At(todo, d, "take", j)
  <2>1. \A d \in Callers : d \in Actors
    BY Zenon DEF Actors
  <2> QED BY <2>1 DEF Turns, OthersWait, Holds, Cares
<1>2. ThreadShape'
  BY <1>0, Zenon DEF ThreadShape
<1>3. StateInv'
  <2>1. state[i] \notin {"new", "failed"}
    BY <1>0, Zenon DEF StateInv
  <2>2. \A j \in Ids : j \in Actors
    BY Zenon DEF Actors
  <2>3. ASSUME NEW j \in Ids, state[j] # "exited" PROVE todo'[j] = <<>>
    BY <1>0, <1>1, <2>2, <2>3 DEF StateInv
  <2> QED BY <1>0, <1>1, <2>1, <2>3 DEF StateInv
<1>4. EntryInv'
  <2>1. slot[i] \in {"empty", "full"} /\ \A b \in Actors \ {i} : ~ Holds(todo, b, i)
    BY <1>0, Zenon DEF EntryInv, EntryOf
  <2>2. ASSUME NEW j \in Ids, j # i
        PROVE  /\ j \in registered' <=> j \in registered
               /\ \A b \in Actors : Holds(todo', b, j) <=> Holds(todo, b, j)
               /\ \A d \in Callers : At(todo', d, "join", j) => At(todo, d, "join", j)
    BY <1>1, <2>2, Zenon
  <2>3. i \notin registered' /\ Holds(todo', a, i)
    BY <1>1, Zenon
  <2>4. EntryOf(i)'
    BY <1>0, <1>1, <2>1, <2>3, Zenon DEF EntryInv, EntryOf
  <2>5. ASSUME NEW j \in Ids, j # i PROVE EntryOf(j)'
    BY <1>0, <1>1, <2>2, <2>5, EntrySame, Zenon
  <2> QED BY <2>4, <2>5, Zenon DEF EntryInv
<1>5. OwnInv'
  BY <1>0, <1>1 DEF OwnInv, Named
<1> QED BY <1>2, <1>3, <1>4, <1>5, Zenon DEF ThreadInv, Turns, OthersWait

(* A call goes on without touching slots, names or the registry's entries. *)
LEMMA MovesOn ==
  ASSUME ThreadInv, NEW a \in Actors, todo[a] # <<>>, OthersWait(a), lock' \in Actors \cup {NoOne},
         UNCHANGED <<inner, state, registered, closure, slot, owns, taken>>,
         \A j : Holds(todo', a, j) <=> Holds(todo, a, j),
         \A j \in registered : Cares(todo, a, j) => Cares(todo', a, j) \/ Named(j),
         \A j : At(todo', a, "join", j) => At(todo, a, "join", j),
         \A j : At(todo', a, "take", j) => slot[j] = "full"
  PROVE  ThreadInv'
<1>0. ThreadShape /\ TodoShape(todo) /\ StateInv /\ EntryInv /\ OwnInv
  BY Zenon DEF ThreadInv
<1>1. /\ \A b \in Actors : \A j : Holds(todo', b, j) <=> Holds(todo, b, j)
      /\ \A b \in Actors : \A j \in registered : Cares(todo, b, j) => Cares(todo', b, j) \/ Named(j)
      /\ \A b \in Actors \ {a} : todo'[b] = todo[b]
      /\ \A d \in Callers : \A j : At(todo', d, "join", j) => At(todo, d, "join", j)
      /\ \A d \in Callers : \A j : At(todo', d, "take", j) => At(todo, d, "take", j) \/ slot[j] = "full"
  <2>1. \A d \in Callers : d \in Actors
    BY Zenon DEF Actors
  <2> QED BY <2>1, Zenon DEF OthersWait, Holds, Cares
<1>2. ThreadShape'
  BY <1>0, Zenon DEF ThreadShape
<1>3. StateInv'
  <2>1. ASSUME NEW j \in Ids, state[j] # "exited" PROVE todo'[j] = <<>>
    <3>1. todo[j] = <<>> /\ j \in Actors
      BY <1>0, <2>1, Zenon DEF StateInv, Actors
    <3> QED BY <1>1, <3>1, Zenon
  <2> QED BY <1>0, <1>1, <2>1, Zenon DEF StateInv
<1>4. EntryInv'
  BY <1>0, <1>1, Zenon DEF EntryInv, EntryOf
<1>5. OwnInv'
  <2>1. ASSUME NEW j \in registered PROVE Named(j)' \/ \E b \in Actors : Cares(todo', b, j)
    <3>1. Named(j)' <=> Named(j)
      BY Zenon DEF Named
    <3> QED BY <1>0, <1>1, <3>1, Zenon DEF OwnInv
  <2> QED BY <1>0, <2>1 DEF OwnInv
<1> QED BY <1>2, <1>3, <1>4, <1>5, Zenon DEF ThreadInv, OthersWait

LEMMA JoinKeeps ==
  ASSUME ThreadInv, NEW c \in Callers, NEW i \in Ids, Join(c, i) \/ Detach(c, i), inner' = inner
  PROVE  ThreadInv'
<1>0. TodoShape(todo) /\ ThreadShape /\ c \in Actors /\ c \notin Ids
  BY ThreadAssumption, Zenon DEF ThreadInv, Actors
<1>1. Idle(c) /\ UNCHANGED <<state, closure, slot, owns, taken>>
  BY Zenon DEF Join, Detach
<1>2. (\A j : ~ Holds(todo, c, j)) /\ (\A j : ~ Cares(todo, c, j))
  BY <1>1, IdleAt, Zenon DEF Holds, Cares
<1>3. CASE i \in registered
  <2>1. registered' = registered \ {i} /\ lock' \in Actors \cup {NoOne}
    BY <1>0, <1>3, Zenon DEF Join, Detach, ThreadShape
  <2>2. \E op \in {"join", "entry"} : Turns(c, op, i)
    <3>1. CASE Join(c, i)
      BY <1>0, <1>3, <3>1, BeginTurns, Zenon DEF Join
    <3>2. CASE Detach(c, i)
      BY <1>0, <1>3, <3>2, BeginTurns, Zenon DEF Detach
    <3> QED BY <3>1, <3>2, Zenon
  <2> QED BY <1>0, <1>1, <1>2, <1>3, <2>1, <2>2, TakesOut, Zenon
<1>4. CASE i \notin registered
  <2>1. UNCHANGED <<registered, lock, todo>>
    BY <1>4, Zenon DEF Join, Detach
  <2> QED BY <1>1, <2>1, ThreadSame, Zenon
<1> QED BY <1>3, <1>4, Zenon

LEMMA JoinedKeeps ==
  ASSUME ThreadInv, NEW c \in Callers, Joined(c), inner' = inner
  PROVE  ThreadInv'
<1>0. ThreadShape /\ TodoShape(todo) /\ StateInv /\ EntryInv /\ c \in Actors
  BY Zenon DEF ThreadInv, Actors
<1>1. PICK i : i = TaskId(c)
  BY Zenon
<1>2. /\ Doing(c, "join") /\ state[i] = "exited" /\ Instead(c, <<Task("take", i)>>)
      /\ UNCHANGED <<state, registered, lock, closure, slot, owns, taken>>
  BY <1>1, Zenon DEF Joined
<1>3. i \in Ids /\ todo[c] # <<>> /\ \A o, j : At(todo, c, o, j) <=> o = "join" /\ j = i
  BY <1>0, <1>1, <1>2, DoingAt, Zenon
<1>4. Turns(c, "take", i)
  BY <1>0, <1>2, <1>3, InsteadTurns, Zenon
<1>5. slot[i] = "full"
  BY <1>0, <1>2, <1>3, Zenon DEF StateInv, EntryInv, EntryOf
<1>6. /\ \A j : Holds(todo', c, j) <=> Holds(todo, c, j)
      /\ \A j : ~ Cares(todo, c, j)
      /\ \A j : ~ At(todo', c, "join", j)
      /\ \A j : At(todo', c, "take", j) => slot[j] = "full"
  BY <1>3, <1>4, <1>5 DEF Turns, Holds, Cares
<1>7. OthersWait(c) /\ lock' \in Actors \cup {NoOne}
  BY <1>0, <1>2, <1>4, Zenon DEF Turns, ThreadShape
<1> QED BY <1>0, <1>2, <1>3, <1>6, <1>7, MovesOn, Zenon

LEMMA UnlockRegistryKeeps ==
  ASSUME ThreadInv, NEW c \in Callers, UnlockRegistry(c), inner' = inner
  PROVE  ThreadInv'
<1>0. TodoShape(todo) /\ c \in Actors
  BY Zenon DEF ThreadInv, Actors
<1>1. /\ Doing(c, "unlock") /\ Instead(c, <<>>) /\ lock' = NoOne
      /\ UNCHANGED <<state, registered, closure, slot, owns, taken>>
  BY Zenon DEF UnlockRegistry
<1>2. todo[c] # <<>> /\ \A o, j : At(todo, c, o, j) => o = "unlock"
  BY <1>0, <1>1, DoingAt, Zenon
<1>3. Rests(c)
  BY <1>0, <1>1, <1>2, InsteadRests, Zenon
<1>4. /\ \A j : ~ Holds(todo', c, j) /\ ~ Holds(todo, c, j)
      /\ \A j : ~ Cares(todo, c, j)
      /\ \A j : ~ At(todo', c, "join", j) /\ ~ At(todo', c, "take", j)
  BY <1>2, <1>3, Zenon DEF Rests, Holds, Cares
<1>5. OthersWait(c)
  BY <1>3, Zenon DEF Rests
<1> QED BY <1>0, <1>1, <1>2, <1>4, <1>5, MovesOn, Zenon

LEMMA NameGoneKeeps ==
  ASSUME ThreadInv, NEW a \in Actors, NameGone(a), inner' = inner
  PROVE  ThreadInv'
<1>0. TodoShape(todo) /\ ThreadShape
  BY Zenon DEF ThreadInv
<1>1. PICK i : i = TaskId(a)
  BY Zenon
<1>2. /\ Doing(a, "name") /\ UNCHANGED <<state, registered, lock, closure, slot, owns, taken>>
      /\ Instead(a, IF Named(i) THEN <<>> ELSE <<Task("destroy", i)>>)
  BY <1>1, Zenon DEF NameGone
<1>3. i \in Ids /\ todo[a] # <<>> /\ \A o, j : At(todo, a, o, j) <=> o = "name" /\ j = i
  BY <1>0, <1>1, <1>2, DoingAt, Zenon
<1>4. lock' \in Actors \cup {NoOne} /\ \A j : ~ Holds(todo, a, j) /\ (Cares(todo, a, j) => j = i)
  BY <1>0, <1>2, <1>3 DEF ThreadShape, Holds, Cares
<1>5. CASE Named(i)
  <2>1. Rests(a)
    BY <1>0, <1>2, <1>3, <1>5, InsteadRests, Zenon
  <2>2. /\ \A j : ~ Holds(todo', a, j)
        /\ \A j : ~ At(todo', a, "join", j) /\ ~ At(todo', a, "take", j)
    BY <2>1, Zenon DEF Rests, Holds
  <2>3. OthersWait(a)
    BY <2>1, Zenon DEF Rests
  <2> QED BY <1>2, <1>3, <1>4, <1>5, <2>2, <2>3, MovesOn, Zenon
<1>6. CASE ~ Named(i)
  <2>1. Turns(a, "destroy", i)
    BY <1>0, <1>2, <1>3, <1>6, InsteadTurns, Zenon
  <2>2. /\ \A j : ~ Holds(todo', a, j)
        /\ \A j : ~ At(todo', a, "join", j) /\ ~ At(todo', a, "take", j)
        /\ Cares(todo', a, i)
    BY <2>1 DEF Turns, Holds, Cares
  <2>3. OthersWait(a)
    BY <2>1, Zenon DEF Turns
  <2> QED BY <1>2, <1>3, <1>4, <2>2, <2>3, MovesOn, Zenon
<1> QED BY <1>5, <1>6, Zenon

LEMMA DestroyKeeps ==
  ASSUME ThreadInv, NEW a \in Actors, Destroy(a), inner' = inner
  PROVE  ThreadInv'
<1>0. TodoShape(todo) /\ ThreadShape /\ StateInv
  BY Zenon DEF ThreadInv
<1>1. PICK i : i = TaskId(a)
  BY Zenon
<1>2. /\ Doing(a, "destroy") /\ UNCHANGED <<state, lock, closure, slot, owns, taken>>
      /\ registered' = registered \ {i}
      /\ Instead(a, IF i \in registered THEN <<Task("entry", i)>> ELSE <<>>)
  BY <1>1, Zenon DEF Destroy
<1>3. i \in Ids /\ todo[a] # <<>> /\ \A o, j : At(todo, a, o, j) <=> o = "destroy" /\ j = i
  BY <1>0, <1>1, <1>2, DoingAt, Zenon
<1>4. lock' \in Actors \cup {NoOne} /\ \A j : ~ Holds(todo, a, j) /\ (Cares(todo, a, j) => j = i)
  BY <1>0, <1>2, <1>3 DEF ThreadShape, Holds, Cares
<1>5. CASE i \in registered
  <2>1. Turns(a, "entry", i)
    BY <1>0, <1>2, <1>3, <1>5, InsteadTurns, Zenon
  <2>2. a \in Ids => state[a] = "exited"
    BY <1>0, <1>3, Zenon DEF StateInv
  <2> QED BY <1>2, <1>4, <1>5, <2>1, <2>2, TakesOut, Zenon
<1>6. CASE i \notin registered
  <2>1. Rests(a)
    BY <1>0, <1>2, <1>3, <1>6, InsteadRests, Zenon
  <2>2. /\ \A j : ~ Holds(todo', a, j)
        /\ \A j : ~ At(todo', a, "join", j) /\ ~ At(todo', a, "take", j)
    BY <2>1, Zenon DEF Rests, Holds
  <2>3. OthersWait(a) /\ registered' = registered
    BY <1>2, <1>6, <2>1, Zenon DEF Rests
  <2> QED BY <1>2, <1>3, <1>4, <1>6, <2>2, <2>3, MovesOn, Zenon
<1> QED BY <1>5, <1>6, Zenon

LEMMA TakeResultKeeps ==
  ASSUME ThreadInv, NEW c \in Callers, TakeResult(c), inner' = inner
  PROVE  ThreadInv'
<1>0. /\ ThreadShape /\ TodoShape(todo) /\ StateInv /\ EntryInv /\ OwnInv
      /\ c \in Actors /\ c \in Owners /\ c \notin Ids
  BY ThreadAssumption, Zenon DEF ThreadInv, Actors, Owners
<1>1. PICK i : i = TaskId(c)
  BY Zenon
<1>2. /\ Doing(c, "take") /\ slot[i] = "full" /\ slot' = [slot EXCEPT ![i] = "taken"]
      /\ taken' = [taken EXCEPT ![i] = @ + 1]
      /\ owns' = [owns EXCEPT ![i] = [j \in Ids |-> 0],
                              ![c] = [j \in Ids |-> owns[c][j] + owns[i][j]]]
      /\ Instead(c, <<Task("entry", i)>>) /\ UNCHANGED <<state, registered, lock, closure>>
  BY <1>1, Zenon DEF TakeResult
<1>3. i \in Ids /\ todo[c] # <<>> /\ \A o, j : At(todo, c, o, j) <=> o = "take" /\ j = i
  BY <1>0, <1>1, <1>2, DoingAt, Zenon
<1>4. Turns(c, "entry", i)
  BY <1>0, <1>2, <1>3, InsteadTurns, Zenon
<1>5. /\ slot'[i] = "taken" /\ taken'[i] = taken[i] + 1
      /\ \A j \in Ids \ {i} : slot'[j] = slot[j] /\ taken'[j] = taken[j]
  BY <1>0, <1>2, <1>3, Zenon DEF ThreadShape
<1>6. /\ \A j \in Ids : owns'[i][j] = 0 /\ owns'[c][j] = owns[c][j] + owns[i][j]
      /\ \A p \in Owners \ {c, i} : owns'[p] = owns[p]
      /\ i \in Owners /\ i # c
  BY <1>0, <1>2, <1>3, Zenon DEF ThreadShape, Owners, Actors
<1>7. /\ \A b \in Actors : \A j : Holds(todo', b, j) <=> Holds(todo, b, j)
      /\ \A b \in Actors : \A j : Cares(todo, b, j) => Cares(todo', b, j)
      /\ \A b \in Actors \ {c} : todo'[b] = todo[b]
      /\ \A d \in Callers : \A j : At(todo', d, "join", j) => d # c /\ At(todo, d, "join", j)
      /\ \A d \in Callers : \A j : At(todo', d, "take", j) => d # c /\ At(todo, d, "take", j)
  <2>1. \A d \in Callers : d \in Actors
    BY Zenon DEF Actors
  <2> QED BY <1>3, <1>4, <2>1 DEF Turns, OthersWait, Holds, Cares
<1>8. \A p \in Owners, j \in Ids : owns[p][j] \in 0..MaxOwned
  BY <1>0 DEF ThreadShape
<1>9. ThreadShape'
  <2>1. ASSUME NEW j \in Ids PROVE owns[c][j] + owns[i][j] \in 0..MaxOwned
    <3>1. owns[c][j] \in 0..MaxOwned /\ owns[i][j] \in 0..MaxOwned
      BY <1>0, <1>6, <1>8, Zenon
    <3>2. owns[i][j] > 0 => owns[c][j] = 0
      BY <1>0, <1>3 DEF OwnInv
    <3> QED BY <3>1, <3>2, ThreadAssumption
  <2>2. [j \in Ids |-> owns[c][j] + owns[i][j]] \in [Ids -> 0..MaxOwned]
    BY <2>1, Zenon
  <2>3. [j \in Ids |-> 0] \in [Ids -> 0..MaxOwned]
    BY ThreadAssumption
  <2>4. owns' \in [Owners -> [Ids -> 0..MaxOwned]]
    BY <1>0, <1>2, <2>2, <2>3, Zenon DEF ThreadShape
  <2>5. slot' \in [Ids -> {"empty", "full", "taken", "released"}] /\ taken' \in [Ids -> Nat]
    <3>1. taken[i] + 1 \in Nat
      BY <1>0, <1>3 DEF ThreadShape
    <3> QED BY <1>0, <1>2, <3>1, Zenon DEF ThreadShape
  <2> QED BY <1>0, <1>2, <2>4, <2>5, Zenon DEF ThreadShape
<1>10. StateInv'
  <2>1. state[i] \notin {"new", "running", "failed"} /\ taken[i] = 0
    BY <1>0, <1>2, <1>3, Zenon DEF StateInv
  <2>2. ASSUME NEW j \in Ids, state[j] \in {"new", "failed"}, NEW p \in Owners
        PROVE  owns'[p][j] = 0
    <3>1. owns[p][j] = 0 /\ owns[c][j] = 0 /\ owns[i][j] = 0
      BY <1>0, <1>6, <2>2, Zenon DEF StateInv
    <3> QED BY <1>6, <3>1
  <2>3. ASSUME NEW j \in Ids, state[j] # "exited" PROVE todo'[j] = <<>>
    <3>1. todo[j] = <<>> /\ j \in Actors /\ j # c
      BY <1>0, <2>3, Zenon DEF StateInv, Actors
    <3> QED BY <1>7, <3>1, Zenon
  <2>4. \A j \in Ids : /\ slot'[j] = "empty" <=> state[j] \in {"new", "running", "failed"}
                      /\ taken'[j] = IF slot'[j] = "taken" THEN 1 ELSE 0
    BY <1>0, <1>5, <2>1 DEF StateInv
  <2>5. \A j \in Ids : state[j] \in {"new", "failed"} =>
          j \notin registered /\ \A b \in Actors : ~ Holds(todo', b, j)
    BY <1>0, <1>7, Zenon DEF StateInv
  <2> QED BY <1>2, <2>2, <2>3, <2>4, <2>5, Zenon DEF StateInv
<1>11. EntryInv'
  <2>1. /\ i \notin registered /\ Holds(todo, c, i) /\ c \in Actors \ {i}
        /\ \A d \in Callers \ {c} : ~ Holds(todo, d, i)
    <3>1. Holds(todo, c, i) /\ \A d \in Callers : d \in Actors \ {i}
      BY <1>0, <1>3, ThreadAssumption, Zenon DEF Holds, Actors
    <3> QED BY <1>0, <1>3, <3>1, Zenon DEF EntryInv, EntryOf
  <2>2. \A d \in Callers : ~ At(todo', d, "join", i) /\ ~ At(todo', d, "take", i)
    BY <1>7, <2>1, Zenon DEF Holds
  <2>3. EntryOf(i)'
    BY <1>2, <1>5, <1>7, <2>1, <2>2, EntryHeldOnce, <1>0, <1>3, Zenon DEF EntryOf
  <2>4. ASSUME NEW j \in Ids, j # i PROVE EntryOf(j)'
    BY <1>0, <1>2, <1>5, <1>7, <2>4, EntrySame, Zenon
  <2> QED BY <2>3, <2>4, Zenon DEF EntryInv
<1>12. OwnInv'
  <2>1. ASSUME NEW k \in Ids, NEW j \in Ids, owns'[k][j] > 0
        PROVE  inner'[k] = j /\ owns'[k][j] = 1 /\ \A p \in Owners \ {k} : owns'[p][j] = 0
    <3>1. k \in Owners \ {c, i}
      BY <1>0, <1>6, <2>1 DEF Owners, Actors
    <3>2. owns'[k][j] = owns[k][j]
      BY <1>6, <3>1, Zenon
    <3>3. inner[k] = j /\ owns[k][j] = 1 /\ \A p \in Owners \ {k} : owns[p][j] = 0
      BY <1>0, <2>1, <3>2, Zenon DEF OwnInv
    <3>4. owns[c][j] = 0 /\ owns[i][j] = 0
      BY <1>0, <1>6, <3>1, <3>3, Zenon
    <3> QED BY <1>6, <3>2, <3>3, <3>4
  <2>2. ASSUME NEW j \in Ids, Named(j) PROVE Named(j)'
    <3>1. PICK p \in Owners : owns[p][j] > 0
      BY <2>2, Zenon DEF Named
    <3>2. CASE p \in {c, i}
      <4>1. owns[c][j] \in Nat /\ owns[i][j] \in Nat
        BY <1>0, <1>6, <1>8, ThreadAssumption
      <4>2. owns'[c][j] > 0
        BY <1>6, <3>1, <3>2, <4>1
      <4> QED BY <1>0, <4>2, Zenon DEF Named
    <3>3. CASE p \notin {c, i}
      BY <1>6, <3>1, <3>3, Zenon DEF Named
    <3> QED BY <3>2, <3>3, Zenon
  <2> QED BY <1>0, <1>2, <1>7, <2>1, <2>2, Zenon DEF OwnInv, ThreadShape
<1> QED BY <1>4, <1>9, <1>10, <1>11, <1>12, Zenon DEF ThreadInv, Turns, OthersWait

(* What a drop of the slot of i by a leaves of the tasks. *)
LEMMA DropFrame ==
  ASSUME ThreadInv, NEW a \in Actors, NEW i \in Ids, todo[a] # <<>>, OthersWait(a),
         \A o, j : At(todo, a, o, j) <=> o = "entry" /\ j = i, \A j : ~ Holds(todo', a, j),
         state' = state
  PROVE  /\ \A b \in Actors : \A j : Holds(todo', b, j) <=> Holds(todo, b, j) /\ b # a
         /\ \A j : Holds(todo, a, j) <=> j = i
         /\ \A b \in Actors : \A j : Cares(todo, b, j) => Cares(todo', b, j)
         /\ \A d \in Callers : \A j : At(todo', d, "join", j) => At(todo, d, "join", j)
         /\ \A d \in Callers : \A j : At(todo', d, "take", j) => At(todo, d, "take", j)
         /\ \A j \in Ids : state'[j] # "exited" => todo'[j] = <<>>
<1>1. \A d \in Callers : d \in Actors
  BY Zenon DEF Actors
<1>2. ASSUME NEW j \in Ids, state'[j] # "exited" PROVE todo'[j] = <<>>
  <2>1. todo[j] = <<>> /\ j \in Actors
    BY <1>2, Zenon DEF ThreadInv, StateInv, Actors
  <2> QED BY <2>1, Zenon DEF OthersWait
<1> QED BY <1>1, <1>2 DEF OthersWait, Holds, Cares

LEMMA DropEntryKeeps ==
  ASSUME ThreadInv, NEW a \in Actors, DropEntry(a), inner' = inner
  PROVE  ThreadInv'
<1>0. ThreadShape /\ TodoShape(todo) /\ StateInv /\ EntryInv /\ OwnInv
  BY Zenon DEF ThreadInv
<1>1. PICK i : i = TaskId(a)
  BY Zenon
<1>2. Doing(a, "entry") /\ UNCHANGED <<state, registered, lock, closure, taken>>
  BY Zenon DEF DropEntry
<1>3. i \in Ids /\ todo[a] # <<>> /\ \A o, j : At(todo, a, o, j) <=> o = "entry" /\ j = i
  BY <1>0, <1>1, <1>2, DoingAt, Zenon
<1>4. CASE Holders(i) = {<<"call", a>>} /\ slot[i] = "full"
  <2>1. /\ slot' = [slot EXCEPT ![i] = "released"] /\ owns' = [owns EXCEPT ![i] = [j \in Ids |-> 0]]
        /\ Instead(a, IF inner[i] # NoOne /\ owns[i][inner[i]] > 0
                      THEN <<Task("name", inner[i])>> ELSE <<>>)
    BY <1>1, <1>4, Zenon DEF DropEntry
  <2>2. /\ OthersWait(a) /\ \A j : ~ Holds(todo', a, j)
        /\ \A j \in Ids : inner[i] = j /\ owns[i][j] > 0 => Cares(todo', a, j)
    <3>1. CASE inner[i] # NoOne /\ owns[i][inner[i]] > 0
      <4>1. inner[i] \in Ids
        BY <1>0, <1>3, <3>1, Zenon DEF ThreadShape
      <4>2. Turns(a, "name", inner[i])
        BY <1>0, <1>3, <2>1, <3>1, <4>1, InsteadTurns, Zenon
      <4> QED BY <4>2 DEF Turns, Holds, Cares
    <3>2. CASE ~(inner[i] # NoOne /\ owns[i][inner[i]] > 0)
      <4>1. Rests(a)
        BY <1>0, <1>3, <2>1, <3>2, InsteadRests, Zenon
      <4>2. \A j \in Ids : inner[i] = j => ~(owns[i][j] > 0)
        BY <3>2, ThreadAssumption, Zenon
      <4> QED BY <4>1, <4>2, Zenon DEF Rests, Holds
    <3> QED BY <3>1, <3>2, Zenon
  <2>3. /\ \A b \in Actors : \A j : Holds(todo', b, j) <=> Holds(todo, b, j) /\ b # a
        /\ \A j : Holds(todo, a, j) <=> j = i
        /\ \A b \in Actors : \A j : Cares(todo, b, j) => Cares(todo', b, j)
        /\ \A d \in Callers : \A j : At(todo', d, "join", j) => At(todo, d, "join", j)
        /\ \A d \in Callers : \A j : At(todo', d, "take", j) => At(todo, d, "take", j)
        /\ \A j \in Ids : state'[j] # "exited" => todo'[j] = <<>>
    BY <1>2, <1>3, <2>2, DropFrame, Zenon
  <2>4. i \notin registered /\ state[i] = "exited" /\ \A b \in Actors : Holds(todo, b, i) => b = a
    <3>1. /\ state[i] \notin {"running", "stored"} /\ i \notin registered
          /\ \A b \in Actors : Holds(todo, b, i) => b = a
      BY <1>0, <1>3, <1>4, HoldersAre, Zenon
    <3>2. state[i] \in {"stored", "exited"}
      BY <1>0, <1>3, <1>4, Zenon DEF StateInv, ThreadShape
    <3> QED BY <3>1, <3>2, Zenon
  <2>5. /\ slot'[i] = "released" /\ \A j \in Ids \ {i} : slot'[j] = slot[j]
        /\ \A j \in Ids : owns'[i][j] = 0
        /\ \A p \in Owners \ {i} : owns'[p] = owns[p]
        /\ i \in Owners
    BY <1>0, <1>3, <2>1, Zenon DEF ThreadShape, Owners, Actors
  <2>6. ThreadShape'
    <3>1. [j \in Ids |-> 0] \in [Ids -> 0..MaxOwned]
      BY ThreadAssumption
    <3>2. owns' \in [Owners -> [Ids -> 0..MaxOwned]]
      BY <1>0, <2>1, <3>1, Zenon DEF ThreadShape
    <3>3. slot' \in [Ids -> {"empty", "full", "taken", "released"}]
      BY <1>0, <2>1, Zenon DEF ThreadShape
    <3> QED BY <1>0, <1>2, <3>2, <3>3, Zenon DEF ThreadShape
  <2>7. StateInv'
    <3>1. \A j \in Ids : /\ slot'[j] = "empty" <=> state[j] \in {"new", "running", "failed"}
                        /\ taken[j] = IF slot'[j] = "taken" THEN 1 ELSE 0
      BY <1>0, <1>4, <2>4, <2>5, Zenon DEF StateInv
    <3>2. \A j \in Ids : state[j] \in {"new", "failed"} =>
            j \notin registered /\ \A b \in Actors : ~ Holds(todo', b, j)
      BY <1>0, <2>3, Zenon DEF StateInv
    <3>3. ASSUME NEW j \in Ids, state[j] \in {"new", "failed"}, NEW p \in Owners
          PROVE  owns'[p][j] = 0
      <4>1. CASE p = i
        BY <2>5, <4>1, Zenon
      <4>2. CASE p # i
        BY <1>0, <2>5, <3>3, <4>2, Zenon DEF StateInv
      <4> QED BY <4>1, <4>2, Zenon
    <3> QED BY <1>2, <2>3, <3>1, <3>2, <3>3, Zenon DEF StateInv
  <2>8. EntryInv'
    <3>1. \A b \in Actors : ~ Holds(todo', b, i)
      BY <2>3, <2>4, Zenon
    <3>2. \A d \in Callers : ~ At(todo', d, "join", i) /\ ~ At(todo', d, "take", i)
      BY <3>1, Zenon DEF Holds, Actors
    <3>3. ASSUME NEW j \in Ids, j # i
          PROVE  slot'[j] = slot[j] /\ \A b \in Actors : Holds(todo', b, j) <=> Holds(todo, b, j)
      BY <2>3, <2>5, <3>3
    <3>4. ASSUME NEW j \in Ids
          PROVE  /\ j \in registered => /\ \A b \in Actors \ {j} : ~ Holds(todo', b, j)
                                        /\ slot'[j] \in {"empty", "full"}
                 /\ \A b, c \in Actors \ {j} : Holds(todo', b, j) /\ Holds(todo', c, j) => b = c
      <4>1. CASE j = i
        BY <2>4, <3>1, <4>1, Zenon
      <4>2. CASE j # i
        BY <1>0, <2>3, <3>3, <4>2, Zenon DEF EntryInv, EntryOf
      <4> QED BY <4>1, <4>2, Zenon
    <3>5. ASSUME NEW j \in Ids
          PROVE  /\ \A d \in Callers : At(todo', d, "join", j) => slot'[j] \in {"empty", "full"}
                 /\ \A d \in Callers : At(todo', d, "take", j) => slot'[j] = "full"
      <4>1. CASE j = i
        BY <3>2, <4>1, Zenon
      <4>2. CASE j # i
        BY <1>0, <2>3, <3>3, <4>2, Zenon DEF EntryInv, EntryOf
      <4> QED BY <4>1, <4>2, Zenon
    <3>6. ASSUME NEW j \in Ids, state[j] = "exited", j \notin registered,
                 \A b \in Actors : ~ Holds(todo', b, j)
          PROVE  slot'[j] \in {"taken", "released"}
      <4>1. CASE j = i
        BY <2>5, <4>1, Zenon
      <4>2. CASE j # i
        BY <1>0, <3>3, <3>6, <4>2, Zenon DEF EntryInv, EntryOf
      <4> QED BY <4>1, <4>2, Zenon
    <3> QED BY <1>2, <3>4, <3>5, <3>6, Zenon DEF EntryInv, EntryOf
  <2>9. OwnInv'
    <3>1. ASSUME NEW k \in Ids, NEW j \in Ids, owns'[k][j] > 0
          PROVE  inner'[k] = j /\ owns'[k][j] = 1 /\ \A p \in Owners \ {k} : owns'[p][j] = 0
      <4>1. k \in Owners \ {i}
        BY <2>5, <3>1 DEF Owners, Actors
      <4>2. owns'[k] = owns[k]
        BY <2>5, <4>1, Zenon
      <4>3. inner[k] = j /\ owns[k][j] = 1 /\ \A p \in Owners \ {k} : owns[p][j] = 0
        BY <1>0, <3>1, <4>2, Zenon DEF OwnInv
      <4> QED BY <2>5, <4>2, <4>3
    <3>2. ASSUME NEW j \in Ids, Named(j) PROVE Named(j)' \/ Cares(todo', a, j)
      <4>1. PICK p \in Owners : owns[p][j] > 0
        BY <3>2, Zenon DEF Named
      <4>2. CASE p = i
        BY <1>0, <1>3, <2>2, <4>1, <4>2, Zenon DEF OwnInv
      <4>3. CASE p # i
        BY <2>5, <4>1, <4>3, Zenon DEF Named
      <4> QED BY <4>2, <4>3, Zenon
    <3> QED BY <1>0, <1>2, <2>3, <3>1, <3>2, Zenon DEF OwnInv, ThreadShape
  <2> QED BY <2>2, <2>6, <2>7, <2>8, <2>9, Zenon DEF ThreadInv, OthersWait
<1>5. CASE ~(Holders(i) = {<<"call", a>>} /\ slot[i] = "full")
  <2>1. Instead(a, <<>>) /\ UNCHANGED <<slot, owns>>
    BY <1>1, <1>5, Zenon DEF DropEntry
  <2>2. Rests(a)
    BY <1>0, <1>3, <2>1, InsteadRests, Zenon
  <2>3. OthersWait(a) /\ \A j : ~ Holds(todo', a, j)
    BY <2>2, Zenon DEF Rests, Holds
  <2>4. /\ \A b \in Actors : \A j : Holds(todo', b, j) <=> Holds(todo, b, j) /\ b # a
        /\ \A j : Holds(todo, a, j) <=> j = i
        /\ \A b \in Actors : \A j : Cares(todo, b, j) => Cares(todo', b, j)
        /\ \A d \in Callers : \A j : At(todo', d, "join", j) => At(todo, d, "join", j)
        /\ \A d \in Callers : \A j : At(todo', d, "take", j) => At(todo, d, "take", j)
        /\ \A j \in Ids : state'[j] # "exited" => todo'[j] = <<>>
    BY <1>2, <1>3, <2>3, DropFrame, Zenon
  <2>5. ASSUME state[i] = "exited", i \notin registered, \A b \in Actors : ~ Holds(todo', b, i)
        PROVE  slot[i] \in {"taken", "released"}
    <3>1. Holders(i) = {<<"call", a>>}
      BY <1>0, <1>3, <2>4, <2>5, HoldersAre
    <3>2. slot[i] # "full" /\ slot[i] # "empty"
      BY <1>0, <1>3, <1>5, <2>5, <3>1, Zenon DEF StateInv
    <3> QED BY <1>0, <1>3, <3>2, Zenon DEF ThreadShape
  <2>6. ThreadShape'
    BY <1>0, <1>2, <2>1, Zenon DEF ThreadShape
  <2>7. StateInv'
    BY <1>0, <1>2, <2>1, <2>4, Zenon DEF StateInv
  <2>8. EntryInv'
    <3>1. ASSUME NEW j \in Ids
          PROVE  /\ j \in registered => /\ \A b \in Actors \ {j} : ~ Holds(todo', b, j)
                                        /\ slot'[j] \in {"empty", "full"}
                 /\ \A b, c \in Actors \ {j} : Holds(todo', b, j) /\ Holds(todo', c, j) => b = c
      BY <1>0, <2>1, <2>4, Zenon DEF EntryInv, EntryOf
    <3>2. ASSUME NEW j \in Ids
          PROVE  /\ \A d \in Callers : At(todo', d, "join", j) => slot'[j] \in {"empty", "full"}
                 /\ \A d \in Callers : At(todo', d, "take", j) => slot'[j] = "full"
      BY <1>0, <2>1, <2>4, Zenon DEF EntryInv, EntryOf
    <3>3. ASSUME NEW j \in Ids, state[j] = "exited", j \notin registered,
                 \A b \in Actors : ~ Holds(todo', b, j)
          PROVE  slot'[j] \in {"taken", "released"}
      <4>1. CASE j = i
        BY <2>1, <2>5, <3>3, <4>1, Zenon
      <4>2. CASE j # i
        <5>1. \A b \in Actors : ~ Holds(todo, b, j)
          BY <2>4, <3>3, <4>2, Zenon
        <5> QED BY <1>0, <2>1, <3>3, <5>1, Zenon DEF EntryInv, EntryOf
      <4> QED BY <4>1, <4>2, Zenon
    <3> QED BY <1>2, <3>1, <3>2, <3>3, Zenon DEF EntryInv, EntryOf
  <2>9. OwnInv'
    BY <1>0, <1>2, <2>1, <2>4 DEF OwnInv, Named
  <2> QED BY <2>3, <2>6, <2>7, <2>8, <2>9, Zenon DEF ThreadInv, OthersWait
<1> QED BY <1>4, <1>5, Zenon

-----------------------------------------------------------------------------
LEMMA ThreadStart ==
  ASSUME ThreadInit
  PROVE  ThreadInv
<1>1. ThreadShape
  BY ThreadAssumption DEF ThreadInit, ThreadShape, Programs, Owners, Actors
<1>2. TodoShape(todo) /\ \A a \in Actors : todo[a] = <<>>
  <2>1. todo = [a \in Actors |-> <<>>]
    BY Zenon DEF ThreadInit
  <2> QED BY <2>1 DEF TodoShape, Short
<1>3. \A a \in Actors : \A o, j : ~ At(todo, a, o, j)
  BY <1>2, Zenon DEF At
<1>4. StateInv
  BY <1>2, <1>3, Zenon DEF ThreadInit, StateInv, Holds, Owners, Actors
<1>5. EntryInv
  BY <1>3, Zenon DEF ThreadInit, EntryInv, EntryOf, Holds, Owners, Actors
<1>6. OwnInv
  BY DEF ThreadInit, OwnInv, Owners, Actors
<1> QED BY <1>1, <1>2, <1>4, <1>5, <1>6, Zenon DEF ThreadInv

LEMMA ThreadKeeps ==
  ASSUME ThreadInv, [ThreadNext]_threadVars
  PROVE  ThreadInv'
<1>0. ThreadShape
  BY Zenon DEF ThreadInv
<1>1. CASE UNCHANGED threadVars
  BY <1>1, ThreadSame, Zenon DEF threadVars
<1>2. ASSUME NEW c \in Callers, NEW i \in Ids, CallerSpawns(c, i), UNCHANGED inner
      PROVE  ThreadInv'
  <2>1. c \in Owners /\ c \notin Ids
    BY ThreadAssumption, Zenon DEF Owners, Actors
  <2> QED BY <1>2, <2>1, SpawnKeeps, Zenon DEF CallerSpawns
<1>3. ASSUME NEW c \in Callers, NEW i \in Ids, DropHandle(c, i) \/ Join(c, i) \/ Detach(c, i),
             UNCHANGED inner
      PROVE  ThreadInv'
  BY <1>3, DropHandleKeeps, JoinKeeps, Zenon
<1>4. ASSUME NEW c \in Callers, NEW i \in Ids, NEW d \in Callers, Share(c, d, i), UNCHANGED inner
      PROVE  ThreadInv'
  BY <1>4, ShareKeeps, Zenon
<1>5. ASSUME NEW i \in Ids, Body(i)
      PROVE  ThreadInv'
  <2>1. CASE WorkerSpawns(i)
    <3>1. inner[i] \in Ids /\ i \in Owners /\ i \notin Callers
      BY <1>0, <2>1, ThreadAssumption, Zenon DEF WorkerSpawns, ThreadShape, Owners, Actors
    <3> QED BY <1>5, <2>1, <3>1, SpawnKeeps, Zenon DEF WorkerSpawns, Body
  <2>2. CASE StoreResult(i)
    BY <1>5, <2>2, StoreKeeps, Zenon DEF Body
  <2>3. CASE Exit(i)
    BY <1>5, <2>3, ExitTurns, Zenon DEF Body
  <2> QED BY <1>5, <2>1, <2>2, <2>3, Zenon DEF Body
<1>6. ASSUME NEW a \in Actors, Continue(a)
      PROVE  ThreadInv'
  BY <1>6, NameGoneKeeps, DestroyKeeps, DropEntryKeeps, JoinedKeeps, TakeResultKeeps,
     UnlockRegistryKeeps, Zenon DEF Continue
<1> QED BY <1>1, <1>2, <1>3, <1>4, <1>5, <1>6, Zenon DEF ThreadNext

LEMMA ThreadInvGives == ThreadInv => ThreadsSound
<1> SUFFICES ASSUME ThreadInv PROVE ThreadsSound
  BY Zenon
<1>0. ThreadShape /\ TodoShape(todo) /\ StateInv /\ EntryInv /\ OwnInv
  BY Zenon DEF ThreadInv
<1>1. ThreadTypeOK
  <2>1. taken \in [Ids -> 0..2]
    <3>1. \A i \in Ids : taken[i] \in 0..2
      BY <1>0 DEF StateInv
    <3> QED BY <1>0, <3>1, Zenon DEF ThreadShape
  <2>2. \A a \in Actors :
          todo[a] \in Seq([op : {"destroy", "entry", "name", "unlock", "join", "take"}, id : Ids])
    BY <1>0, Zenon DEF TodoShape, Tasks
  <2> QED BY <1>0, <2>1, <2>2, Zenon DEF ThreadShape, ThreadTypeOK
<1>2. ResultOnce
  <2>1. \A i \in Ids : taken[i] <= 1 /\ (taken[i] = 1 <=> slot[i] = "taken")
    BY <1>0 DEF StateInv
  <2>2. ASSUME NEW c \in Callers, Doing(c, "take") PROVE slot[TaskId(c)] = "full"
    <3>1. c \in Actors
      BY Zenon DEF Actors
    <3>2. TaskId(c) \in Ids /\ At(todo, c, "take", TaskId(c))
      BY <1>0, <2>2, <3>1, DoingAt, Zenon
    <3> QED BY <1>0, <3>2, Zenon DEF EntryInv, EntryOf
  <2> QED BY <2>1, <2>2, Zenon DEF ResultOnce
<1>3. NoResultLeft
  <2>1. ASSUME NEW i \in Ids, state[i] = "exited", Holders(i) = {}
        PROVE  slot[i] \in {"taken", "released"}
    <3>1. i \notin registered /\ \A a \in Actors : ~ Holds(todo, a, i)
      BY <1>0, <2>1, HoldersAre, Zenon
    <3> QED BY <1>0, <2>1, <3>1, Zenon DEF EntryInv, EntryOf
  <2> QED BY <2>1, Zenon DEF NoResultLeft
<1>4. EntryFollowsNames
  <2>1. ASSUME NEW i \in registered, ~ Named(i)
        PROVE  \E a \in Actors : \E k \in 1..Len(todo[a]) :
                 todo[a][k] \in {Task("name", i), Task("destroy", i)}
    <3>1. PICK a \in Actors : Cares(todo, a, i)
      BY <1>0, <2>1, Zenon DEF OwnInv
    <3>2. \A op \in {"name", "destroy"} :
            At(todo, a, op, i) => \E k \in 1..Len(todo[a]) : todo[a][k] = Task(op, i)
      BY <1>0, OnlyFirst
    <3>3. \E k \in 1..Len(todo[a]) : todo[a][k] \in {Task("name", i), Task("destroy", i)}
      BY <3>1, <3>2, Zenon DEF Cares
    <3> QED BY <3>3, Zenon
  <2> QED BY <2>1, Zenon DEF EntryFollowsNames
<1> QED BY <1>1, <1>2, <1>3, <1>4, Zenon DEF ThreadsSound

(* What joins, detaches and dropped handles keep of the registry, the slots and the names. *)
THEOREM ThreadsInductive == ThreadSpec => []ThreadInv
<1>1. ThreadInit => ThreadInv
  BY ThreadStart, Zenon
<1>2. ThreadInv /\ [ThreadNext]_threadVars => ThreadInv'
  BY ThreadKeeps, Zenon
<1> QED BY <1>1, <1>2, PTL DEF ThreadSpec

(* For any number of program threads, spawned threads and names of a handle: join hands a
   result out once and never one that was released, a result nobody can reach is released,
   and no entry of THREADS outlives the last name of its handle (mux_sync_spawn,
   mux_thread_join, mux_thread_detach, destroy_thread_object, ThreadResult::drop). *)
THEOREM ThreadsAreSound == ThreadSpec => []ThreadsSound
BY ThreadsInductive, ThreadInvGives, PTL

-----------------------------------------------------------------------------
Sending(t) == pc[t] \in {"check", "clone", "push"}

(* A call knows its channel and a send its message, which no other sends. *)
CallInv ==
  /\ \A t \in Threads :
       /\ Sending(t) => chan[t] \in Chans /\ msg[t] \in Msgs /\ result[msg[t]] = "sending"
       /\ pc[t] \in {"lock", "look", "recv", "take"} => chan[t] \in Chans
       /\ pc[t] = "poll" => pos[t] \in Chans
  /\ \A t, u \in Threads : Sending(t) /\ Sending(u) /\ msg[t] = msg[u] => t = u

(* A message is in one place of one queue, or was received, once sent. *)
QueueInv ==
  /\ \A ch \in Chans : \A i \in 1..Len(buf[ch]) :
       result[buf[ch][i]] = "sent" /\ buf[ch][i] \notin got
  /\ \A ch, dh \in Chans : \A i \in 1..Len(buf[ch]), j \in 1..Len(buf[dh]) :
       buf[ch][i] = buf[dh][j] => ch = dh /\ i = j
  /\ \A m \in got : result[m] = "sent"
  /\ \A m \in Msgs : result[m] = "sent" => m \in got \/ InQueue(m)

(* Who began to send after close never gets a clone of the sender. *)
LateInv ==
  /\ \A m \in late : result[m] \in {"sending", "refused"}
  /\ \A t \in Threads : Sending(t) /\ msg[t] \in late => pc[t] # "push" /\ ~open[chan[t]]

(* A channel that is ready for a select has a message and is not closed. *)
ReadyInv == \A t \in Threads : \A ch \in ready[t] : buf[ch] # <<>> /\ ~closed[ch]

(* The channels a select has passed are not ready for it. *)
PassedInv ==
  \A t \in Threads : pc[t] \in {"scan", "poll"} => \A i \in 1..pos[t] - 1 : i \notin ready[t]

ChannelInv == TypeOK /\ CallInv /\ QueueInv /\ LateInv /\ EndIsFinal /\ ReadyInv /\ PassedInv

-----------------------------------------------------------------------------
(* What the actions have in common. *)

LEMMA ReturnType ==
  ASSUME TypeOK, NEW t \in Threads, Return(t)
  PROVE  /\ pc' \in [Threads -> States]
         /\ call' \in [Threads -> SendCalls \cup RecvCalls \cup {"select", "close", "cancel"}]
         /\ chan' \in [Threads -> Chans \cup {None}]
         /\ msg' \in [Threads -> Msgs \cup {None}]
         /\ pos' \in [Threads -> 1..ChanCount + 1]
         /\ live' \in [Threads -> BOOLEAN]
         /\ calls' \in 0..MaxCalls
  BY ChannelAssumption DEF TypeOK, Return, Goto, States

(* Only the thread that returns moves. *)
LEMMA ReturnMoves ==
  ASSUME TypeOK, NEW t \in Threads, Return(t)
  PROVE  /\ pc'[t] = "idle"
         /\ \A u \in Threads \ {t} : /\ pc'[u] = pc[u] /\ chan'[u] = chan[u]
                                     /\ msg'[u] = msg[u] /\ pos'[u] = pos[u]
  BY Zenon DEF TypeOK, Return, Goto

LEMMA TypeInit == Init => TypeOK
<1> SUFFICES ASSUME Init PROVE TypeOK
  BY Zenon
<1>1. buf \in [Chans -> Seq(Msgs)]
  BY DEF Init
<1>2. 1 \in 1..ChanCount + 1 /\ 0 \in 0..MaxCalls
  BY ChannelAssumption
<1>3. /\ pc \in [Threads -> States] /\ chan \in [Threads -> Chans \cup {None}]
      /\ msg \in [Threads -> Msgs \cup {None}] /\ pos \in [Threads -> 1..ChanCount + 1]
      /\ ready \in [Threads -> SUBSET Chans] /\ rlock \in [Chans -> Threads \cup {None}]
  BY <1>2, Zenon DEF Init, States
<1> QED BY <1>1, <1>2, <1>3, Zenon DEF Init, TypeOK

LEMMA TypeStep ==
  ASSUME TypeOK, CallInv, [Next]_vars
  PROVE  TypeOK'
<1> USE DEF chanVars, callVars, hist
<1>1. CASE UNCHANGED vars
  BY <1>1, Zenon DEF vars, TypeOK
<1>2. ASSUME NEW t \in Threads, NEW ch \in Chans, NEW m \in Msgs, NEW what \in SendCalls,
             BeginSend(t, ch, m, what)
      PROVE  TypeOK'
  BY <1>2, ChannelAssumption DEF TypeOK, BeginSend, Begin, Goto, States
<1>3. ASSUME NEW t \in Threads, NEW ch \in Chans, NEW what \in RecvCalls, BeginRecv(t, ch, what)
      PROVE  TypeOK'
  BY <1>3, ChannelAssumption DEF TypeOK, BeginRecv, Begin, Goto, States
<1>4. ASSUME NEW t \in Threads, BeginSelect(t)
      PROVE  TypeOK'
  BY <1>4, ChannelAssumption DEF TypeOK, BeginSelect, Begin, Goto, States
<1>5. ASSUME NEW t \in Threads, NEW ch \in Chans, BeginClose(t, ch)
      PROVE  TypeOK'
  BY <1>5, ChannelAssumption DEF TypeOK, BeginClose, Begin, Goto, States, Disturb
<1>6. ASSUME NEW t \in Threads, Cancel(t)
      PROVE  TypeOK'
  BY <1>6, ChannelAssumption DEF TypeOK, Cancel, Begin
<1>7. ASSUME NEW t \in Threads, Step(t)
      PROVE  TypeOK'
  <2>1. ASSUME Refuse(t)
        PROVE  TypeOK'
    BY <2>1, ReturnType, Zenon DEF TypeOK, Refuse
  <2>2. CASE FindsCancelled(t) \/ NoSender(t) \/ FindsFull(t)
    BY <2>1, <2>2, Zenon DEF FindsCancelled, NoSender, FindsFull
  <2>3. CASE NotCancelled(t) \/ CloneSender(t) \/ CancelledRetry(t) \/ Looks(t) \/ LookAgain(t)
    BY <2>3, Zenon DEF TypeOK, NotCancelled, CloneSender, CancelledRetry, Looks, LookAgain, Goto, States
  <2>4. CASE Push(t)
    <3>1. chan[t] \in Chans /\ msg[t] \in Msgs
      BY <2>4, Zenon DEF CallInv, Sending, Push
    <3>2. buf' \in [Chans -> Seq(Msgs)]
      BY <2>4, <3>1 DEF TypeOK, Push, PushTo
    <3> QED BY <2>4, <3>1, <3>2, ReturnType, Zenon DEF TypeOK, Push, PushTo
  <2>5. CASE LockReceiver(t)
    BY <2>5, Zenon DEF TypeOK, LockReceiver, Goto, States
  <2>6. CASE Receive(t)
    <3>1. chan[t] \in Chans
      BY <2>6, Zenon DEF CallInv, Receive
    <3>2. buf' \in [Chans -> Seq(Msgs)] /\ Head(buf[chan[t]]) \in Msgs
      BY <2>6, <3>1 DEF TypeOK, Receive
    <3>3. rlock' \in [Chans -> Threads \cup {None}] /\ ready' \in [Threads -> SUBSET Chans]
      BY <2>6, Zenon DEF TypeOK, Receive, Disturb
    <3> QED BY <2>6, <3>2, <3>3, ReturnType, Zenon DEF TypeOK, Receive
  <2>7. CASE SeesEnd(t)
    <3>1. chan[t] \in Chans
      BY <2>7, Zenon DEF CallInv, SeesEnd
    <3> QED BY <2>7, <3>1, ReturnType, Zenon DEF TypeOK, SeesEnd
  <2>8. CASE GiveUp(t)
    BY <2>8, ReturnType, Zenon DEF TypeOK, GiveUp
  <2>9. CASE SkipClosed(t) \/ FindsLive(t) \/ SelectAgain(t)
    <3>1. pos' \in [Threads -> 1..ChanCount + 1]
      <4>1. pos[t] \in Nat /\ 1 \in 1..ChanCount + 1
        BY ChannelAssumption DEF TypeOK
      <4>2. CASE SkipClosed(t)
        <5>1. pos[t] + 1 \in 1..ChanCount + 1
          BY <4>1, <4>2, ChannelAssumption DEF SkipClosed
        <5> QED BY <4>2, <5>1, Zenon DEF TypeOK, SkipClosed, Advance
      <4>3. CASE FindsLive(t) \/ SelectAgain(t)
        BY <4>1, <4>3, Zenon DEF TypeOK, FindsLive, SelectAgain
      <4> QED BY <2>9, <4>2, <4>3, Zenon
    <3> QED BY <2>9, <3>1, Zenon DEF TypeOK, SkipClosed, FindsLive, SelectAgain, Advance, Goto, States
  <2>10. CASE PollTakes(t)
    <3>1. pos[t] \in Chans
      BY <2>10, Zenon DEF CallInv, PollTakes
    <3>2. buf' \in [Chans -> Seq(Msgs)] /\ Head(buf[pos[t]]) \in Msgs
      BY <2>10, <3>1 DEF TypeOK, PollTakes, Here
    <3>3. ready' \in [Threads -> SUBSET Chans]
      BY <2>10, Zenon DEF TypeOK, PollTakes
    <3> QED BY <2>10, <3>2, <3>3, ReturnType, Zenon DEF TypeOK, PollTakes, Here
  <2>11. CASE PollEmpty(t)
    <3>1. pos[t] \in Chans
      BY <2>11, Zenon DEF CallInv, PollEmpty
    <3>2. pos[t] + 1 \in 1..ChanCount + 1
      BY <3>1, ChannelAssumption DEF Chans
    <3>3. pos' \in [Threads -> 1..ChanCount + 1]
      BY <2>11, <3>2, Zenon DEF TypeOK, PollEmpty, Advance
    <3>4. closed' \in [Chans -> BOOLEAN] /\ ended' \subseteq Chans
      <4>1. CASE Disconnected(pos[t])
        <5>1. closed' = [closed EXCEPT ![pos[t]] = TRUE] /\ ended' = ended \cup {pos[t]}
          BY <2>11, <4>1, Zenon DEF PollEmpty, Here
        <5> QED BY <3>1, <5>1, Zenon DEF TypeOK
      <4>2. CASE ~Disconnected(pos[t])
        BY <2>11, <4>2, Zenon DEF TypeOK, PollEmpty, Here
      <4> QED BY <4>1, <4>2, Zenon
    <3> QED BY <2>11, <3>3, <3>4, Zenon DEF TypeOK, PollEmpty, Goto, States
  <2>12. CASE SelectNone(t)
    BY <2>12, ReturnType, Zenon DEF TypeOK, SelectNone
  <2>13. CASE TakeSender(t)
    BY <2>13, ReturnType, Zenon DEF TypeOK, TakeSender
  <2> QED BY <1>7, <2>2, <2>3, <2>4, <2>5, <2>6, <2>7, <2>8, <2>9, <2>10, <2>11, <2>12, <2>13, Zenon DEF Step
<1> QED BY <1>1, <1>2, <1>3, <1>4, <1>5, <1>6, <1>7, Zenon DEF Next

-----------------------------------------------------------------------------
(* Calls: a thread that moves keeps the others' messages apart from its own. *)

LEMMA CallStep ==
  ASSUME TypeOK, CallInv, [Next]_vars
  PROVE  CallInv'
<1> USE DEF chanVars, callVars, hist
<1>1. CASE UNCHANGED vars
  BY <1>1, Zenon DEF vars, CallInv, Sending
<1>2. ASSUME NEW t \in Threads, NEW ch \in Chans, NEW m \in Msgs, NEW what \in SendCalls,
             BeginSend(t, ch, m, what)
      PROVE  CallInv'
  <2>1. /\ pc'[t] \in {"check", "clone"} /\ chan'[t] = ch /\ msg'[t] = m
        /\ \A u \in Threads \ {t} : pc'[u] = pc[u] /\ chan'[u] = chan[u] /\ msg'[u] = msg[u]
        /\ pos' = pos /\ pc[t] = "idle"
        /\ result[m] = "none" /\ result'[m] = "sending"
        /\ \A n \in Msgs \ {m} : result'[n] = result[n]
    BY <1>2, Zenon DEF TypeOK, BeginSend, Begin, Goto
  <2> QED BY <2>1 DEF CallInv, Sending
<1>3. ASSUME NEW t \in Threads, NEW ch \in Chans, NEW what \in RecvCalls, BeginRecv(t, ch, what)
      PROVE  CallInv'
  BY <1>3 DEF TypeOK, CallInv, Sending, BeginRecv, Begin, Goto
<1>4. ASSUME NEW t \in Threads, BeginSelect(t)
      PROVE  CallInv'
  BY <1>4 DEF TypeOK, CallInv, Sending, BeginSelect, Begin, Goto
<1>5. ASSUME NEW t \in Threads, NEW ch \in Chans, BeginClose(t, ch)
      PROVE  CallInv'
  BY <1>5 DEF TypeOK, CallInv, Sending, BeginClose, Begin, Goto
<1>6. ASSUME NEW t \in Threads, Cancel(t)
      PROVE  CallInv'
  BY <1>6, Zenon DEF TypeOK, CallInv, Sending, Cancel, Begin
<1>7. ASSUME NEW t \in Threads, Step(t)
      PROVE  CallInv'
  (* A step that returns tells at most its own sender. *)
  <2>1. ASSUME Return(t), \A m \in Msgs : result'[m] = result[m] \/ (Sending(t) /\ m = msg[t])
        PROVE  CallInv'
    BY <2>1, ReturnMoves DEF CallInv, Sending
  <2>2. ASSUME Refuse(t)
        PROVE  \A m \in Msgs : result'[m] = result[m] \/ m = msg[t]
    BY <2>2, Zenon DEF TypeOK, Refuse
  <2>3. CASE FindsCancelled(t) \/ NoSender(t) \/ FindsFull(t)
    BY <2>1, <2>2, <2>3, Zenon DEF FindsCancelled, NoSender, FindsFull, Refuse, Sending
  <2>4. CASE Push(t)
    <3>1. \A m \in Msgs : result'[m] = result[m] \/ m = msg[t]
      BY <2>4, Zenon DEF TypeOK, Push, PushTo
    <3> QED BY <2>1, <2>4, <3>1, Zenon DEF Push, PushTo, Sending
  <2>5. CASE Receive(t) \/ SeesEnd(t) \/ GiveUp(t) \/ PollTakes(t) \/ SelectNone(t) \/ TakeSender(t)
    BY <2>1, <2>5, Zenon DEF Receive, SeesEnd, GiveUp, PollTakes, SelectNone, TakeSender
  <2>6. CASE NotCancelled(t) \/ CloneSender(t) \/ CancelledRetry(t)
    <3>1. /\ Sending(t) /\ \A u \in Threads \ {t} : pc'[u] = pc[u]
          /\ UNCHANGED <<chan, msg, pos, result>>
      BY <2>6, Zenon DEF TypeOK, Sending, NotCancelled, CloneSender, CancelledRetry, Goto
    <3>2. pc'[t] \in {"check", "clone", "push"}
      BY <2>6, Zenon DEF TypeOK, NotCancelled, CloneSender, CancelledRetry, Goto
    <3> QED BY <3>1, <3>2, Zenon DEF CallInv, Sending
  <2>11. CASE Looks(t) \/ LookAgain(t)
    <3>1. /\ pc[t] \in {"look", "recv"} /\ pc'[t] \in {"look", "recv"}
          /\ \A u \in Threads \ {t} : pc'[u] = pc[u]
          /\ UNCHANGED <<chan, msg, pos, result>>
      BY <2>11, Zenon DEF TypeOK, Looks, LookAgain, Goto
    <3> QED BY <3>1, Zenon DEF CallInv, Sending
  <2>7. CASE LockReceiver(t)
    BY <2>7 DEF TypeOK, CallInv, Sending, LockReceiver, Goto
  <2>8. CASE SkipClosed(t) \/ SelectAgain(t)
    <3>1. /\ pc[t] = "scan" /\ UNCHANGED <<pc, chan, msg, result>>
          /\ \A u \in Threads \ {t} : pos'[u] = pos[u]
      BY <2>8, Zenon DEF TypeOK, SkipClosed, SelectAgain, Advance
    <3> QED BY <3>1, Zenon DEF CallInv, Sending
  <2>9. CASE FindsLive(t)
    <3>1. pos[t] \in Chans
      BY <2>9, ChannelAssumption DEF TypeOK, FindsLive, Chans
    <3> QED BY <2>9, <3>1 DEF TypeOK, CallInv, Sending, FindsLive, Goto
  <2>10. CASE PollEmpty(t)
    BY <2>10 DEF TypeOK, CallInv, Sending, PollEmpty, Advance, Goto
  <2> QED BY <1>7, <2>3, <2>4, <2>5, <2>6, <2>7, <2>8, <2>9, <2>10, <2>11, Zenon DEF Step
<1> QED BY <1>1, <1>2, <1>3, <1>4, <1>5, <1>6, <1>7, Zenon DEF Next

-----------------------------------------------------------------------------
(* Queues: messages move from their senders to the end of a queue, and from *)
(* its head to a receiver.                                                  *)

LEMMA TailFacts ==
  ASSUME NEW S, NEW q \in Seq(S), q # <<>>
  PROVE  /\ Len(q) \in Nat /\ Len(q) > 0 /\ Len(Tail(q)) = Len(q) - 1
         /\ \A i \in 1..Len(q) - 1 : Tail(q)[i] = q[i + 1]
         /\ Head(q) = q[1]
  OBVIOUS

(* A receiver takes the head of the queue of ch. *)
Takes(ch) ==
  /\ buf[ch] # <<>>
  /\ buf' = [buf EXCEPT ![ch] = Tail(@)]
  /\ got' = got \cup {Head(buf[ch])}
  /\ UNCHANGED result

LEMMA QueueTakes ==
  ASSUME TypeOK, QueueInv, NEW ch \in Chans, Takes(ch)
  PROVE  QueueInv'
<1>1. /\ buf[ch] \in Seq(Msgs) /\ buf'[ch] = Tail(buf[ch])
      /\ \A dh \in Chans \ {ch} : buf'[dh] = buf[dh]
  BY Zenon DEF TypeOK, Takes
<1>2. /\ Len(buf[ch]) \in Nat /\ Len(buf[ch]) > 0 /\ Len(buf'[ch]) = Len(buf[ch]) - 1
      /\ \A i \in 1..Len(buf'[ch]) : buf'[ch][i] = buf[ch][i + 1]
      /\ Head(buf[ch]) = buf[ch][1]
  <2>1. buf[ch] # <<>>
    BY Zenon DEF Takes
  <2>2. /\ Len(buf[ch]) \in Nat /\ Len(buf[ch]) > 0 /\ Len(Tail(buf[ch])) = Len(buf[ch]) - 1
        /\ \A i \in 1..Len(buf[ch]) - 1 : Tail(buf[ch])[i] = buf[ch][i + 1]
        /\ Head(buf[ch]) = buf[ch][1]
    BY <1>1, <2>1, TailFacts, Zenon
  <2> QED BY <1>1, <2>2, Zenon
<1>3. \A dh \in Chans : buf[dh] \in Seq(Msgs) /\ Len(buf[dh]) \in Nat
  BY DEF TypeOK
<1> DEFINE From(dh, i) == IF dh = ch THEN i + 1 ELSE i
<1>4. ASSUME NEW dh \in Chans, NEW i \in 1..Len(buf'[dh])
      PROVE  From(dh, i) \in 1..Len(buf[dh]) /\ buf'[dh][i] = buf[dh][From(dh, i)]
  <2>1. CASE dh = ch
    BY <1>2, <2>1
  <2>2. CASE dh # ch
    BY <1>1, <2>2, Zenon
  <2> QED BY <2>1, <2>2, Zenon
<1>5. \A dh \in Chans : \A i \in 1..Len(buf'[dh]) : buf'[dh][i] # buf[ch][1]
  BY <1>2, <1>3, <1>4 DEF QueueInv
<1>6. \A dh \in Chans : \A i \in 1..Len(buf'[dh]) :
        result'[buf'[dh][i]] = "sent" /\ buf'[dh][i] \notin got'
  BY <1>2, <1>4, <1>5 DEF QueueInv, Takes
<1>7. \A dh, eh \in Chans : \A i \in 1..Len(buf'[dh]), j \in 1..Len(buf'[eh]) :
        buf'[dh][i] = buf'[eh][j] => dh = eh /\ i = j
  <2> SUFFICES ASSUME NEW dh \in Chans, NEW eh \in Chans,
                      NEW i \in 1..Len(buf'[dh]), NEW j \in 1..Len(buf'[eh]),
                      buf'[dh][i] = buf'[eh][j]
               PROVE  dh = eh /\ i = j
    BY Zenon
  <2>1. dh = eh /\ From(dh, i) = From(eh, j)
    <3>1. PICK a \in 1..Len(buf[dh]) : a = From(dh, i) /\ buf'[dh][i] = buf[dh][a]
      BY <1>4, Zenon
    <3>2. PICK b \in 1..Len(buf[eh]) : b = From(eh, j) /\ buf'[eh][j] = buf[eh][b]
      BY <1>4, Zenon
    <3>3. buf[dh][a] = buf[eh][b]
      BY <3>1, <3>2, Zenon
    <3>4. dh = eh /\ a = b
      BY <3>3 DEF QueueInv
    <3> QED BY <3>1, <3>2, <3>4, Zenon
  <2>2. i \in Nat /\ j \in Nat
    BY <1>1, <1>2, <1>3
  <2> QED BY <2>1, <2>2
<1>8. \A m \in got' : result'[m] = "sent"
  BY <1>2 DEF QueueInv, Takes
<1>9. ASSUME NEW m \in Msgs, result'[m] = "sent"
      PROVE  m \in got' \/ InQueue(m)'
  <2>1. CASE m \in got
    BY <2>1, Zenon DEF Takes
  <2>2. ASSUME NEW dh \in Chans, NEW i \in 1..Len(buf[dh]), buf[dh][i] = m, m # Head(buf[ch])
        PROVE  InQueue(m)'
    <3>1. CASE dh = ch
      <4>1. i - 1 \in 1..Len(buf'[ch]) /\ buf'[ch][i - 1] = m
        BY <1>2, <2>2, <3>1
      <4> QED BY <4>1, Zenon DEF InQueue
    <3>2. CASE dh # ch
      BY <1>1, <2>2, <3>2, Zenon DEF InQueue
    <3> QED BY <3>1, <3>2, Zenon
  <2> QED BY <1>9, <2>1, <2>2 DEF QueueInv, InQueue, Takes
<1> QED BY <1>6, <1>7, <1>8, <1>9, Zenon DEF QueueInv

LEMMA QueuePushed ==
  ASSUME TypeOK, CallInv, QueueInv, NEW t \in Threads, Push(t)
  PROVE  QueueInv'
<1> DEFINE ch == chan[t]
           m == msg[t]
<1>1. ch \in Chans /\ m \in Msgs /\ result[m] = "sending"
  BY Zenon DEF CallInv, Sending, Push
<1>2. /\ buf[ch] \in Seq(Msgs) /\ buf'[ch] = Append(buf[ch], m)
      /\ \A dh \in Chans \ {ch} : buf'[dh] = buf[dh]
      /\ result'[m] = "sent" /\ \A n \in Msgs \ {m} : result'[n] = result[n]
      /\ got' = got
  BY <1>1, Zenon DEF TypeOK, Push, PushTo
<1>3. /\ Len(buf[ch]) \in Nat /\ Len(buf'[ch]) = Len(buf[ch]) + 1
      /\ \A i \in 1..Len(buf[ch]) : buf'[ch][i] = buf[ch][i]
      /\ buf'[ch][Len(buf[ch]) + 1] = m
  BY <1>2
<1>4. /\ \A dh \in Chans : buf[dh] \in Seq(Msgs) /\ Len(buf[dh]) \in Nat
      /\ \A dh \in Chans : \A i \in 1..Len(buf[dh]) : buf[dh][i] \in Msgs \ {m}
      /\ m \notin got /\ got \subseteq Msgs
  <2>1. \A dh \in Chans : buf[dh] \in Seq(Msgs)
    BY Zenon DEF TypeOK
  <2>2. ASSUME NEW dh \in Chans
        PROVE  Len(buf[dh]) \in Nat /\ \A i \in 1..Len(buf[dh]) : buf[dh][i] \in Msgs
    <3>1. PICK q \in Seq(Msgs) : q = buf[dh]
      BY <2>1, <2>2, Zenon
    <3>2. Len(q) \in Nat /\ \A i \in 1..Len(q) : q[i] \in Msgs
      OBVIOUS
    <3> QED BY <3>1, <3>2, Zenon
  <2>3. \A dh \in Chans : \A i \in 1..Len(buf[dh]) : buf[dh][i] # m
    BY <1>1, Zenon DEF QueueInv
  <2>4. m \notin got /\ got \subseteq Msgs
    BY <1>1, Zenon DEF TypeOK, QueueInv
  <2> QED BY <2>1, <2>2, <2>3, <2>4, Zenon
<1>5. \A dh \in Chans : \A i \in 1..Len(buf'[dh]) :
         \/ i \in 1..Len(buf[dh]) /\ buf'[dh][i] = buf[dh][i]
         \/ dh = ch /\ i = Len(buf[ch]) + 1 /\ buf'[dh][i] = m
  <2>1. ASSUME NEW n \in Nat, NEW i \in 1..(n + 1)
        PROVE  i \in 1..n \/ i = n + 1
    OBVIOUS
  <2>2. ASSUME NEW i \in 1..Len(buf'[ch])
        PROVE  \/ i \in 1..Len(buf[ch]) /\ buf'[ch][i] = buf[ch][i]
               \/ i = Len(buf[ch]) + 1 /\ buf'[ch][i] = m
    BY <1>3, <2>1, <2>2, Zenon
  <2> QED BY <1>2, <2>2, Zenon
<1>6. \A dh \in Chans : \A i \in 1..Len(buf'[dh]) :
        result'[buf'[dh][i]] = "sent" /\ buf'[dh][i] \notin got'
  BY <1>2, <1>4, <1>5 DEF QueueInv
<1>7. \A dh, eh \in Chans : \A i \in 1..Len(buf'[dh]), j \in 1..Len(buf'[eh]) :
        buf'[dh][i] = buf'[eh][j] => dh = eh /\ i = j
  <2> SUFFICES ASSUME NEW dh \in Chans, NEW eh \in Chans, NEW i \in 1..Len(buf'[dh]),
                      NEW j \in 1..Len(buf'[eh]), buf'[dh][i] = buf'[eh][j]
               PROVE  dh = eh /\ i = j
    BY Zenon
  <2>1. CASE i \in 1..Len(buf[dh]) /\ buf'[dh][i] = buf[dh][i]
    <3>1. buf'[eh][j] # m
      BY <1>4, <2>1, Zenon
    <3>2. j \in 1..Len(buf[eh]) /\ buf'[eh][j] = buf[eh][j]
      BY <1>5, <3>1, Zenon
    <3>3. buf[dh][i] = buf[eh][j]
      BY <2>1, <3>2, Zenon
    <3>4. \A k \in 1..Len(buf[dh]), l \in 1..Len(buf[eh]) : buf[dh][k] = buf[eh][l] => dh = eh /\ k = l
      BY Zenon DEF QueueInv
    <3> QED BY <2>1, <3>2, <3>3, <3>4, Zenon
  <2>2. CASE dh = ch /\ i = Len(buf[ch]) + 1 /\ buf'[dh][i] = m
    <3>1. ~(j \in 1..Len(buf[eh]) /\ buf'[eh][j] = buf[eh][j])
      BY <1>4, <2>2, Zenon
    <3>2. eh = ch /\ j = Len(buf[ch]) + 1
      BY <1>5, <3>1, Zenon
    <3> QED BY <2>2, <3>2, Zenon
  <2> QED BY <1>5, <2>1, <2>2, Zenon
<1>8. \A n \in got' : result'[n] = "sent"
  BY <1>2, <1>4, Zenon DEF QueueInv
<1>9. ASSUME NEW n \in Msgs, result'[n] = "sent"
      PROVE  n \in got' \/ InQueue(n)'
  <2>1. CASE n = m
    <3>0. ASSUME NEW k \in Nat PROVE k + 1 \in 1..(k + 1)
      OBVIOUS
    <3>1. Len(buf[ch]) + 1 \in 1..Len(buf'[ch])
      BY <1>3, <3>0, Zenon
    <3> QED BY <1>1, <1>3, <2>1, <3>1, Zenon DEF InQueue
  <2>2. CASE n # m
    <3>1. result[n] = "sent"
      BY <1>2, <1>9, <2>2, Zenon
    <3>2. \A dh \in Chans : \A i \in 1..Len(buf[dh]) :
            i \in 1..Len(buf'[dh]) /\ buf'[dh][i] = buf[dh][i]
      <4>0. ASSUME NEW k \in Nat, NEW i \in 1..k PROVE i \in 1..(k + 1)
        OBVIOUS
      <4>1. \A i \in 1..Len(buf[ch]) : i \in 1..Len(buf'[ch]) /\ buf'[ch][i] = buf[ch][i]
        BY <1>3, <4>0, Zenon
      <4> QED BY <1>2, <4>1, Zenon
    <3> QED BY <1>2, <3>1, <3>2 DEF QueueInv, InQueue
  <2> QED BY <2>1, <2>2, Zenon
<1> QED BY <1>6, <1>7, <1>8, <1>9, Zenon DEF QueueInv

LEMMA QueueStep ==
  ASSUME TypeOK, CallInv, QueueInv, [Next]_vars
  PROVE  QueueInv'
<1> USE DEF chanVars, callVars, hist
(* Unless a message is sent or received, only unsent ones change. *)
<1>1. ASSUME UNCHANGED <<buf, got>>,
             \A m \in Msgs : \/ result'[m] = result[m]
                             \/ result[m] # "sent" /\ result'[m] # "sent"
      PROVE  QueueInv'
  <2>1. \A ch \in Chans : \A i \in 1..Len(buf[ch]) : buf[ch][i] \in Msgs
    BY DEF TypeOK
  <2>2. got \subseteq Msgs
    BY Zenon DEF TypeOK
  <2> QED BY <1>1, <2>1, <2>2 DEF QueueInv, InQueue
<1>2. CASE UNCHANGED vars
  BY <1>1, <1>2, Zenon DEF vars
<1>3. ASSUME NEW t \in Threads, NEW ch \in Chans, NEW m \in Msgs, NEW what \in SendCalls,
             BeginSend(t, ch, m, what)
      PROVE  QueueInv'
  BY <1>1, <1>3, Zenon DEF TypeOK, BeginSend
<1>4. ASSUME NEW t \in Threads, NEW ch \in Chans, NEW what \in RecvCalls, BeginRecv(t, ch, what)
      PROVE  QueueInv'
  BY <1>1, <1>4, Zenon DEF BeginRecv
<1>5. ASSUME NEW t \in Threads, NEW ch \in Chans, BeginClose(t, ch)
      PROVE  QueueInv'
  BY <1>1, <1>5, Zenon DEF BeginClose
<1>6. ASSUME NEW t \in Threads, BeginSelect(t) \/ Cancel(t)
      PROVE  QueueInv'
  BY <1>1, <1>6, Zenon DEF BeginSelect, Cancel
<1>7. ASSUME NEW t \in Threads, Step(t)
      PROVE  QueueInv'
  <2>1. ASSUME Sending(t), Refuse(t)
        PROVE  QueueInv'
    BY <1>1, <2>1, Zenon DEF TypeOK, CallInv, Refuse
  <2>2. CASE FindsCancelled(t) \/ NoSender(t) \/ FindsFull(t)
    BY <2>1, <2>2, Zenon DEF FindsCancelled, NoSender, FindsFull, Sending
  <2>3. CASE Push(t)
    BY <2>3, QueuePushed, Zenon
  <2>4. CASE Receive(t)
    <3>1. chan[t] \in Chans /\ Takes(chan[t])
      BY <2>4, Zenon DEF CallInv, Receive, Takes
    <3> QED BY <3>1, QueueTakes, Zenon
  <2>5. CASE PollTakes(t)
    <3>1. pos[t] \in Chans /\ Takes(pos[t])
      BY <2>5, Zenon DEF CallInv, PollTakes, Takes, Here
    <3> QED BY <3>1, QueueTakes, Zenon
  <2>6. CASE NotCancelled(t) \/ CloneSender(t) \/ CancelledRetry(t) \/ LockReceiver(t) \/ Looks(t)
    BY <1>1, <2>6, ZenonT(30) DEF NotCancelled, CloneSender, CancelledRetry, LockReceiver, Looks
  <2>7. CASE SeesEnd(t) \/ GiveUp(t) \/ LookAgain(t) \/ TakeSender(t)
    BY <1>1, <2>7, Zenon DEF SeesEnd, GiveUp, LookAgain, TakeSender
  <2>8. CASE SkipClosed(t) \/ FindsLive(t) \/ PollEmpty(t) \/ SelectNone(t) \/ SelectAgain(t)
    BY <1>1, <2>8, ZenonT(30) DEF SkipClosed, FindsLive, PollEmpty, SelectNone, SelectAgain
  <2> QED BY <1>7, <2>2, <2>3, <2>4, <2>5, <2>6, <2>7, <2>8, Zenon DEF Step
<1> QED BY <1>2, <1>3, <1>4, <1>5, <1>6, <1>7, Zenon DEF Next

-----------------------------------------------------------------------------
(* The end of a channel: what is closed stays closed, and who finds no      *)
(* sender is refused.                                                       *)

LEMMA LateStep ==
  ASSUME TypeOK, CallInv, LateInv, [Next]_vars
  PROVE  LateInv'
<1> USE DEF chanVars, callVars, hist
(* Most steps begin no send, give out no clone and open no channel. *)
<1>1. ASSUME late' = late, \A m \in late : result'[m] \in {result[m], "refused"},
             \A ch \in Chans : open'[ch] => open[ch],
             \A t \in Threads : /\ Sending(t)' => Sending(t) /\ chan'[t] = chan[t] /\ msg'[t] = msg[t]
                                /\ pc'[t] = "push" => pc[t] = "push" \/ open[chan[t]]
      PROVE  LateInv'
  <2>1. \A t \in Threads : Sending(t) => chan[t] \in Chans
    BY Zenon DEF CallInv
  <2> QED BY <1>1, <2>1, Zenon DEF LateInv, Sending
<1>2. CASE UNCHANGED vars
  BY <1>1, <1>2, Zenon DEF vars, Sending
<1>3. ASSUME NEW t \in Threads, NEW ch \in Chans, NEW m \in Msgs, NEW what \in SendCalls,
             BeginSend(t, ch, m, what)
      PROVE  LateInv'
  <2>1. /\ pc'[t] \in {"check", "clone"} /\ chan'[t] = ch /\ msg'[t] = m
        /\ \A u \in Threads \ {t} : pc'[u] = pc[u] /\ chan'[u] = chan[u] /\ msg'[u] = msg[u]
        /\ result[m] = "none" /\ result'[m] = "sending"
        /\ \A n \in Msgs \ {m} : result'[n] = result[n]
        /\ open' = open
        /\ late' = IF open[ch] THEN late ELSE late \cup {m}
    BY <1>3, Zenon DEF TypeOK, BeginSend, Goto
  <2>2. m \notin late /\ late \subseteq Msgs
    BY <2>1, Zenon DEF LateInv, TypeOK
  <2>3. \A n \in late' : result'[n] \in {"sending", "refused"}
    BY <2>1, <2>2, Zenon DEF LateInv
  <2>4. ASSUME NEW u \in Threads, Sending(u)', msg'[u] \in late'
        PROVE  pc'[u] # "push" /\ ~open'[chan'[u]]
    <3>1. CASE u = t
      BY <2>1, <2>2, <2>4, <3>1, Zenon
    <3>2. CASE u # t
      <4>1. Sending(u) /\ msg[u] # m
        BY <2>1, <2>4, <3>2, Zenon DEF Sending, CallInv
      <4> QED BY <2>1, <2>4, <3>2, <4>1, Zenon DEF LateInv
    <3> QED BY <3>1, <3>2, Zenon
  <2> QED BY <2>3, <2>4, Zenon DEF LateInv
<1>4. ASSUME NEW t \in Threads, NEW ch \in Chans, NEW what \in RecvCalls, BeginRecv(t, ch, what)
      PROVE  LateInv'
  BY <1>1, <1>4, Zenon DEF TypeOK, BeginRecv, Goto, Sending
<1>5. ASSUME NEW t \in Threads, NEW ch \in Chans, BeginClose(t, ch)
      PROVE  LateInv'
  BY <1>1, <1>5, Zenon DEF TypeOK, BeginClose, Goto, Sending
<1>6. ASSUME NEW t \in Threads, BeginSelect(t) \/ Cancel(t)
      PROVE  LateInv'
  <2>1. /\ UNCHANGED <<open, late, result, chan, msg>>
        /\ \A u \in Threads : pc'[u] = pc[u] \/ pc'[u] = "scan"
    BY <1>6, Zenon DEF TypeOK, BeginSelect, Cancel, Goto
  <2> QED BY <1>1, <2>1, Zenon DEF Sending
<1>7. ASSUME NEW t \in Threads, Step(t)
      PROVE  LateInv'
  <2>1. ASSUME Return(t), late' = late, \A m \in late : result'[m] \in {result[m], "refused"},
               \A ch \in Chans : open'[ch] => open[ch]
        PROVE  LateInv'
    BY <1>1, <2>1, ReturnMoves, Zenon DEF Sending
  <2>2. ASSUME Refuse(t)
        PROVE  LateInv'
    <3>1. \A m \in late : result'[m] \in {result[m], "refused"}
      BY <2>2, Zenon DEF TypeOK, Refuse
    <3> QED BY <2>1, <2>2, <3>1, Zenon DEF Refuse
  <2>3. CASE FindsCancelled(t) \/ NoSender(t) \/ FindsFull(t)
    BY <2>2, <2>3, Zenon DEF FindsCancelled, NoSender, FindsFull
  <2>4. CASE Push(t)
    <3>1. msg[t] \notin late
      BY <2>4, Zenon DEF LateInv, Push, Sending
    <3>2. \A m \in late : result'[m] = result[m]
      BY <2>4, <3>1, Zenon DEF TypeOK, Push, PushTo
    <3> QED BY <2>1, <2>4, <3>2, Zenon DEF Push, PushTo
  <2>5. CASE Receive(t) \/ SeesEnd(t) \/ GiveUp(t) \/ PollTakes(t) \/ SelectNone(t)
    BY <2>1, <2>5, Zenon DEF Receive, SeesEnd, GiveUp, PollTakes, SelectNone
  <2>6. CASE TakeSender(t)
    <3>1. \A ch \in Chans : open'[ch] => open[ch]
      BY <2>6, Zenon DEF TypeOK, TakeSender
    <3> QED BY <2>1, <2>6, <3>1, Zenon DEF TakeSender
  <2>7. ASSUME UNCHANGED <<open, late, result, chan, msg>>,
               \A u \in Threads \ {t} : pc'[u] = pc[u],
               \/ Sending(t) /\ (pc'[t] = "push" => open[chan[t]])
               \/ pc'[t] \notin {"check", "clone", "push"}
        PROVE  LateInv'
    BY <1>1, <2>7, Zenon DEF Sending
  <2>8. CASE NotCancelled(t) \/ CloneSender(t) \/ CancelledRetry(t)
    BY <2>7, <2>8 DEF TypeOK, Sending, NotCancelled, CloneSender, CancelledRetry, Goto
  <2>9. CASE LockReceiver(t) \/ Looks(t) \/ LookAgain(t)
    BY <2>7, <2>9, Zenon DEF TypeOK, LockReceiver, Looks, LookAgain, Goto
  <2>10. CASE SkipClosed(t) \/ FindsLive(t) \/ PollEmpty(t) \/ SelectAgain(t)
    BY <2>7, <2>10, Zenon DEF TypeOK, SkipClosed, FindsLive, PollEmpty, SelectAgain, Goto
  <2> QED BY <1>7, <2>3, <2>4, <2>5, <2>6, <2>8, <2>9, <2>10, Zenon DEF Step
<1> QED BY <1>2, <1>3, <1>4, <1>5, <1>6, <1>7, Zenon DEF Next

LEMMA EndStep ==
  ASSUME TypeOK, CallInv, EndIsFinal, [Next]_vars
  PROVE  EndIsFinal'
<1> USE DEF chanVars, callVars, hist
(* Whoever is added to `ended` has ended; the others get no clone or message. *)
<1>1. ASSUME \A ch \in ended' \ ended : closed'[ch] /\ buf'[ch] = <<>> /\ Disconnected(ch)',
             \A ch \in Chans : /\ closed[ch] => closed'[ch]
                               /\ open'[ch] => open[ch]
                               /\ buf[ch] = <<>> => buf'[ch] = <<>> \/ Clones(ch) # {},
             \A u \in Threads : pc'[u] = "push" =>
                                  chan'[u] = chan[u] /\ (pc[u] = "push" \/ open[chan[u]])
      PROVE  EndIsFinal'
  <2>1. ASSUME NEW ch \in ended, ch \in Chans
        PROVE  closed'[ch] /\ buf'[ch] = <<>> /\ Disconnected(ch)'
    <3>1. closed[ch] /\ buf[ch] = <<>> /\ ~open[ch] /\ Clones(ch) = {}
      BY <2>1, Zenon DEF EndIsFinal, Disconnected
    <3>2. closed'[ch] /\ buf'[ch] = <<>> /\ ~open'[ch]
      BY <1>1, <2>1, <3>1, Zenon
    <3>3. \A u \in Threads : ~(pc'[u] = "push" /\ chan'[u] = ch)
      BY <1>1, <3>1, Zenon DEF Clones
    <3>4. Clones(ch)' = {}
      BY <3>3, Zenon DEF Clones
    <3> QED BY <3>2, <3>4, Zenon DEF Disconnected
  <2>2. ended \subseteq Chans
    BY Zenon DEF TypeOK
  <2> QED BY <1>1, <2>1, <2>2, ZenonT(30) DEF EndIsFinal
<1>2. CASE UNCHANGED vars
  BY <1>1, <1>2, Zenon DEF vars
<1>3. ASSUME NEW t \in Threads, NEW ch \in Chans, NEW m \in Msgs, NEW what \in SendCalls,
             BeginSend(t, ch, m, what)
      PROVE  EndIsFinal'
  BY <1>1, <1>3, Zenon DEF TypeOK, BeginSend, Goto
<1>4. ASSUME NEW t \in Threads, NEW ch \in Chans, NEW what \in RecvCalls, BeginRecv(t, ch, what)
      PROVE  EndIsFinal'
  BY <1>1, <1>4, Zenon DEF TypeOK, BeginRecv, Goto
<1>5. ASSUME NEW t \in Threads, NEW ch \in Chans, BeginClose(t, ch)
      PROVE  EndIsFinal'
  BY <1>1, <1>5, Zenon DEF TypeOK, BeginClose, Goto
<1>6. ASSUME NEW t \in Threads, BeginSelect(t) \/ Cancel(t)
      PROVE  EndIsFinal'
  <2>1. /\ UNCHANGED <<buf, open, closed, chan, ended>>
        /\ \A u \in Threads : pc'[u] = pc[u] \/ pc'[u] = "scan"
    BY <1>6, Zenon DEF TypeOK, BeginSelect, Cancel, Goto
  <2> QED BY <1>1, <2>1, Zenon
<1>7. ASSUME NEW t \in Threads, Step(t)
      PROVE  EndIsFinal'
  <2>1. ASSUME Return(t)
        PROVE  \A u \in Threads : pc'[u] = "push" => pc[u] = "push" /\ chan'[u] = chan[u]
    BY <2>1, ReturnMoves, Zenon
  <2>2. CASE FindsCancelled(t) \/ NoSender(t) \/ FindsFull(t)
    BY <1>1, <2>1, <2>2, Zenon DEF FindsCancelled, NoSender, FindsFull, Refuse
  <2>3. CASE Push(t)
    <3>1. t \in Clones(chan[t])
      BY <2>3, Zenon DEF Push, Clones
    <3>2. \A ch \in Chans : buf'[ch] = buf[ch] \/ ch = chan[t]
      BY <2>3, Zenon DEF TypeOK, Push, PushTo
    <3> QED BY <1>1, <2>1, <2>3, <3>1, <3>2, Zenon DEF Push, PushTo
  <2>4. CASE Receive(t)
    <3>1. \A ch \in Chans : buf[ch] = <<>> => buf'[ch] = buf[ch]
      BY <2>4, Zenon DEF TypeOK, Receive
    <3> QED BY <1>1, <2>1, <2>4, <3>1, Zenon DEF Receive
  <2>5. CASE PollTakes(t)
    <3>1. \A ch \in Chans : buf[ch] = <<>> => buf'[ch] = buf[ch]
      BY <2>5, Zenon DEF TypeOK, PollTakes
    <3> QED BY <1>1, <2>1, <2>5, <3>1, Zenon DEF PollTakes
  <2>6. CASE SeesEnd(t)
    <3>1. chan[t] \in Chans
      BY <2>6, Zenon DEF CallInv, SeesEnd
    <3>2. /\ ended' = ended \cup {chan[t]} /\ closed'[chan[t]] /\ UNCHANGED <<buf, open>>
          /\ \A ch \in Chans : closed[ch] => closed'[ch]
          /\ buf[chan[t]] = <<>> /\ Disconnected(chan[t]) /\ Return(t)
      BY <2>6, <3>1, Zenon DEF TypeOK, SeesEnd
    <3>3. \A ch \in Chans : Disconnected(ch) => Disconnected(ch)'
      BY <2>1, <3>2, ZenonT(30) DEF Disconnected, Clones
    <3>4. \A ch \in ended' \ ended : ch = chan[t]
      BY <3>2, Zenon
    <3>5. \A ch \in ended' \ ended : closed'[ch] /\ buf'[ch] = <<>> /\ Disconnected(ch)'
      BY <3>1, <3>2, <3>3, <3>4, Zenon
    <3> QED BY <1>1, <2>1, <3>2, <3>5, Zenon
  <2>7. CASE PollEmpty(t)
    <3>1. pos[t] \in Chans /\ pc'[t] = "scan" /\ \A u \in Threads \ {t} : pc'[u] = pc[u]
      BY <2>7, Zenon DEF TypeOK, CallInv, PollEmpty, Goto
    <3>2. UNCHANGED <<buf, open, chan>> /\ buf[pos[t]] = <<>>
      BY <2>7, ZenonT(30) DEF PollEmpty, Here
    <3>3. CASE Disconnected(pos[t])
      <4>1. ended' = ended \cup {pos[t]} /\ closed' = [closed EXCEPT ![pos[t]] = TRUE]
        BY <2>7, <3>3, Zenon DEF PollEmpty, Here
      <4>2. closed'[pos[t]] /\ \A ch \in Chans : closed[ch] => closed'[ch]
        BY <3>1, <4>1, Zenon DEF TypeOK
      <4>3. \A ch \in Chans : Disconnected(ch) => Disconnected(ch)'
        BY <3>1, <3>2, Zenon DEF Disconnected, Clones
      <4> QED BY <1>1, <3>1, <3>2, <3>3, <4>1, <4>2, <4>3, Zenon
    <3>4. CASE ~Disconnected(pos[t])
      <4>1. UNCHANGED <<closed, ended>>
        BY <2>7, <3>4, Zenon DEF PollEmpty, Here
      <4> QED BY <1>1, <3>1, <3>2, <4>1, Zenon
    <3> QED BY <3>3, <3>4, Zenon
  <2>8. CASE GiveUp(t) \/ SelectNone(t)
    BY <1>1, <2>1, <2>8, ZenonT(30) DEF GiveUp, SelectNone
  <2>9. CASE TakeSender(t)
    <3>1. \A ch \in Chans : open'[ch] => open[ch]
      BY <2>9, Zenon DEF TypeOK, TakeSender
    <3> QED BY <1>1, <2>1, <2>9, <3>1, Zenon DEF TakeSender
  <2>10. ASSUME UNCHANGED <<buf, open, closed, chan, ended>>,
                \A u \in Threads \ {t} : pc'[u] = pc[u], pc'[t] = "push" => open[chan[t]]
         PROVE  EndIsFinal'
    BY <1>1, <2>10, Zenon
  <2>11. CASE NotCancelled(t) \/ CloneSender(t) \/ CancelledRetry(t)
    BY <2>10, <2>11, Zenon DEF TypeOK, NotCancelled, CloneSender, CancelledRetry, Goto
  <2>12. CASE LockReceiver(t) \/ Looks(t) \/ LookAgain(t)
    BY <2>10, <2>12, Zenon DEF TypeOK, LockReceiver, Looks, LookAgain, Goto
  <2>13. CASE SkipClosed(t) \/ FindsLive(t) \/ SelectAgain(t)
    BY <2>10, <2>13, Zenon DEF TypeOK, SkipClosed, FindsLive, SelectAgain, Goto
  <2> QED BY <1>7, <2>2, <2>3, <2>4, <2>5, <2>6, <2>7, <2>8, <2>9, <2>11, <2>12, <2>13, Zenon DEF Step
<1> QED BY <1>2, <1>3, <1>4, <1>5, <1>6, <1>7, Zenon DEF Next

LEMMA SelectsStep ==
  ASSUME TypeOK, CallInv, ReadyInv, PassedInv, [Next]_vars
  PROVE  ReadyInv' /\ PassedInv'
<1> USE DEF chanVars, callVars, hist
(* No channel becomes ready during a select, and a select passes no channel  *)
(* that is ready.                                                            *)
<1>1. ASSUME \A u \in Threads : \A ch \in ready'[u] :
               ch \in ready[u] /\ buf'[ch] # <<>> /\ ~closed'[ch],
             \A u \in Threads : pc'[u] \in {"scan", "poll"} =>
               /\ pc[u] \in {"scan", "poll"}
               /\ \A i \in 1..pos'[u] - 1 : i \in 1..pos[u] - 1 \/ i \notin ready[u]
      PROVE  ReadyInv' /\ PassedInv'
  BY <1>1, ZenonT(30) DEF ReadyInv, PassedInv
(* Most steps leave queues and flags alone. *)
<1>2. ASSUME UNCHANGED <<buf, closed, ready>>,
             \A u \in Threads : pc'[u] \in {"scan", "poll"} =>
               /\ pc[u] \in {"scan", "poll"}
               /\ \A i \in 1..pos'[u] - 1 : i \in 1..pos[u] - 1 \/ i \notin ready[u]
      PROVE  ReadyInv' /\ PassedInv'
  BY <1>1, <1>2, Zenon DEF ReadyInv
<1>3. CASE UNCHANGED vars
  BY <1>2, <1>3, Zenon DEF vars
<1>4. ASSUME NEW t \in Threads, NEW ch \in Chans, NEW m \in Msgs, NEW what \in SendCalls,
             BeginSend(t, ch, m, what)
      PROVE  ReadyInv' /\ PassedInv'
  BY <1>2, <1>4, Zenon DEF TypeOK, BeginSend, Goto
<1>5. ASSUME NEW t \in Threads, NEW ch \in Chans, NEW what \in RecvCalls, BeginRecv(t, ch, what)
      PROVE  ReadyInv' /\ PassedInv'
  BY <1>2, <1>5, Zenon DEF TypeOK, BeginRecv, Goto
<1>6. ASSUME NEW t \in Threads, NEW ch \in Chans, BeginClose(t, ch)
      PROVE  ReadyInv' /\ PassedInv'
  <2>1. \A u \in Threads : ready'[u] = ready[u] \ {ch}
    BY <1>6, Zenon DEF TypeOK, BeginClose, Disturb
  <2>2. buf' = buf /\ \A c \in Chans \ {ch} : closed'[c] = closed[c]
    BY <1>6, Zenon DEF TypeOK, BeginClose
  <2>3. \A u \in Threads : \A c \in ready[u] : c \in Chans
    BY Zenon DEF TypeOK
  <2>4. \A u \in Threads : pc'[u] \in {"scan", "poll"} => pc[u] = pc'[u] /\ pos'[u] = pos[u]
    BY <1>6, Zenon DEF TypeOK, BeginClose, Goto
  <2> QED BY <1>1, <2>1, <2>2, <2>3, <2>4, ZenonT(30) DEF ReadyInv
<1>7. ASSUME NEW t \in Threads, BeginSelect(t)
      PROVE  ReadyInv' /\ PassedInv'
  <2>1. /\ pos'[t] = 1 /\ ready'[t] = {ch \in Chans : buf[ch] # <<>> /\ ~closed[ch]}
        /\ \A u \in Threads \ {t} : pc'[u] = pc[u] /\ pos'[u] = pos[u] /\ ready'[u] = ready[u]
        /\ UNCHANGED <<buf, closed>>
    BY <1>7, Zenon DEF TypeOK, BeginSelect, Goto
  <2>2. \A u \in Threads : \A c \in ready'[u] : buf'[c] # <<>> /\ ~closed'[c]
    BY <2>1, Zenon DEF ReadyInv
  <2>3. ASSUME NEW u \in Threads, pc'[u] \in {"scan", "poll"}
        PROVE  \A i \in 1..pos'[u] - 1 : i \notin ready'[u]
    <3>1. CASE u = t
      <4>1. 1..1 - 1 = {}
        OBVIOUS
      <4> QED BY <2>1, <3>1, <4>1, Zenon
    <3>2. CASE u # t
      BY <2>1, <2>3, <3>2, Zenon DEF PassedInv
    <3> QED BY <3>1, <3>2, Zenon
  <2> QED BY <2>2, <2>3, Zenon DEF ReadyInv, PassedInv
<1>8. ASSUME NEW t \in Threads, Cancel(t)
      PROVE  ReadyInv' /\ PassedInv'
  BY <1>2, <1>8, Zenon DEF Cancel
<1>9. ASSUME NEW t \in Threads, Step(t)
      PROVE  ReadyInv' /\ PassedInv'
  <2>1. ASSUME Return(t)
        PROVE  \A u \in Threads : pc'[u] \in {"scan", "poll"} => pc[u] = pc'[u] /\ pos'[u] = pos[u]
    BY <2>1, ReturnMoves, Zenon DEF TypeOK, Return, Goto
  <2>2. ASSUME Return(t), UNCHANGED <<buf, closed, ready>>
        PROVE  ReadyInv' /\ PassedInv'
    BY <1>2, <2>1, <2>2, ZenonT(30)
  <2>3. CASE FindsCancelled(t) \/ NoSender(t) \/ FindsFull(t) \/ GiveUp(t) \/ TakeSender(t)
    BY <2>2, <2>3, Zenon DEF FindsCancelled, NoSender, FindsFull, Refuse, GiveUp, TakeSender
  <2>4. CASE Push(t)
    <3>1. chan[t] \in Chans /\ msg[t] \in Msgs
      BY <2>4, Zenon DEF CallInv, Push, Sending
    <3>2. \A ch \in Chans : buf[ch] # <<>> => buf'[ch] # <<>>
      <4>1. \A ch \in Chans : buf'[ch] \in {buf[ch], Append(buf[ch], msg[t])}
        BY <2>4, <3>1, Zenon DEF TypeOK, Push, PushTo
      <4>2. ASSUME NEW q \in Seq(Msgs)
            PROVE  Append(q, msg[t]) # <<>>
        <5>1. Len(Append(q, msg[t])) = Len(q) + 1 /\ Len(q) \in Nat
          BY <3>1
        <5> QED BY <5>1
      <4> QED BY <4>1, <4>2, Zenon DEF TypeOK
    <3>3. \A u \in Threads : \A ch \in ready[u] : ch \in Chans
      BY Zenon DEF TypeOK
    <3> QED BY <1>1, <2>1, <2>4, <3>2, <3>3, ZenonT(30) DEF Push, PushTo, ReadyInv
  <2>5. ASSUME NEW ch \in Chans, Return(t), closed' = closed, buf' = [buf EXCEPT ![ch] = Tail(@)],
               \A u \in Threads : ready'[u] \subseteq ready[u] \ {ch}
        PROVE  ReadyInv' /\ PassedInv'
    <3>1. \A c \in Chans \ {ch} : buf'[c] = buf[c]
      BY <2>5, Zenon DEF TypeOK
    <3>2. \A u \in Threads : \A c \in ready[u] : c \in Chans
      BY Zenon DEF TypeOK
    <3> QED BY <1>1, <2>1, <2>5, <3>1, <3>2, ZenonT(30) DEF ReadyInv
  <2>6. CASE Receive(t)
    <3>1. chan[t] \in Chans
      BY <2>6, Zenon DEF CallInv, Receive
    <3> QED BY <2>5, <2>6, <3>1, ZenonT(30) DEF Receive, Disturb
  <2>7. CASE PollTakes(t)
    <3>1. pos[t] \in Chans
      BY <2>7, Zenon DEF CallInv, PollTakes
    <3> QED BY <2>5, <2>7, <3>1, Zenon DEF PollTakes, Here
  <2>8. ASSUME NEW ch \in Chans, buf[ch] = <<>>, UNCHANGED <<buf, ready>>,
               closed' \in {closed, [closed EXCEPT ![ch] = TRUE]}
        PROVE  \A u \in Threads : \A c \in ready'[u] : c \in ready[u] /\ buf'[c] # <<>> /\ ~closed'[c]
    <3>1. \A u \in Threads : \A c \in ready[u] : c \in Chans /\ c # ch
      BY <2>8, Zenon DEF TypeOK, ReadyInv
    <3>2. \A c \in Chans \ {ch} : closed'[c] = closed[c]
      BY <2>8, Zenon DEF TypeOK
    <3> QED BY <2>8, <3>1, <3>2, Zenon DEF ReadyInv
  <2>9. CASE SeesEnd(t)
    <3>1. chan[t] \in Chans
      BY <2>9, Zenon DEF CallInv, SeesEnd
    <3> QED BY <1>1, <2>1, <2>8, <2>9, <3>1, Zenon DEF SeesEnd
  <2>10. ASSUME pos[t] \in Chans, \A u \in Threads : pos[t] \notin ready[u],
                Advance(t), pc'[t] = "scan", pc[t] \in {"scan", "poll"},
                \A u \in Threads \ {t} : pc'[u] = pc[u]
         PROVE  \A u \in Threads : pc'[u] \in {"scan", "poll"} =>
                  /\ pc[u] \in {"scan", "poll"}
                  /\ \A i \in 1..pos'[u] - 1 : i \in 1..pos[u] - 1 \/ i \notin ready[u]
    <3>1. pos'[t] = pos[t] + 1 /\ \A u \in Threads \ {t} : pos'[u] = pos[u]
      BY <2>10, Zenon DEF TypeOK, Advance
    <3>2. ASSUME NEW i \in 1..pos'[t] - 1
          PROVE  i \in 1..pos[t] - 1 \/ i = pos[t]
      <4>1. pos[t] \in Nat
        BY <2>10, ChannelAssumption DEF Chans
      <4> QED BY <3>1, <3>2, <4>1
    <3>3. ASSUME NEW u \in Threads, pc'[u] \in {"scan", "poll"}
          PROVE  /\ pc[u] \in {"scan", "poll"}
                 /\ \A i \in 1..pos'[u] - 1 : i \in 1..pos[u] - 1 \/ i \notin ready[u]
      <4>1. CASE u = t
        BY <2>10, <3>2, <4>1, Zenon
      <4>2. CASE u # t
        BY <2>10, <3>1, <3>3, <4>2, Zenon
      <4> QED BY <4>1, <4>2, Zenon
    <3> QED BY <3>3, Zenon
  <2>11. CASE PollEmpty(t)
    <3>1. pos[t] \in Chans /\ buf[pos[t]] = <<>> /\ \A u \in Threads : pos[t] \notin ready[u]
      BY <2>11, Zenon DEF CallInv, PollEmpty, Here, ReadyInv
    <3>2. /\ Advance(t) /\ UNCHANGED <<buf, ready>> /\ pc[t] = "poll" /\ pc'[t] = "scan"
          /\ \A u \in Threads \ {t} : pc'[u] = pc[u]
      BY <2>11, Zenon DEF TypeOK, PollEmpty, Goto
    <3>3. closed' \in {closed, [closed EXCEPT ![pos[t]] = TRUE]}
      BY <2>11, ZenonT(30) DEF PollEmpty, Here
    <3> QED BY <1>1, <2>8, <2>10, <3>1, <3>2, <3>3, ZenonT(30)
  <2>12. CASE SkipClosed(t)
    <3>1. pos[t] \in Chans /\ \A u \in Threads : pos[t] \notin ready[u]
      BY <2>12 DEF TypeOK, SkipClosed, Here, ReadyInv, Chans
    <3> QED BY <1>2, <2>10, <2>12, <3>1, Zenon DEF SkipClosed
  <2>13. CASE SelectNone(t)
    <3>1. \A u \in Threads : ready'[u] \subseteq ready[u]
      BY <2>13, Zenon DEF TypeOK, SelectNone
    <3> QED BY <1>1, <2>1, <2>13, <3>1, Zenon DEF SelectNone, ReadyInv
  <2>14. CASE NotCancelled(t) \/ CloneSender(t) \/ CancelledRetry(t)
    BY <1>2, <2>14 DEF TypeOK, NotCancelled, CloneSender, CancelledRetry, Goto
  <2>15. CASE LockReceiver(t) \/ Looks(t) \/ LookAgain(t)
    BY <1>2, <2>15, Zenon DEF TypeOK, LockReceiver, Looks, LookAgain, Goto
  <2>16. CASE FindsLive(t)
    BY <1>2, <2>16, Zenon DEF TypeOK, FindsLive, Goto
  <2>17. CASE SelectAgain(t)
    BY <1>2, <2>17 DEF TypeOK, SelectAgain
  <2> QED BY <1>9, <2>3, <2>4, <2>6, <2>7, <2>9, <2>11, <2>12, <2>13, <2>14, <2>15, <2>16, <2>17, Zenon
          DEF Step
<1> QED BY <1>3, <1>4, <1>5, <1>6, <1>7, <1>8, <1>9, Zenon DEF Next

-----------------------------------------------------------------------------
(* The inductive invariant holds in every reachable state. *)
THEOREM ChannelInductive == Spec => []ChannelInv
<1>1. Init => ChannelInv
  <2> SUFFICES ASSUME Init PROVE ChannelInv
    OBVIOUS
  <2>1. \A t \in Threads : pc[t] = "idle" /\ ready[t] = {}
    BY DEF Init
  <2>2. \A ch \in Chans : buf[ch] = <<>> /\ Len(buf[ch]) = 0
    BY DEF Init
  <2>3. \A m \in Msgs : result[m] = "none"
    BY DEF Init
  <2>4. got = {} /\ late = {} /\ ended = {}
    BY DEF Init
  <2>5. \A t \in Threads : ~Sending(t)
    BY <2>1 DEF Sending
  <2>6. CallInv
    BY <2>1, <2>5 DEF CallInv
  <2>7. \A ch \in Chans : 1..Len(buf[ch]) = {}
    BY <2>2
  <2>8. QueueInv
    BY <2>3, <2>4, <2>7 DEF QueueInv
  <2>9. LateInv
    BY <2>4, <2>5 DEF LateInv
  <2>10. EndIsFinal
    BY <2>4 DEF EndIsFinal
  <2>11. ReadyInv /\ PassedInv
    BY <2>1 DEF ReadyInv, PassedInv
  <2> QED BY <2>6, <2>8, <2>9, <2>10, <2>11, TypeInit, Zenon DEF ChannelInv
<1>2. ChannelInv /\ [Next]_vars => ChannelInv'
  BY TypeStep, CallStep, QueueStep, LateStep, EndStep, SelectsStep, Zenon DEF ChannelInv
<1> QED BY <1>1, <1>2, PTL DEF Spec

(* In every run, whatever the number of threads, channels, messages and      *)
(* calls and whatever the capacity: a send that returned true has its        *)
(* message in a queue or delivered, never both; one that returned false has  *)
(* delivered nothing; a send that begins after close delivers nothing; and   *)
(* the end a receiver has seen is final.                                     *)
THEOREM ChannelsAreTruthful == Spec => []ChannelTruthful
<1>1. ASSUME ChannelInv PROVE ChannelTruthful
  <2>1. SendsTruthful
    <3>1. ASSUME NEW m, InQueue(m) PROVE result[m] = "sent" /\ m \notin got
      <4>0. PICK ch \in Chans : \E i \in 1..Len(buf[ch]) : buf[ch][i] = m
        BY <3>1, Zenon DEF InQueue
      <4>1. PICK i \in 1..Len(buf[ch]) : buf[ch][i] = m
        BY <4>0, Zenon
      <4>2. result[buf[ch][i]] = "sent" /\ buf[ch][i] \notin got
        BY <1>1, <4>1, Zenon DEF ChannelInv, QueueInv
      <4> QED BY <4>1, <4>2, Zenon
    <3>2. \A m \in got : result[m] = "sent"
      BY <1>1, Zenon DEF ChannelInv, QueueInv
    <3>3. \A m \in Msgs : result[m] = "sent" => m \in got \/ InQueue(m)
      BY <1>1, Zenon DEF ChannelInv, QueueInv
    <3> QED BY <3>1, <3>2, <3>3, Zenon DEF SendsTruthful
  <2>2. LateSendsRefused
    BY <1>1, Zenon DEF ChannelInv, TypeOK, QueueInv, LateInv, LateSendsRefused, InQueue
  <2> QED BY <1>1, <2>1, <2>2, Zenon DEF ChannelInv, ChannelTruthful
<1> QED BY <1>1, ChannelInductive, PTL

(* In every run select honours the order of its list: it neither returns a   *)
(* later channel nor gives up past one that held a message all along.        *)
THEOREM SelectsInOrder == Spec => SelectInOrder
<1>1. ASSUME ChannelInv, [Next]_vars PROVE [SelectStep]_vars
  BY <1>1, Zenon DEF ChannelInv, PassedInv, SelectStep
<1> QED BY <1>1, ChannelInductive, PTL DEF Spec, SelectInOrder
=============================================================================
