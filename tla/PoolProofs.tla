----------------------------- MODULE PoolProofs -----------------------------
(***************************************************************************)
(* The pool of SQL connections, the migrations that use them and the       *)
(* process pool are sound for any number of clients, connections,          *)
(* processes, versions, migration files, workers and commands.             *)
(***************************************************************************)
EXTENDS SqlPool, Migrator, ProcessPool, FiniteSetTheorems, TLAPS

(***************************************************************************)
(* The connection pool's counters are exact and no wakeup is lost, for any *)
(* number of clients, leases and connections.  The proof counts clients by *)
(* where they are: a step changes each count by what its threads do.       *)
(***************************************************************************)
Count(p, X) == Cardinality({d \in Clients : p[d] \in X})
Bit(b) == IF b THEN 1 ELSE 0
Resting == {"waiting", "woken", "expired"}

LEMMA CountType ==
  ASSUME NEW p, NEW X
  PROVE  /\ IsFiniteSet({d \in Clients : p[d] \in X})
         /\ Count(p, X) \in Nat
         /\ Count(p, X) = 0 <=> {d \in Clients : p[d] \in X} = {}
<1>1. {d \in Clients : p[d] \in X} \subseteq Clients
  BY Zenon
<1>2. IsFiniteSet({d \in Clients : p[d] \in X})
  BY <1>1, FS_Subset, SqlPoolAssumption, Zenon
<1> QED BY <1>2, FS_CardinalityType, FS_EmptySet, Zenon DEF Count

(* One client moves. *)
CountChange(p, q, c, X) ==
  /\ q[c] \in X /\ p[c] \notin X => Count(q, X) = Count(p, X) + 1
  /\ q[c] \notin X /\ p[c] \in X => Count(q, X) = Count(p, X) - 1
  /\ (q[c] \in X <=> p[c] \in X) => Count(q, X) = Count(p, X)
  /\ p[c] \in X => Count(p, X) > 0

LEMMA CountMove ==
  ASSUME NEW p, NEW q, NEW c \in Clients, NEW X,
         \A d \in Clients : d # c => q[d] = p[d]
  PROVE  CountChange(p, q, c, X)
<1> DEFINE A == {d \in Clients : p[d] \in X}
           B == {d \in Clients : q[d] \in X}
<1>1. IsFiniteSet(A) /\ Cardinality(A) \in Nat /\ (Cardinality(A) = 0 <=> A = {})
  BY CountType, Zenon DEF Count
<1>6. Count(p, X) = Cardinality(A) /\ Count(q, X) = Cardinality(B)
  BY Zenon DEF Count
<1>3. ASSUME q[c] \in X, p[c] \notin X
      PROVE  Count(q, X) = Count(p, X) + 1
  <2>1. B = A \cup {c} /\ c \notin A
    BY <1>3, Zenon
  <2>2. Cardinality(A \cup {c}) = Cardinality(A) + 1
    BY <2>1, <1>1, FS_AddElement, Zenon
  <2> QED BY <2>1, <2>2, <1>6, Zenon
<1>4. ASSUME q[c] \notin X, p[c] \in X
      PROVE  Count(q, X) = Count(p, X) - 1
  <2>1. B = A \ {c} /\ c \in A
    BY <1>4, Zenon
  <2>2. Cardinality(A \ {c}) = Cardinality(A) - 1
    BY <2>1, <1>1, FS_RemoveElement, Zenon
  <2> QED BY <2>1, <2>2, <1>6, Zenon
<1>5. ASSUME q[c] \in X <=> p[c] \in X
      PROVE  Count(q, X) = Count(p, X)
  <2>1. B = A
    BY <1>5, Zenon
  <2> QED BY <2>1, <1>6, Zenon
<1>7. ASSUME p[c] \in X
      PROVE  Count(p, X) > 0
  <2>1. c \in A
    BY <1>7, Zenon
  <2> QED BY <2>1, <1>1, <1>6
<1> QED BY <1>3, <1>4, <1>5, <1>7, Zenon DEF CountChange

-----------------------------------------------------------------------------
(* The counts after each kind of step of a client c.  W counts the clients  *)
(* in the wait, woken or expired; K those that open a connection; Z those   *)
(* that were woken.                                                         *)
W == Count(pc, Resting)
K == Count(pc, {"connect"})
Z == Count(pc, {"woken"})

LEMMA Moved ==
  ASSUME TypeOK, NEW c \in Clients, NEW s \in States, pc' = [pc EXCEPT ![c] = s]
  PROVE  /\ W' = (W + Bit(s \in Resting)) - Bit(pc[c] \in Resting)
         /\ K' = (K + Bit(s = "connect")) - Bit(pc[c] = "connect")
         /\ Z' = (Z + Bit(s = "woken")) - Bit(pc[c] = "woken")
         /\ pc[c] \in Resting => W > 0
         /\ pc[c] = "connect" => K > 0
         /\ pc[c] = "woken" => Z > 0
         /\ s # "waiting" => At("waiting")' \subseteq At("waiting")
<1>0. PICK q : q = pc'
  BY Zenon
<1>1. q[c] = s /\ \A d \in Clients : d # c => q[d] = pc[d]
  BY <1>0, Zenon DEF TypeOK
<1>2. W \in Nat /\ K \in Nat /\ Z \in Nat
  BY CountType, Zenon DEF W, K, Z
<1>3. W' = Count(q, Resting) /\ K' = Count(q, {"connect"}) /\ Z' = Count(q, {"woken"})
  BY <1>0, Zenon DEF W, K, Z, Count
<1>4. /\ CountChange(pc, q, c, Resting)
     /\ CountChange(pc, q, c, {"connect"})
     /\ CountChange(pc, q, c, {"woken"})
  BY <1>1, CountMove, Zenon
<1>5. /\ Count(q, Resting) = (W + Bit(s \in Resting)) - Bit(pc[c] \in Resting)
      /\ Count(q, {"connect"}) = (K + Bit(s = "connect")) - Bit(pc[c] = "connect")
      /\ Count(q, {"woken"}) = (Z + Bit(s = "woken")) - Bit(pc[c] = "woken")
      /\ pc[c] \in Resting => W > 0
      /\ pc[c] = "connect" => K > 0
      /\ pc[c] = "woken" => Z > 0
  BY <1>1, <1>2, <1>4 DEF CountChange, W, K, Z, Bit
<1>6. s # "waiting" => At("waiting")' \subseteq At("waiting")
  BY <1>0, <1>1, Zenon DEF At
<1> QED BY <1>3, <1>5, <1>6, Zenon

(* notify_one: the client moves on, and one sleeper, if any, is woken. *)
LEMMA NotifiedOne ==
  ASSUME TypeOK, NEW c \in Clients, pc[c] \notin Resting, pc' \in NotifyOne(c, "idle")
  PROVE  /\ pc' \in [Clients -> States]
         /\ W' = W
         /\ K' = K - Bit(pc[c] = "connect")
         /\ pc[c] = "connect" => K > 0
         /\ IF At("waiting") = {} THEN Z' = Z /\ At("waiting")' = {} ELSE Z' = Z + 1
<1>0. PICK p : p = [pc EXCEPT ![c] = "idle"]
  BY Zenon
<1>1. pc \in [Clients -> States] /\ p \in [Clients -> States] /\ p[c] = "idle"
      /\ "idle" \in States /\ "woken" \in States
      /\ \A d \in Clients : d # c => p[d] = pc[d]
  BY <1>0, Zenon DEF TypeOK, States
<1>2. W \in Nat /\ K \in Nat /\ Z \in Nat
  BY CountType, Zenon DEF W, K, Z
<1>3. /\ Count(p, Resting) = W
      /\ Count(p, {"connect"}) = K - Bit(pc[c] = "connect") /\ (pc[c] = "connect" => K > 0)
      /\ Count(p, {"woken"}) = Z
  <2>1. /\ CountChange(pc, p, c, Resting)
       /\ CountChange(pc, p, c, {"connect"})
       /\ CountChange(pc, p, c, {"woken"})
    BY <1>1, CountMove, Zenon
  <2> QED BY <1>1, <1>2, <2>1 DEF CountChange, W, K, Z, Bit, Resting
<1>4. {d \in Clients : p[d] = "waiting"} = At("waiting")
  BY <1>1, Zenon DEF At, Resting
<1>5. CASE At("waiting") = {}
  <2>1. pc' = p
    BY <1>0, <1>4, <1>5, Zenon DEF NotifyOne
  <2> QED BY <2>1, <1>1, <1>3, <1>4, <1>5, Zenon DEF W, K, Z, At
<1>6. CASE At("waiting") # {}
  <2>0. PICK q : q = pc'
    BY Zenon
  <2>1. PICK d \in Clients : p[d] = "waiting" /\ q = [p EXCEPT ![d] = "woken"]
    BY <2>0, <1>0, <1>4, <1>6, Zenon DEF NotifyOne, At
  <2>2. q[d] = "woken" /\ \A e \in Clients : e # d => q[e] = p[e]
    BY <2>1, <1>1, Zenon
  <2>3. /\ CountChange(p, q, d, Resting)
       /\ CountChange(p, q, d, {"connect"})
       /\ CountChange(p, q, d, {"woken"})
    BY <2>2, CountMove, Zenon
  <2>4. /\ Count(q, Resting) = Count(p, Resting)
        /\ Count(q, {"connect"}) = Count(p, {"connect"})
        /\ Count(q, {"woken"}) = Count(p, {"woken"}) + 1
    BY <2>1, <2>2, <2>3, Zenon DEF CountChange, Resting
  <2>6. pc' \in [Clients -> States]
    BY <2>0, <2>1, <1>1, Zenon
  <2>7. W' = Count(q, Resting) /\ K' = Count(q, {"connect"}) /\ Z' = Count(q, {"woken"})
    BY <2>0, Zenon DEF W, K, Z, Count
  <2> QED BY <1>3, <1>6, <2>4, <2>6, <2>7, Zenon
<1> QED BY <1>5, <1>6, Zenon

(* notify_all: every sleeper is woken. *)
LEMMA NotifiedAll ==
  ASSUME TypeOK, NEW c \in Clients, pc[c] \notin Resting, pc' = NotifyAll(c, "idle")
  PROVE  /\ pc' \in [Clients -> States]
         /\ W' = W
         /\ K' = K - Bit(pc[c] = "connect")
         /\ pc[c] = "connect" => K > 0
         /\ At("waiting")' = {}
<1>0. PICK p : p = [pc EXCEPT ![c] = "idle"]
  BY Zenon
<1>1. pc \in [Clients -> States] /\ p \in [Clients -> States] /\ p[c] = "idle"
      /\ "idle" \in States /\ "woken" \in States
      /\ \A d \in Clients : d # c => p[d] = pc[d]
  BY <1>0, Zenon DEF TypeOK, States
<1>2. /\ pc'[c] = "idle"
      /\ \A d \in Clients : d # c => pc'[d] = IF pc[d] = "waiting" THEN "woken" ELSE pc[d]
      /\ pc' \in [Clients -> States]
  BY <1>1, Zenon DEF NotifyAll, States
<1>3. /\ {d \in Clients : pc'[d] \in Resting} = {d \in Clients : p[d] \in Resting}
      /\ {d \in Clients : pc'[d] \in {"connect"}} = {d \in Clients : p[d] \in {"connect"}}
      /\ {d \in Clients : pc'[d] = "waiting"} = {}
  BY <1>1, <1>2, Zenon DEF Resting
<1>6. W \in Nat /\ K \in Nat
  BY CountType, Zenon DEF W, K
<1>4. CountChange(pc, p, c, Resting) /\ CountChange(pc, p, c, {"connect"})
  BY <1>1, CountMove, Zenon
<1>5. /\ Count(p, Resting) = W
      /\ Count(p, {"connect"}) = K - Bit(pc[c] = "connect")
      /\ pc[c] = "connect" => K > 0
  BY <1>1, <1>4, <1>6 DEF CountChange, W, K, Bit, Resting
<1>7. W' = Count(p, Resting) /\ K' = Count(p, {"connect"})
  BY <1>3, Zenon DEF W, K, Count
<1> QED BY <1>2, <1>3, <1>5, <1>7, Zenon DEF At

-----------------------------------------------------------------------------
(* The invariant: TypeOK and the three properties together are inductive.  *)

Lent == Cardinality(held)

LEMMA HeldType ==
  ASSUME TypeOK
  PROVE  IsFiniteSet(held) /\ Lent \in Nat
<1>1. IsFiniteSet(Clients \X Slots)
  BY FS_Product, SqlPoolAssumption, Zenon
<1>2. IsFiniteSet(held)
  BY <1>1, FS_Subset, Zenon DEF TypeOK
<1> QED BY <1>2, FS_CardinalityType, Zenon DEF Lent

LEMMA Leased ==
  ASSUME TypeOK, NEW x \in Clients \X Slots, x \notin held, held' = held \cup {x}
  PROVE  Lent' = Lent + 1
BY HeldType, FS_AddElement, Zenon DEF Lent

LEMMA Unleased ==
  ASSUME TypeOK, NEW x \in held, held' = held \ {x}
  PROVE  Lent' = Lent - 1 /\ Lent > 0
<1>1. Lent' = Lent - 1
  BY HeldType, FS_RemoveElement, Zenon DEF Lent
<1>2. Lent # 0
  BY HeldType, FS_EmptySet, Zenon DEF Lent
<1> QED BY <1>1, <1>2, HeldType

Slack == idle + (max_connections - total)
Inv ==
  /\ in_use = Lent + K
  /\ total = idle + in_use
  /\ total <= max_connections
  /\ waiters = W
  /\ ~closed /\ At("waiting") # {} => Slack <= Z
  /\ closed => At("waiting") = {} /\ idle = 0

LEMMA InvMeans ==
  ASSUME TypeOK
  PROVE  Inv <=> Accounting /\ NoWakeupLost /\ ClosedIsEmpty
<1>1. /\ W = Cardinality(Asleep)
      /\ K = Cardinality(At("connect"))
      /\ Z = Cardinality(At("woken"))
  BY Zenon DEF W, K, Z, Count, Asleep, At, Resting
<1>2. max_connections \in Nat /\ Lent \in Nat /\ K \in Nat
  <2>1. K \in Nat
    BY CountType, Zenon DEF K
  <2>2. max_connections \in Nat
    BY SqlPoolAssumption
  <2> QED BY <2>1, <2>2, HeldType, Zenon
<1> QED BY <1>1, <1>2 DEF Inv, Accounting, NoWakeupLost, ClosedIsEmpty, Lent, Slack, TypeOK

-----------------------------------------------------------------------------
(* What moving client c to place s does to the counts. *)
Delta(c, s) ==
  /\ W' = (W + Bit(s \in Resting)) - Bit(pc[c] \in Resting)
  /\ K' = (K + Bit(s = "connect")) - Bit(pc[c] = "connect")
  /\ Z' = (Z + Bit(s = "woken")) - Bit(pc[c] = "woken")
  /\ pc[c] \in Resting => W > 0
  /\ pc[c] = "connect" => K > 0
  /\ pc[c] = "woken" => Z > 0
  /\ s # "waiting" => At("waiting")' \subseteq At("waiting")

(* Every step of a client keeps the counters exact and loses no wakeup. *)
LEMMA InvStep ==
  ASSUME TypeOK, Inv, NEW c \in Clients,
         \/ PoolExecute(c) \/ PoolQuery(c) \/ Continue(c) \/ ResultSetEnds(c)
         \/ Close(c) \/ DropName(c) \/ \E d \in Clients : CopyName(c, d)
         \/ Expires(c) \/ SpuriousWakeup(c)
  PROVE  Inv'
<1>a. /\ idle \in Nat /\ total \in Nat /\ in_use \in Nat /\ waiters \in Nat
      /\ max_connections \in Nat /\ Lent \in Nat
  BY SqlPoolAssumption, HeldType DEF TypeOK
<1>b. W \in Nat /\ K \in Nat /\ Z \in Nat
  BY CountType, Zenon DEF W, K, Z
<1> USE <1>a, <1>b
<1>1. CASE PoolExecute(c) \/ PoolQuery(c)
  <2>1. pc' = [pc EXCEPT ![c] = "enter"] /\ pc[c] = "idle"
    BY <1>1, Zenon DEF PoolExecute, PoolQuery, Begins, counters, Goto
  <2>2. Delta(c, "enter")
    BY <2>1, Moved, Zenon DEF Delta, States
  <2>3. Lent' = Lent
    BY <1>1, Zenon DEF PoolExecute, PoolQuery, Begins, counters, Lent, Begins, counters
  <2> QED BY <1>1, <2>1, <2>2, <2>3 DEF PoolExecute, PoolQuery, Begins, counters, Delta, Bit, Inv, Slack, Resting
<1>2. CASE FindsClosed(c) \/ FindsElapsed(c)
  <2>1. pc' = [pc EXCEPT ![c] = "idle"] /\ pc[c] \in {"enter", "woken"}
    BY <1>2, Zenon DEF FindsClosed, FindsElapsed, Enters, HasSlot, WaitersLeft, Pred, Goto
  <2>2. Delta(c, "idle")
    BY <2>1, Moved, Zenon DEF Delta, States
  <2>3. Lent' = Lent
    BY <1>2, Zenon DEF FindsClosed, FindsElapsed, Enters, HasSlot, WaitersLeft, Pred, Lent, Begins, counters
  <2> QED BY <1>2, <2>1, <2>2, <2>3 DEF FindsClosed, FindsElapsed, Enters, HasSlot, WaitersLeft, Pred, Delta, Bit, Inv, Slack, Resting
<1>3. CASE PopIdle(c)
  <2>1. pc' = [pc EXCEPT ![c] = "using"] /\ pc[c] \in {"enter", "woken"}
    BY <1>3, Zenon DEF PopIdle, Enters, WaitersLeft, Pred, Goto
  <2>2. Delta(c, "using")
    BY <2>1, Moved, Zenon DEF Delta, States
  <2>3. Lent' = Lent + 1
    <3>1. PICK s \in Slots : <<c, s>> \notin held /\ held' = held \cup {<<c, s>>}
      BY <1>3, Zenon DEF PopIdle, Enters, WaitersLeft, Pred, Lease
    <3> QED BY <3>1, Leased, Zenon
  <2> QED BY <1>3, <2>1, <2>2, <2>3 DEF PopIdle, Enters, WaitersLeft, Pred, Delta, Bit, Inv, Slack, Resting
<1>4. CASE OpenSlot(c)
  <2>1. pc' = [pc EXCEPT ![c] = "connect"] /\ pc[c] \in {"enter", "woken"}
    BY <1>4, Zenon DEF OpenSlot, Enters, HasSlot, WaitersLeft, Pred, Goto
  <2>2. Delta(c, "connect")
    BY <2>1, Moved, Zenon DEF Delta, States
  <2>3. Lent' = Lent
    BY <1>4, Zenon DEF OpenSlot, Enters, HasSlot, WaitersLeft, Pred, Lent, Begins, counters
  <2> QED BY <1>4, <2>1, <2>2, <2>3 DEF OpenSlot, Enters, HasSlot, WaitersLeft, Pred, Delta, Bit, Inv, Slack, Resting
<1>5. CASE Waits(c)
  <2>1. pc' = [pc EXCEPT ![c] = "waiting"] /\ pc[c] \in {"enter", "woken"}
    BY <1>5, Zenon DEF Waits, Enters, HasSlot, WaitersLeft, Pred, Goto
  <2>2. Delta(c, "waiting")
    BY <2>1, Moved, Zenon DEF Delta, States
  <2>3. Lent' = Lent
    BY <1>5, Zenon DEF Waits, Enters, HasSlot, WaitersLeft, Pred, Lent, Begins, counters
  <2> QED BY <1>5, <2>1, <2>2, <2>3 DEF Waits, Enters, HasSlot, WaitersLeft, Pred, Delta, Bit, Inv, Slack, Resting
<1>6. CASE GivesUp(c)
  <2>1. pc' = [pc EXCEPT ![c] = "idle"] /\ pc[c] = "expired"
    BY <1>6, Zenon DEF GivesUp, Pred, Goto
  <2>2. Delta(c, "idle")
    BY <2>1, Moved, Zenon DEF Delta, States
  <2>3. Lent' = Lent
    BY <1>6, Zenon DEF GivesUp, Pred, Lent, Begins, counters
  <2> QED BY <1>6, <2>1, <2>2, <2>3 DEF GivesUp, Pred, Delta, Bit, Inv, Slack, Resting
<1>7. CASE Connected(c)
  <2>1. pc' = [pc EXCEPT ![c] = "using"] /\ pc[c] = "connect"
    BY <1>7, Zenon DEF Connected, counters, Goto
  <2>2. Delta(c, "using")
    BY <2>1, Moved, Zenon DEF Delta, States
  <2>3. Lent' = Lent + 1
    <3>1. PICK s \in Slots : <<c, s>> \notin held /\ held' = held \cup {<<c, s>>}
      BY <1>7, Zenon DEF Connected, counters, Lease
    <3> QED BY <3>1, Leased, Zenon
  <2> QED BY <1>7, <2>1, <2>2, <2>3 DEF Connected, counters, Delta, Bit, Inv, Slack, Resting
<1>8. CASE QueryOpens(c)
  <2>1. pc' = [pc EXCEPT ![c] = "idle"] /\ pc[c] = "using"
    BY <1>8, Zenon DEF QueryOpens, counters, Goto
  <2>2. Delta(c, "idle")
    BY <2>1, Moved, Zenon DEF Delta, States
  <2>3. Lent' = Lent
    BY <1>8, Zenon DEF QueryOpens, counters, Lent, Begins, counters
  <2> QED BY <1>8, <2>1, <2>2, <2>3 DEF QueryOpens, counters, Delta, Bit, Inv, Slack, Resting
<1>9. CASE Expires(c)
  <2>1. pc' = [pc EXCEPT ![c] = "expired"] /\ pc[c] = "waiting"
    BY <1>9, Zenon DEF Expires, counters, Goto
  <2>2. Delta(c, "expired")
    BY <2>1, Moved, Zenon DEF Delta, States
  <2>3. Lent' = Lent
    BY <1>9, Zenon DEF Expires, counters, Lent, Begins, counters
  <2> QED BY <1>9, <2>1, <2>2, <2>3 DEF Expires, counters, Delta, Bit, Inv, Slack, Resting
<1>10. CASE SpuriousWakeup(c)
  <2>1. pc' = [pc EXCEPT ![c] = "woken"] /\ pc[c] = "waiting"
    BY <1>10, Zenon DEF SpuriousWakeup, counters, Goto
  <2>2. Delta(c, "woken")
    BY <2>1, Moved, Zenon DEF Delta, States
  <2>3. Lent' = Lent
    BY <1>10, Zenon DEF SpuriousWakeup, counters, Lent, Begins, counters
  <2> QED BY <1>10, <2>1, <2>2, <2>3 DEF SpuriousWakeup, counters, Delta, Bit, Inv, Slack, Resting
<1>11. CASE ConnectedTooLate(c)
  <2>1. pc[c] = "connect" /\ pc' = NotifyAll(c, "idle")
    BY <1>11, Zenon DEF ConnectedTooLate, ReturnSlot
  <2>2. /\ W' = W /\ K' = K - Bit(pc[c] = "connect") /\ (pc[c] = "connect" => K > 0)
        /\ At("waiting")' = {}
    BY <2>1, NotifiedAll, Zenon DEF Resting
  <2>3. Lent' = Lent
    BY <1>11, Zenon DEF ConnectedTooLate, ReturnSlot, Lent
  <2> QED BY <1>11, <2>1, <2>2, <2>3 DEF ConnectedTooLate, ReturnSlot, Pred, Bit, Inv, Slack
<1>12. CASE ConnectFails(c)
  <2>1. pc[c] = "connect" /\ pc' \in NotifyOne(c, "idle")
    BY <1>12, Zenon DEF ConnectFails, ReturnSlot
  <2>2. /\ W' = W /\ K' = K - Bit(pc[c] = "connect") /\ (pc[c] = "connect" => K > 0)
        /\ IF At("waiting") = {} THEN Z' = Z /\ At("waiting")' = {} ELSE Z' = Z + 1
    BY <2>1, NotifiedOne, Zenon DEF Resting
  <2>3. Lent' = Lent
    BY <1>12, Zenon DEF ConnectFails, ReturnSlot, Lent
  <2> QED BY <1>12, <2>1, <2>2, <2>3 DEF ConnectFails, ReturnSlot, Pred, Bit, Inv, Slack
<1>13. CASE StatementEnds(c) \/ QueryFails(c) \/ ResultSetEnds(c)
  <2>1. pc[c] \in {"using", "idle"} /\ pc' \in NotifyOne(c, "idle")
    BY <1>13, Zenon DEF StatementEnds, QueryFails, ResultSetEnds, Release
  <2>2. /\ W' = W /\ K' = K - Bit(pc[c] = "connect") /\ (pc[c] = "connect" => K > 0)
        /\ IF At("waiting") = {} THEN Z' = Z /\ At("waiting")' = {} ELSE Z' = Z + 1
    BY <2>1, NotifiedOne, Zenon DEF Resting
  <2>3. Lent' = Lent - 1 /\ Lent > 0
    <3>1. PICK s \in Slots : <<c, s>> \in held /\ held' = held \ {<<c, s>>}
      BY <1>13, Zenon DEF StatementEnds, QueryFails, ResultSetEnds, Release
    <3> QED BY <3>1, Unleased, Zenon
  <2> QED BY <1>13, <2>1, <2>2, <2>3, SMTT(20) DEF StatementEnds, QueryFails, ResultSetEnds, Release, Pred, Bit, Inv, Slack
<1>14. CASE Close(c) \/ (DropName(c) /\ names = {c})
  <2>1. pc[c] = "idle" /\ pc' = NotifyAll(c, "idle")
    BY <1>14, Zenon DEF Close, DropName, CloseState
  <2>2. /\ W' = W /\ K' = K - Bit(pc[c] = "connect") /\ (pc[c] = "connect" => K > 0)
        /\ At("waiting")' = {}
    BY <2>1, NotifiedAll, Zenon DEF Resting
  <2>3. Lent' = Lent
    BY <1>14, Zenon DEF Close, DropName, CloseState, Lent
  <2> QED BY <1>14, <2>1, <2>2, <2>3 DEF Close, DropName, CloseState, Pred, Bit, Inv, Slack
<1>15. CASE (DropName(c) /\ names # {c}) \/ \E d \in Clients : CopyName(c, d)
  <2>1. UNCHANGED <<idle, total, in_use, waiters, closed, pc, held>>
    BY <1>15, Zenon DEF DropName, CopyName, counters
  <2> QED BY <2>1, Zenon DEF Inv, W, K, Z, Lent, Slack, At, Count
<1> QED
  BY <1>1, <1>2, <1>3, <1>4, <1>5, <1>6, <1>7, <1>8, <1>9, <1>10, <1>11, <1>12, <1>13, <1>14, <1>15, Zenon
  DEF Continue, Acquire

LEMMA TypeStep ==
  ASSUME TypeOK, [Next]_vars
  PROVE  TypeOK'
<1>a. /\ idle \in Nat /\ total \in Nat /\ in_use \in Nat /\ waiters \in Nat
      /\ closed \in BOOLEAN /\ pc \in [Clients -> States]
      /\ want \in [Clients -> {"statement", "query"}] /\ held \subseteq Clients \X Slots
      /\ names \subseteq Clients /\ calls \in [Clients -> Nat] /\ spurious \in Nat
  BY Zenon DEF TypeOK
<1>1. CASE UNCHANGED vars
  BY <1>1, <1>a, Zenon DEF vars, counters, TypeOK
<1>2. ASSUME NEW c \in Clients,
             \/ PoolExecute(c) \/ PoolQuery(c) \/ Continue(c) \/ ResultSetEnds(c)
             \/ Close(c) \/ DropName(c) \/ \E d \in Clients : CopyName(c, d)
             \/ Expires(c) \/ SpuriousWakeup(c)
      PROVE  TypeOK'
  <2>1. CASE PoolExecute(c) \/ PoolQuery(c)
    BY <2>1, <1>a DEF PoolExecute, PoolQuery, Begins, Goto, counters, States, TypeOK
  <2>2. CASE FindsClosed(c) \/ FindsElapsed(c) \/ Waits(c)
    BY <2>2, <1>a DEF FindsClosed, FindsElapsed, Waits, WaitersLeft, Pred, Goto, States, TypeOK
  <2>3. CASE PopIdle(c)
    BY <2>3, <1>a DEF PopIdle, Lease, WaitersLeft, Pred, Goto, States, TypeOK
  <2>4. CASE OpenSlot(c)
    BY <2>4, <1>a DEF OpenSlot, WaitersLeft, Pred, Goto, States, TypeOK
  <2>5. CASE GivesUp(c) \/ Expires(c) \/ SpuriousWakeup(c)
    BY <2>5, <1>a DEF GivesUp, Expires, SpuriousWakeup, Pred, Goto, counters, States, TypeOK
  <2>6. CASE Connected(c)
    BY <2>6, <1>a DEF Connected, Lease, Goto, counters, States, TypeOK
  <2>11. CASE QueryOpens(c)
    BY <2>11, <1>a, Zenon DEF QueryOpens, Goto, counters, States, TypeOK
  <2>7. CASE ConnectedTooLate(c) \/ ConnectFails(c)
    <3>1. pc' \in [Clients -> States]
      BY <2>7, NotifiedAll, NotifiedOne, Zenon DEF ConnectedTooLate, ConnectFails, Resting
    <3> QED BY <2>7, <3>1, <1>a DEF ConnectedTooLate, ConnectFails, ReturnSlot, Pred, TypeOK
  <2>8. CASE StatementEnds(c) \/ QueryFails(c) \/ ResultSetEnds(c)
    <3>1. pc' \in [Clients -> States]
      BY <2>8, NotifiedOne, Zenon DEF StatementEnds, QueryFails, ResultSetEnds, Release, Resting
    <3>2. PICK retire \in BOOLEAN : Release(c, retire)
      BY <2>8, Zenon DEF StatementEnds, QueryFails, ResultSetEnds
    <3>3. /\ held' \subseteq held /\ in_use' \in Nat /\ total' \in Nat /\ idle' \in Nat
          /\ UNCHANGED <<waiters, closed, names, calls, want, spurious>>
      BY <3>2, <1>a DEF Release, Pred
    <3> QED BY <3>1, <3>3, <1>a, Zenon DEF TypeOK
  <2>9. CASE Close(c) \/ DropName(c)
    <3>1. pc' \in [Clients -> States]
      BY <2>9, <1>a, NotifiedAll, Zenon DEF Close, DropName, CloseState, Resting
    <3>2. CASE CloseState(c)
      <4>1. names' \subseteq Clients
        BY <2>9, <1>a, Zenon DEF Close, DropName
      <4>2. /\ closed' \in BOOLEAN /\ idle' \in Nat /\ total' \in Nat
            /\ UNCHANGED <<in_use, waiters, held, calls, want, spurious>>
        BY <3>2, <1>a, Zenon DEF CloseState
      <4> QED BY <3>1, <4>1, <4>2, <1>a, Zenon DEF TypeOK
    <3>3. CASE ~CloseState(c)
      BY <2>9, <3>3, <1>a, Zenon DEF Close, DropName, counters, TypeOK
    <3> QED BY <3>2, <3>3, Zenon
  <2>10. CASE \E d \in Clients : CopyName(c, d)
    BY <2>10, <1>a, Zenon DEF CopyName, counters, TypeOK
  <2> QED
    BY <1>2, <2>1, <2>2, <2>3, <2>4, <2>5, <2>6, <2>7, <2>8, <2>9, <2>10, <2>11, Zenon
    DEF Continue, Acquire
<1> QED BY <1>1, <1>2, Zenon DEF Next

IInv == TypeOK /\ Inv

LEMMA IInvInit ==
  ASSUME Init
  PROVE  IInv
<1>1. TypeOK
  BY Zenon DEF Init, TypeOK, States
<1>2. \A d \in Clients : pc[d] = "idle"
  BY Zenon DEF Init
<1>3. W = 0 /\ K = 0 /\ Z = 0
  <2>1. /\ {d \in Clients : pc[d] \in Resting} = {}
        /\ {d \in Clients : pc[d] \in {"connect"}} = {}
        /\ {d \in Clients : pc[d] \in {"woken"}} = {}
    BY <1>2, Zenon DEF Resting
  <2> QED BY <2>1, FS_EmptySet, Zenon DEF W, K, Z, Count
<1>4. Lent = 0
  BY FS_EmptySet, Zenon DEF Init, Lent
<1>5. At("waiting") = {}
  BY <1>2, Zenon DEF At
<1> QED BY <1>1, <1>3, <1>4, <1>5, SqlPoolAssumption DEF Init, IInv, Inv

LEMMA IInvStep ==
  ASSUME IInv, [Next]_vars
  PROVE  IInv'
<1>1. TypeOK /\ Inv
  BY Zenon DEF IInv
<1>2. TypeOK'
  BY <1>1, TypeStep, Zenon
<1>3. CASE UNCHANGED vars
  BY <1>1, <1>2, <1>3, Zenon DEF vars, counters, IInv, Inv, W, K, Z, Lent, Slack, At, Count
<1>4. CASE Next
  BY <1>1, <1>2, <1>4, InvStep, Zenon DEF Next, IInv
<1> QED BY <1>3, <1>4, Zenon

(* The inductive invariant holds in every reachable state. *)
THEOREM Invariance == Spec => []IInv
<1>1. Init => IInv
  BY IInvInit, Zenon
<1>2. IInv /\ [Next]_vars => IInv'
  BY IInvStep, Zenon
<1> QED BY <1>1, <1>2, PTL DEF Spec

(* Types, for any pool. *)
THEOREM TypeCorrect == Spec => []TypeOK
<1>1. IInv => TypeOK
  BY Zenon DEF IInv
<1> QED BY <1>1, Invariance, PTL

(* The counters of PoolInner are exact and stay within max_connections,     *)
(* however many threads acquire, fail to connect, release and close.        *)
THEOREM CountersExact == Spec => []Accounting
<1>1. IInv => Accounting
  BY InvMeans, Zenon DEF IInv
<1> QED BY <1>1, Invariance, PTL

(* A sleeping acquirer is never passed over: notify_one on release and on a *)
(* failed attempt wakes enough threads for everything there is to take.     *)
THEOREM WakeupsReach == Spec => []NoWakeupLost
<1>1. IInv => NoWakeupLost
  BY InvMeans, Zenon DEF IInv
<1> QED BY <1>1, Invariance, PTL

(* A closed pool holds no connection at rest and no sleeping thread. *)
THEOREM ClosedHoldsNothing == Spec => []ClosedIsEmpty
<1>1. IInv => ClosedIsEmpty
  BY InvMeans, Zenon DEF IInv
<1> QED BY <1>1, Invariance, PTL

(* close_pool_state is final: no step grants a lease after it. *)
THEOREM ClosedGrantsNothing == Spec => NoLeaseAfterClose
<1>1. [Next]_vars => [closed => closed' /\ held' \subseteq held]_vars
  <2> SUFFICES ASSUME Next, closed
               PROVE  closed' /\ held' \subseteq held
    BY Zenon
  <2>1. PICK c \in Clients :
          \/ PoolExecute(c) \/ PoolQuery(c) \/ Continue(c) \/ ResultSetEnds(c)
          \/ Close(c) \/ DropName(c) \/ (\E d \in Clients : CopyName(c, d))
          \/ Expires(c) \/ SpuriousWakeup(c)
    BY Zenon DEF Next
  <2>2. CASE Continue(c)
    BY <2>2, Zenon DEF Continue, Acquire, FindsClosed, PopIdle, OpenSlot, FindsElapsed, Waits,
       GivesUp, Connected, ConnectedTooLate, ConnectFails, ReturnSlot, StatementEnds,
       QueryFails, QueryOpens, Release, counters
  <2>3. CASE ~Continue(c)
    BY <2>1, <2>3, Zenon DEF PoolExecute, PoolQuery, Begins, ResultSetEnds, Release, Close,
       DropName, CloseState, CopyName, Expires, SpuriousWakeup, counters
  <2> QED BY <2>2, <2>3, Zenon
<1> QED BY <1>1, PTL DEF Spec, NoLeaseAfterClose

-----------------------------------------------------------------------------
(* Migrations.  Whoever has the lock row works on a history that it accepts, and what it has
   yet to do is always what it would compute anew from that history. *)

Missing(p, r, t, d) ==
  IF d = "up" THEN {v \in Defined(p) : BeyondCurrent(v, r) /\ v <= t}
              ELSE {v \in Applied(r) : v > t}
Remaining(p) == Missing(p, work.rows, target[p], way[p])

MigratorInv ==
  /\ MigratorTypeOK /\ SchemaFollowsRows /\ OneMigrates
  /\ \A p \in Migrators :
       /\ at[p] \in {"validate", "run"} => work.schema = work.rows
       /\ at[p] \in {"run", "record"} => Valid(p, work.rows) /\ left[p] = Remaining(p)
       /\ at[p] = "record" => \E v \in Versions :
            IsNext(p, v) /\ work.schema = [work.rows EXCEPT ![v] = Leaves(p, v)]

LEMMA DefinitionsType ==
  ASSUME NEW p \in Migrators
  PROVE  p \in Procs /\ \A v \in Versions : Definitions[p][v] \in Nat
<1>1. p \in Procs /\ Loads(Directories[p])
  BY Zenon DEF Migrators
<1>2. ASSUME NEW v \in Versions PROVE Definitions[p][v] \in Nat
  <2>1. PICK F : F = Directories[p]
    BY Zenon
  <2>2. Definitions[p][v] =
          IF FilesOf(F, v, "up") = {} THEN 0
          ELSE migration_checksum(FilesOf(F, v, "up"), FilesOf(F, v, "down"))
    BY <1>2, <2>1, Zenon DEF Definitions, load_file_migrations
  <2>3. CASE FilesOf(F, v, "up") = {}
    BY <2>2, <2>3
  <2>4. CASE FilesOf(F, v, "up") # {}
    <3>1. PICK f \in F : f.version = v
      BY <2>4, Zenon DEF FilesOf
    <3>2. PICK g \in F : FilesOf(F, v, "up") = {g}
      BY <1>1, <2>1, <3>1, Zenon DEF Loads
    <3>3. PICK h \in F : FilesOf(F, v, "down") = {h}
      BY <1>1, <2>1, <3>1, Zenon DEF Loads
    <3>4. (CHOOSE x \in {g} : TRUE) = g /\ (CHOOSE x \in {h} : TRUE) = h
      BY Zenon
    <3>5. g.sql \in Nat /\ h.sql \in Nat
      BY <1>1, <2>1, <3>2, <3>3, MigratorAssumption, Zenon
    <3>6. migration_checksum({g}, {h}) = 10 * g.sql + h.sql
      BY <3>4, Zenon DEF migration_checksum
    <3>7. 10 * g.sql + h.sql \in Nat
      BY <3>5
    <3> QED BY <2>2, <2>4, <3>2, <3>3, <3>6, <3>7, Zenon
  <2> QED BY <2>3, <2>4, Zenon
<1> QED BY <1>1, <1>2, Zenon

LEMMA VersionsOrdered ==
  ASSUME NEW v \in Versions, NEW w \in Versions
  PROVE  /\ v \in Nat /\ v <= LastVersion
         /\ v > w <=> ~(v <= w)
         /\ v >= w <=> ~(v < w)
         /\ v > w <=> w < v
         /\ v <= w /\ w <= v => v = w
         /\ v < w => v <= w /\ v # w
BY MigratorAssumption

(* The versions left are in a chain: one at most comes next. *)
LEMMA NextIsOne ==
  ASSUME MigratorTypeOK, NEW p \in Procs, NEW v \in Versions, NEW w \in Versions,
         IsNext(p, v), IsNext(p, w)
  PROVE  v = w
<1>1. \/ v <= w /\ w <= v
      \/ v >= w /\ w >= v
  BY Zenon DEF IsNext
<1> QED BY <1>1, MigratorAssumption

(* The rows r become q when the next version n of those left is recorded. *)
Recorded(p, n, r, t, d, L, q) ==
  /\ r \in [Versions -> Nat] /\ t \in Nat /\ d \in {"up", "down"} /\ Valid(p, r)
  /\ L = Missing(p, r, t, d) /\ n \in L /\ \A w \in L : IF d = "up" THEN n <= w ELSE n >= w
  /\ q = [r EXCEPT ![n] = IF d = "up" THEN Definitions[p][n] ELSE 0]

(* Going up or down by the next version leaves a history that p accepts, with the rest to do. *)
LEMMA RecordContinues ==
  ASSUME NEW p \in Migrators, NEW n \in Versions, NEW r, NEW t, NEW d, NEW L, NEW q,
         Recorded(p, n, r, t, d, L, q)
  PROVE  Valid(p, q) /\ L \ {n} = Missing(p, q, t, d)
<1>0. /\ r \in [Versions -> Nat] /\ t \in Nat /\ d \in {"up", "down"} /\ Valid(p, r)
      /\ L = Missing(p, r, t, d) /\ n \in L /\ \A w \in L : IF d = "up" THEN n <= w ELSE n >= w
      /\ q = [r EXCEPT ![n] = IF d = "up" THEN Definitions[p][n] ELSE 0]
  BY Zenon DEF Recorded
<1>1. \A v \in Versions : v # n => q[v] = r[v]
  BY <1>0, Zenon
<1>2. CASE d = "up"
  <2>1. /\ n \in Defined(p) /\ BeyondCurrent(n, r) /\ n <= t /\ q[n] = Definitions[p][n]
        /\ L = {v \in Defined(p) : BeyondCurrent(v, r) /\ v <= t} /\ \A w \in L : n <= w
    BY <1>0, <1>2, Zenon DEF Missing
  <2>2. Applied(q) = Applied(r) \cup {n}
    BY <1>0, <1>1, <2>1, Zenon DEF Applied, Defined
  <2>3. \A v \in Applied(q) : q[v] = Definitions[p][v]
    BY <1>0, <1>1, <2>1, <2>2, Zenon DEF Valid, Applied
  <2>4. ASSUME NEW v \in Versions PROVE BeyondCurrent(v, q) <=> BeyondCurrent(v, r) /\ v > n
    BY <2>2, Zenon DEF BeyondCurrent
  <2>5. ASSUME NEW v \in Defined(p) PROVE BeyondCurrent(v, q) \/ v \in Applied(q)
    <3>1. v \in Versions
      BY <2>5, Zenon DEF Defined
    <3>2. CASE BeyondCurrent(v, r) /\ v <= t
      <4>1. v = n \/ v > n
        BY <2>1, <2>5, <3>1, <3>2, VersionsOrdered, Zenon
      <4> QED BY <2>2, <2>4, <3>1, <3>2, <4>1, Zenon
    <3>3. CASE BeyondCurrent(v, r) /\ ~(v <= t)
      <4>1. v > n
        BY <1>0, <2>1, <3>1, <3>3, MigratorAssumption
      <4> QED BY <2>4, <3>1, <3>3, <4>1, Zenon
    <3>4. CASE v \in Applied(r)
      BY <2>2, <3>4, Zenon
    <3> QED BY <1>0, <2>5, <3>2, <3>3, <3>4, Zenon DEF Valid
  <2>6. \A v \in L : v \in Versions /\ (v # n => v > n)
    BY <2>1, VersionsOrdered, Zenon DEF Defined
  <2>7. L \ {n} = {v \in Defined(p) : BeyondCurrent(v, q) /\ v <= t}
    <3>1. ASSUME NEW v \in L, v # n PROVE v \in Defined(p) /\ BeyondCurrent(v, q) /\ v <= t
      BY <2>1, <2>4, <2>6, <3>1, Zenon
    <3>2. ASSUME NEW v \in Defined(p), BeyondCurrent(v, q), v <= t PROVE v \in L /\ v # n
      <4>1. v \in Versions
        BY <3>2, Zenon DEF Defined
      <4>2. BeyondCurrent(v, r) /\ v > n
        BY <2>4, <3>2, <4>1, Zenon
      <4>3. v # n
        BY <1>0, <4>1, <4>2, MigratorAssumption
      <4> QED BY <2>1, <3>2, <4>2, <4>3, Zenon
    <3> QED BY <3>1, <3>2, Zenon
  <2> QED BY <1>2, <2>3, <2>5, <2>7, Zenon DEF Valid, Missing
<1>3. CASE d = "down"
  <2>1. /\ n \in Applied(r) /\ n > t /\ q[n] = 0
        /\ L = {v \in Applied(r) : v > t} /\ \A w \in L : n >= w
    BY <1>0, <1>3, Zenon DEF Missing
  <2>2. Applied(q) = Applied(r) \ {n}
    BY <1>0, <1>1, <2>1, Zenon DEF Applied
  <2>3. \A v \in Applied(q) : q[v] = Definitions[p][v]
    BY <1>0, <1>1, <2>2, Zenon DEF Valid, Applied
  <2>4. \A v \in Applied(r) : v \in Versions /\ (v <= n)
    <3>1. ASSUME NEW v \in Applied(r) PROVE v \in Versions /\ v <= n
      <4>1. v \in Versions
        BY <3>1, Zenon DEF Applied
      <4>2. CASE v > t
        BY <1>0, <2>1, <3>1, <4>1, <4>2, MigratorAssumption
      <4>3. CASE ~(v > t)
        BY <1>0, <2>1, <4>1, <4>3, MigratorAssumption
      <4> QED BY <4>1, <4>2, <4>3, Zenon
    <3> QED BY <3>1, Zenon
  <2>5. ASSUME NEW v \in Defined(p) PROVE BeyondCurrent(v, q) \/ v \in Applied(q)
    <3>1. CASE v = n
      <4>1. \A w \in Applied(q) : w \in Versions /\ w <= n /\ w # n
        BY <2>2, <2>4, Zenon
      <4> QED BY <3>1, <4>1, VersionsOrdered, Zenon DEF BeyondCurrent
    <3>2. CASE v # n
      BY <1>0, <2>2, <2>5, <3>2, Zenon DEF Valid, BeyondCurrent
    <3> QED BY <3>1, <3>2, Zenon
  <2>6. L \ {n} = {v \in Applied(q) : v > t}
    BY <2>1, <2>2, Zenon
  <2> QED BY <1>3, <2>3, <2>5, <2>6, Zenon DEF Valid, Missing
<1> QED BY <1>0, <1>2, <1>3, Zenon

(* Nobody but the holder of the lock row touches what it works on. *)
OthersAsWere(p) ==
  \A q \in Procs \ {p} : at'[q] = at[q] /\ target'[q] = target[q] /\ way'[q] = way[q] /\ left'[q] = left[q]

PartInv(p) ==
  /\ at[p] \in {"validate", "run"} => work.schema = work.rows
  /\ at[p] \in {"run", "record"} => Valid(p, work.rows) /\ left[p] = Remaining(p)
  /\ at[p] = "record" => \E v \in Versions :
       IsNext(p, v) /\ work.schema = [work.rows EXCEPT ![v] = Leaves(p, v)]

LEMMA PartKept ==
  ASSUME NEW q \in Procs, PartInv(q), work' = work, at'[q] = at[q], target'[q] = target[q],
         way'[q] = way[q], left'[q] = left[q]
  PROVE  PartInv(q)'
BY Zenon DEF PartInv, Remaining, Missing, IsNext, Leaves, Valid, BeyondCurrent, Applied, Defined

(* A step of p that keeps the holder and its work, or ends p's hold, keeps the others' parts. *)
LEMMA OthersKept ==
  ASSUME MigratorInv, NEW p \in Migrators, OthersAsWere(p), PartInv(p)',
         \/ work' = work /\ rowLock' = rowLock
         \/ rowLock' = rowLock /\ rowLock = p
         \/ rowLock = NoProc /\ rowLock' = p
         \/ rowLock = p /\ rowLock' = NoProc,
         at'[p] \in {"validate", "run", "record", "rollback"} => rowLock' = p
  PROVE  OneMigrates' /\ \A q \in Migrators : PartInv(q)'
<1>0. p \in Procs /\ \A q \in Migrators : q \in Procs
  BY Zenon DEF Migrators
<1>1. ASSUME NEW q \in Procs, q # p, at'[q] \in {"validate", "run", "record", "rollback"}
      PROVE  rowLock = q /\ rowLock' = q /\ work' = work
  <2>1. rowLock = q /\ q # NoProc
    BY <1>1, MigratorAssumption, Zenon DEF MigratorInv, OneMigrates, OthersAsWere
  <2> QED BY <1>1, <2>1, Zenon
<1>2. OneMigrates'
  BY <1>1, Zenon DEF OneMigrates
<1>3. ASSUME NEW q \in Migrators, q # p PROVE PartInv(q)'
  <2>1. PartInv(q)
    BY <1>3, Zenon DEF MigratorInv, PartInv
  <2>2. CASE at'[q] \in {"validate", "run", "record", "rollback"}
    BY <1>0, <1>1, <1>3, <2>1, <2>2, PartKept, Zenon DEF OthersAsWere
  <2>3. CASE at'[q] \notin {"validate", "run", "record", "rollback"}
    BY <2>3, Zenon DEF PartInv
  <2> QED BY <2>2, <2>3, Zenon
<1> QED BY <1>2, <1>3, Zenon

LEMMA MigrationStart == MigratorInit => MigratorInv
<1> SUFFICES ASSUME MigratorInit PROVE MigratorInv
  BY Zenon
<1>1. Empty \in [Versions -> Nat] /\ Nothing \in [schema : [Versions -> Nat], rows : [Versions -> Nat]]
  BY DEF Empty, Nothing
<1>2. 0 \in 0..LastVersion
  BY MigratorAssumption
<1>3. MigratorTypeOK
  BY <1>1, <1>2, Zenon DEF MigratorInit, MigratorTypeOK
<1>4. \A p \in Procs : at[p] = "idle"
  BY Zenon DEF MigratorInit
<1>5. OneMigrates /\ \A p \in Migrators : PartInv(p)
  BY <1>4, Zenon DEF OneMigrates, PartInv, Migrators
<1> QED BY <1>3, <1>5, Zenon DEF MigratorInv, MigratorInit, SchemaFollowsRows, PartInv

(* What the type of the work is after one version was written. *)
LEMMA WrittenType ==
  ASSUME MigratorTypeOK, NEW p \in Migrators, NEW v \in Versions
  PROVE  /\ Leaves(p, v) \in Nat
         /\ [work.schema EXCEPT ![v] = Leaves(p, v)] \in [Versions -> Nat]
         /\ [work.rows EXCEPT ![v] = Leaves(p, v)] \in [Versions -> Nat]
<1>1. Definitions[p][v] \in Nat /\ 0 \in Nat
  BY DefinitionsType
<1>2. Leaves(p, v) \in Nat
  BY <1>1, Zenon DEF Leaves
<1>3. work.schema \in [Versions -> Nat] /\ work.rows \in [Versions -> Nat]
  BY DEF MigratorTypeOK
<1> QED BY <1>2, <1>3, Zenon

MigratorStep(p) ==
  \/ up(p) \/ migration_down_one(p)
  \/ \E t \in Versions \cup {0} : up_to(p, t) \/ down_to(p, t)
  \/ begin_migration_transaction(p) \/ \E begun \in BOOLEAN : BeginFails(p, begun)
  \/ ReadApplied(p) \/ RunSql(p) \/ Record(p) \/ SqlFails(p)
  \/ migration_commit_connection(p) \/ migration_rollback_connection(p) \/ CommitFails(p)
  \/ Disconnect(p)

LEMMA MigrationKeeps ==
  ASSUME MigratorInv, NEW p \in Migrators, MigratorStep(p)
  PROVE  MigratorInv'
<1>0. /\ MigratorTypeOK /\ schema = rows /\ OneMigrates /\ PartInv(p) /\ p \in Procs
      /\ \A v \in Versions : v \in 0..LastVersion
  <2>1. \A v \in Versions : v \in 0..LastVersion
    BY MigratorAssumption
  <2> QED BY <2>1, Zenon DEF MigratorInv, SchemaFollowsRows, PartInv, Migrators
<1>00. ASSUME MigratorTypeOK', schema' = rows', OneMigrates', \A q \in Migrators : PartInv(q)'
       PROVE  MigratorInv'
  BY <1>00, Zenon DEF MigratorInv, SchemaFollowsRows, PartInv
<1>1. ASSUME NEW t \in 0..LastVersion, migration_apply(p, t) PROVE MigratorInv'
  <2>1. MigratorTypeOK'
    BY <1>0, <1>1, Zenon DEF MigratorTypeOK, migration_apply, GoesTo
  <2>2. at'[p] = "begin" /\ OthersAsWere(p)
    BY <1>0, <1>1, Zenon DEF MigratorTypeOK, migration_apply, GoesTo, OthersAsWere
  <2>3. PartInv(p)'
    BY <2>2, Zenon DEF PartInv
  <2> QED BY <1>0, <1>00, <1>1, <2>1, <2>2, <2>3, OthersKept, Zenon DEF migration_apply
<1>2. CASE up(p)
  <2>1. LastVersion \in 0..LastVersion
    BY MigratorAssumption
  <2> QED BY <1>1, <1>2, <2>1, Zenon DEF up
<1>3. CASE migration_down_one(p) \/ \E t \in Versions \cup {0} : up_to(p, t) \/ down_to(p, t)
  <2>1. 0 \in 0..LastVersion
    BY MigratorAssumption
  <2> QED BY <1>0, <1>1, <1>3, <2>1, Zenon DEF migration_down_one, up_to, down_to, Defined
<1>4. CASE begin_migration_transaction(p)
  <2>1. work'.schema = schema /\ work'.rows = rows
    BY <1>4 DEF begin_migration_transaction
  <2>2. MigratorTypeOK'
    BY <1>0, <1>4 DEF MigratorTypeOK, begin_migration_transaction, GoesTo
  <2>3. at'[p] = "validate" /\ OthersAsWere(p)
    BY <1>0, <1>4, Zenon DEF MigratorTypeOK, begin_migration_transaction, GoesTo, OthersAsWere
  <2>4. PartInv(p)'
    BY <1>0, <2>1, <2>3, Zenon DEF PartInv
  <2> QED BY <1>0, <1>00, <1>4, <2>2, <2>3, <2>4, OthersKept, Zenon DEF begin_migration_transaction
<1>5. CASE \E begun \in BOOLEAN : BeginFails(p, begun)
  <2>1. MigratorTypeOK'
    BY <1>0, <1>5, Zenon DEF MigratorTypeOK, BeginFails, GoesTo
  <2>2. at'[p] = "idle" /\ OthersAsWere(p)
    BY <1>0, <1>5, Zenon DEF MigratorTypeOK, BeginFails, GoesTo, OthersAsWere
  <2>3. PartInv(p)'
    BY <2>2, Zenon DEF PartInv
  <2> QED BY <1>0, <1>00, <1>5, <2>1, <2>2, <2>3, OthersKept, Zenon DEF BeginFails
<1>6. CASE ReadApplied(p)
  <2>1. CASE ~Valid(p, work.rows)
    <3>1. MigratorTypeOK'
      BY <1>0, <1>6, <2>1, Zenon DEF MigratorTypeOK, ReadApplied, GoesTo
    <3>2. at'[p] = "rollback" /\ OthersAsWere(p) /\ rowLock = p
      BY <1>0, <1>6, <2>1, Zenon DEF MigratorTypeOK, ReadApplied, GoesTo, OthersAsWere, OneMigrates
    <3>3. PartInv(p)'
      BY <3>2, Zenon DEF PartInv
    <3> QED BY <1>0, <1>00, <1>6, <3>1, <3>2, <3>3, OthersKept, Zenon DEF ReadApplied
  <2>2. CASE Valid(p, work.rows)
    <3>1. /\ way'[p] = WayTo(target[p], work.rows) /\ left'[p] = VersionsTo(p, target[p], work.rows)
          /\ at'[p] = "run" /\ rowLock = p /\ OthersAsWere(p) /\ target' = target /\ work' = work
      BY <1>0, <1>6, <2>2, Zenon DEF MigratorTypeOK, ReadApplied, GoesTo, OthersAsWere, OneMigrates
    <3>2. WayTo(target[p], work.rows) \in {"up", "down"} /\ VersionsTo(p, target[p], work.rows) \subseteq Versions
      BY Zenon DEF WayTo, VersionsTo, Defined, Applied
    <3>3. MigratorTypeOK'
      <4>1. at' \in [Procs -> {"idle", "begin", "validate", "run", "record", "rollback"}]
        BY <1>0, <1>6, <2>2, Zenon DEF MigratorTypeOK, ReadApplied, GoesTo
      <4>2. way' \in [Procs -> {"up", "down"}]
        BY <1>0, <1>6, <2>2, <3>2, Zenon DEF MigratorTypeOK, ReadApplied
      <4>3. VersionsTo(p, target[p], work.rows) \in SUBSET Versions
        BY <3>2
      <4>4. left' \in [Procs -> SUBSET Versions]
        BY <1>0, <1>6, <2>2, <4>3, Zenon DEF MigratorTypeOK, ReadApplied
      <4> QED BY <1>0, <1>6, <4>1, <4>2, <4>4, Zenon DEF MigratorTypeOK, ReadApplied
    <3>4. work.schema = work.rows
      BY <1>0, <1>6, Zenon DEF PartInv, ReadApplied
    <3>5. Valid(p, work'.rows) /\ left'[p] = Remaining(p)'
      BY <2>2, <3>1, <3>2, Zenon DEF VersionsTo, Remaining, Missing, Defined, BeyondCurrent, Applied
    <3>6. PartInv(p)'
      BY <3>1, <3>4, <3>5, Zenon DEF PartInv, Valid, Defined, BeyondCurrent, Applied
    <3> QED BY <1>0, <1>00, <1>6, <3>1, <3>3, <3>6, OthersKept, Zenon DEF ReadApplied
  <2> QED BY <2>1, <2>2, Zenon
<1>7. CASE RunSql(p)
  <2>1. PICK v \in Versions : IsNext(p, v) /\ work' = [work EXCEPT !.schema[v] = Leaves(p, v)]
    BY <1>7, Zenon DEF RunSql
  <2>2. work'.rows = work.rows /\ work'.schema = [work.schema EXCEPT ![v] = Leaves(p, v)]
    BY <1>0, <2>1 DEF MigratorTypeOK
  <2>3. work' \in [schema : [Versions -> Nat], rows : [Versions -> Nat]]
    BY <1>0, <2>1, WrittenType DEF MigratorTypeOK
  <2>4. MigratorTypeOK'
    BY <1>0, <1>7, <2>3, Zenon DEF MigratorTypeOK, RunSql, GoesTo
  <2>5. at'[p] = "record" /\ OthersAsWere(p) /\ rowLock = p /\ UNCHANGED <<way, left, target, rowLock>>
    BY <1>0, <1>7, Zenon DEF MigratorTypeOK, RunSql, GoesTo, OthersAsWere, OneMigrates
  <2>6. work.schema = work.rows /\ Valid(p, work.rows) /\ left[p] = Remaining(p)
    BY <1>0, <1>7, Zenon DEF PartInv, RunSql
  <2>7. Valid(p, work'.rows) /\ left'[p] = Remaining(p)'
    BY <2>2, <2>5, <2>6, Zenon DEF Remaining, Missing, BeyondCurrent, Applied
  <2>8. IsNext(p, v)' /\ work'.schema = [work'.rows EXCEPT ![v] = Leaves(p, v)']
    BY <2>1, <2>2, <2>5, <2>6, Zenon DEF IsNext, Leaves
  <2>9. PartInv(p)'
    BY <2>5, <2>7, <2>8, Zenon DEF PartInv, Valid, Defined, BeyondCurrent, Applied
  <2> QED BY <1>0, <1>00, <1>7, <2>4, <2>5, <2>9, OthersKept, Zenon DEF RunSql
<1>8. CASE Record(p)
  <2>1. PICK v \in Versions : /\ IsNext(p, v) /\ work' = [work EXCEPT !.rows[v] = Leaves(p, v)]
                              /\ left' = [left EXCEPT ![p] = @ \ {v}]
    BY <1>8, Zenon DEF Record
  <2>2. work'.schema = work.schema /\ work'.rows = [work.rows EXCEPT ![v] = Leaves(p, v)]
    BY <1>0, <2>1 DEF MigratorTypeOK
  <2>3. work' \in [schema : [Versions -> Nat], rows : [Versions -> Nat]]
    BY <1>0, <2>1, WrittenType DEF MigratorTypeOK
  <2>4. MigratorTypeOK'
    BY <1>0, <1>8, <2>1, <2>3, Zenon DEF MigratorTypeOK, Record, GoesTo
  <2>5. /\ at'[p] = "run" /\ OthersAsWere(p) /\ rowLock = p /\ UNCHANGED <<way, target, rowLock>>
        /\ left'[p] = left[p] \ {v}
    BY <1>0, <1>8, <2>1, Zenon DEF MigratorTypeOK, Record, GoesTo, OthersAsWere, OneMigrates
  <2>6. work'.schema = work'.rows
    BY <1>0, <1>8, <2>1, <2>2, NextIsOne, Zenon DEF PartInv, Record
  <2>7. Valid(p, work.rows) /\ left[p] = Remaining(p)
    BY <1>0, <1>8, Zenon DEF PartInv, Record
  <2>8. Valid(p, work'.rows) /\ left'[p] = Remaining(p)'
    <3>1. work.rows \in [Versions -> Nat] /\ target[p] \in Nat /\ way[p] \in {"up", "down"}
      BY <1>0 DEF MigratorTypeOK
    <3>2. Recorded(p, v, work.rows, target[p], way[p], left[p], work'.rows)
      BY <2>1, <2>2, <2>7, <3>1, Zenon DEF Recorded, IsNext, Leaves, Remaining
    <3>3. Valid(p, work'.rows) /\ left[p] \ {v} = Missing(p, work'.rows, target[p], way[p])
      <4>1. PICK r, t, d, L, q : /\ r = work.rows /\ t = target[p] /\ d = way[p] /\ L = left[p]
                                 /\ q = work'.rows
        BY Zenon
      <4>2. Recorded(p, v, r, t, d, L, q)
        BY <3>2, <4>1, Zenon
      <4>3. Valid(p, q) /\ L \ {v} = Missing(p, q, t, d)
        BY <4>2, RecordContinues
      <4> QED BY <4>1, <4>3, Zenon
    <3> QED BY <2>5, <3>3, Zenon DEF Remaining, Missing, BeyondCurrent, Applied
  <2>9. PartInv(p)'
    BY <2>5, <2>6, <2>8, Zenon DEF PartInv, Valid, Defined, BeyondCurrent, Applied
  <2> QED BY <1>0, <1>00, <1>8, <2>4, <2>5, <2>9, OthersKept, Zenon DEF Record
<1>9. CASE SqlFails(p)
  <2>1. MigratorTypeOK'
    BY <1>0, <1>9, Zenon DEF MigratorTypeOK, SqlFails, GoesTo
  <2>2. at'[p] = "rollback" /\ OthersAsWere(p) /\ rowLock = p
    BY <1>0, <1>9, Zenon DEF MigratorTypeOK, SqlFails, Failing, GoesTo, OthersAsWere, OneMigrates
  <2>3. PartInv(p)'
    BY <2>2, Zenon DEF PartInv
  <2> QED BY <1>0, <1>00, <1>9, <2>1, <2>2, <2>3, OthersKept, Zenon DEF SqlFails
<1>10. ASSUME Ends(p), (rowLock' = NoProc /\ work' = Nothing) \/ UNCHANGED <<rowLock, work>>,
              schema' \in [Versions -> Nat], rows' \in [Versions -> Nat]
       PROVE  MigratorTypeOK' /\ OthersAsWere(p) /\ at'[p] = "idle" /\ PartInv(p)'
  <2>1. Nothing \in [schema : [Versions -> Nat], rows : [Versions -> Nat]] /\ 0 \in 0..LastVersion
    BY MigratorAssumption DEF Nothing, Empty
  <2>2. MigratorTypeOK'
    BY <1>0, <1>10, <2>1, Zenon DEF MigratorTypeOK, Ends, GoesTo
  <2>3. OthersAsWere(p) /\ at'[p] = "idle"
    BY <1>0, <1>10, Zenon DEF MigratorTypeOK, Ends, GoesTo, OthersAsWere
  <2> QED BY <2>2, <2>3, Zenon DEF PartInv
<1>11. CASE migration_commit_connection(p)
  <2>1. work.schema = work.rows /\ work.rows \in [Versions -> Nat] /\ rowLock = p
    <3>1. work.rows \in [Versions -> Nat]
      BY <1>0 DEF MigratorTypeOK
    <3> QED BY <1>0, <1>11, <3>1, Zenon DEF PartInv, OneMigrates, migration_commit_connection
  <2> QED BY <1>0, <1>00, <1>10, <1>11, <2>1, OthersKept, Zenon DEF migration_commit_connection
<1>12. CASE migration_rollback_connection(p)
  BY <1>0, <1>00, <1>10, <1>12, OthersKept, Zenon DEF migration_rollback_connection, OneMigrates, MigratorTypeOK
<1>13. CASE CommitFails(p)
  <2>1. MigratorTypeOK'
    BY <1>0, <1>13, Zenon DEF MigratorTypeOK, CommitFails, GoesTo
  <2>2. at'[p] = "idle" /\ OthersAsWere(p)
    BY <1>0, <1>13, Zenon DEF MigratorTypeOK, CommitFails, GoesTo, OthersAsWere
  <2>3. PartInv(p)'
    BY <2>2, Zenon DEF PartInv
  <2> QED BY <1>0, <1>00, <1>13, <2>1, <2>2, <2>3, OthersKept, Zenon DEF CommitFails
<1>14. CASE Disconnect(p)
  <2>1. \/ rowLock = p /\ rowLock' = NoProc /\ work' = Nothing
        \/ UNCHANGED <<rowLock, work>>
    BY <1>14, Zenon DEF Disconnect
  <2>2. Ends(p) /\ UNCHANGED <<schema, rows>>
    BY <1>14, Zenon DEF Disconnect
  <2>3. MigratorTypeOK' /\ OthersAsWere(p) /\ at'[p] = "idle" /\ PartInv(p)'
    BY <1>0, <1>10, <2>1, <2>2, Zenon DEF MigratorTypeOK
  <2> QED BY <1>0, <1>00, <2>1, <2>2, <2>3, OthersKept, Zenon
<1> QED BY <1>2, <1>3, <1>4, <1>5, <1>6, <1>7, <1>8, <1>9, <1>11, <1>12, <1>13, <1>14, Zenon DEF MigratorStep

\* Whatever processes migrate and wherever one stops, the work of the holder of the lock row is
\* a history it accepts, its schema is what its rows say, and what is left is what is missing.
THEOREM MigratorInductive == MigratorSpec => []MigratorInv
<1>1. MigratorInv /\ [MigratorNext]_migratorVars => MigratorInv'
  <2> SUFFICES ASSUME MigratorInv, [MigratorNext]_migratorVars PROVE MigratorInv'
    BY Zenon
  <2>1. CASE MigratorNext
    BY <2>1, MigrationKeeps, Zenon DEF MigratorNext, MigratorStep
  <2>2. CASE UNCHANGED migratorVars
    <3>1. (MigratorTypeOK /\ SchemaFollowsRows /\ OneMigrates)'
      BY <2>2, Zenon DEF migratorVars, MigratorInv, MigratorTypeOK, SchemaFollowsRows, OneMigrates
    <3>2. \A q \in Migrators : PartInv(q)'
      BY <2>2, PartKept, Zenon DEF migratorVars, MigratorInv, PartInv, Migrators
    <3> QED BY <3>1, <3>2, Zenon DEF MigratorInv, PartInv
  <2> QED BY <2>1, <2>2, Zenon
<1> QED BY <1>1, MigrationStart, PTL DEF MigratorSpec

LEMMA MigratorInvGives == MigratorInv => MigrationsSound
<1> SUFFICES ASSUME MigratorInv PROVE MigrationsSound
  BY Zenon
<1>1. MigratorTypeOK /\ SchemaFollowsRows /\ OneMigrates /\ CommitsValid
  BY Zenon DEF MigratorInv, CommitsValid
<1>2. ASSUME NEW p \in Migrators, at[p] = "run", NEW n \in left[p], IsNext(p, n)
      PROVE  IF way[p] = "up"
             THEN \A v \in Defined(p) : v < n => work.rows[v] = Definitions[p][v]
             ELSE /\ work.rows[n] = Definitions[p][n]
                  /\ \A v \in Versions : v > n => work.rows[v] = 0
  <2>1. Valid(p, work.rows) /\ left[p] = Remaining(p) /\ p \in Procs
    BY <1>2, Zenon DEF MigratorInv, Migrators
  <2>2. n \in Versions /\ target[p] \in Nat
    <3>1. target[p] \in Nat
      BY <1>1, <2>1, MigratorAssumption DEF MigratorTypeOK
    <3> QED BY <1>1, <1>2, <2>1, <3>1, Zenon DEF MigratorTypeOK
  <2>3. CASE way[p] = "up"
    <3>1. ASSUME NEW v \in Defined(p), v < n PROVE work.rows[v] = Definitions[p][v]
      <4>1. v \in Versions /\ ~(n <= v) /\ (n <= target[p] => v <= target[p])
        <5>1. v \in Versions
          BY <3>1, Zenon DEF Defined
        <5> QED BY <2>2, <3>1, <5>1, MigratorAssumption
      <4>2. v \notin left[p] /\ n <= target[p]
        BY <1>2, <2>1, <2>3, <4>1, Zenon DEF IsNext, Remaining, Missing
      <4>3. ~ BeyondCurrent(v, work.rows)
        BY <2>1, <2>3, <3>1, <4>1, <4>2, Zenon DEF Remaining, Missing
      <4> QED BY <2>1, <3>1, <4>3, Zenon DEF Valid
    <3> QED BY <2>3, <3>1, Zenon
  <2>4. CASE way[p] # "up"
    <3>1. n \in Applied(work.rows) /\ n > target[p]
      BY <1>2, <2>1, <2>4, Zenon DEF Remaining, Missing
    <3>2. ASSUME NEW v \in Versions, v > n PROVE work.rows[v] = 0
      <4>1. ~(n >= v) /\ v > target[p]
        BY <2>2, <3>1, <3>2, MigratorAssumption
      <4>2. v \notin left[p]
        BY <1>2, <2>4, <4>1, Zenon DEF IsNext
      <4> QED BY <2>1, <2>4, <3>2, <4>1, <4>2, Zenon DEF Remaining, Missing, Applied
    <3> QED BY <2>1, <2>4, <3>1, <3>2, Zenon DEF Valid
  <2> QED BY <2>3, <2>4, Zenon
<1> QED BY <1>1, <1>2, Zenon DEF MigrationsSound, MigrationsInOrder

\* validate_applied_migrations, migrate_to and the lock row: for any set of processes, versions
\* and migration directories, the metadata table records exactly what was run, each version
\* follows the ones below it, and no process commits a history it would refuse to read.
THEOREM MigrationsAreSound == MigratorSpec => []MigrationsSound
BY MigratorInductive, MigratorInvGives, PTL

-----------------------------------------------------------------------------
(***************************************************************************)
(* The process pool, for any number of workers, submitters and any queue   *)
(* capacity.  A command that was not accepted yet is known to its          *)
(* submitter alone.  One that was is in one place: a queue holds it once,  *)
(* and one worker runs it.  Whoever closes its channel has just taken it   *)
(* out of that place.                                                      *)
(***************************************************************************)

Once(q) == \A i, j \in DOMAIN q : q[i] = q[j] => i = j
OneRuns == \A w, v \in Workers : cur[w] = cur[v] /\ cur[w] # Nobody => w = v
Untouched(c) == c \notin Queued /\ c \notin Running /\ c \notin own /\ c \notin sent /\ c \notin shut
RefsOf(c) ==
  (IF c \in Running THEN 1 ELSE 0) + (IF c \in Queued THEN 1 ELSE 0) + (IF c \in own THEN 1 ELSE 0)

CommandInv(c) ==
  /\ ~Accepted(c) => Untouched(c) /\ (stage[c] # "new" => refs[c] = 2)
  /\ Accepted(c) => (c \in shut <=> c \notin Queued /\ c \notin Running) /\ refs[c] = RefsOf(c)
  /\ c \in sent => c \in shut
  /\ ~(c \in Queued /\ c \in Running)

QueueInv == queue \in Seq(Submitters) /\ Once(queue)
RunInv ==
  /\ cur \in [Workers -> Submitters \cup {Nobody}] /\ OneRuns
  /\ \A w \in Workers : stage[w] = "run" <=> cur[w] # Nobody
ExitInv ==
  /\ \A w \in Workers : stage[w] = "exited" => pool_closed
  /\ queue # <<>> => \E w \in Workers : stage[w] # "exited"
Shape == DOMAIN stage = Workers \cup Submitters /\ DOMAIN refs = Submitters

PoolInv == Shape /\ QueueInv /\ RunInv /\ ExitInv /\ \A c \in Submitters : CommandInv(c)

(* The queue and the workers' hands as sets. *)
LEMMA PopQueue ==
  ASSUME QueueInv, queue # <<>>, queue' = Tail(queue)
  PROVE  QueueInv' /\ Head(queue) \in Queued /\ Queued' = Queued \ {Head(queue)}
<1>1. Len(queue) \in Nat \ {0} /\ DOMAIN queue = 1..Len(queue) /\ Head(queue) = queue[1]
  BY SMT DEF QueueInv
<1>2. queue' \in Seq(Submitters) /\ DOMAIN queue' = 1..(Len(queue) - 1)
      /\ \A i \in 1..(Len(queue) - 1) : queue'[i] = queue[i + 1]
  BY <1>1, SMT DEF QueueInv
<1>3. Once(queue)'
  <2> SUFFICES ASSUME NEW i \in DOMAIN queue', NEW j \in DOMAIN queue', queue'[i] = queue'[j] PROVE i = j
    BY Zenon DEF Once
  <2>1. i + 1 \in DOMAIN queue /\ j + 1 \in DOMAIN queue /\ queue[i + 1] = queue[j + 1]
    BY <1>1, <1>2, SMT
  <2>2. i + 1 = j + 1
    BY <2>1, Zenon DEF QueueInv, Once
  <2> QED BY <1>1, <1>2, <2>2, SMT
<1>4. 1 \in DOMAIN queue
  BY <1>1, SMT
<1>5. ASSUME NEW x \in Queued' PROVE x \in Queued /\ x # Head(queue)
  <2>1. PICK i \in DOMAIN queue' : x = queue'[i]
    BY Zenon DEF Queued
  <2>2. i + 1 \in DOMAIN queue /\ x = queue[i + 1] /\ i + 1 # 1
    BY <1>1, <1>2, <2>1, SMT
  <2> QED BY <1>1, <1>4, <2>2, Zenon DEF Queued, QueueInv, Once
<1>6. ASSUME NEW x \in Queued, x # Head(queue) PROVE x \in Queued'
  <2>1. PICK i \in DOMAIN queue : x = queue[i]
    BY Zenon DEF Queued
  <2>2. i # 1
    BY <1>1, <1>6, <2>1, Zenon
  <2>3. i - 1 \in DOMAIN queue' /\ x = queue'[i - 1]
    BY <1>1, <1>2, <2>1, <2>2, SMT
  <2> QED BY <2>3, Zenon DEF Queued
<1>7. Head(queue) \in Queued
  BY <1>1, <1>4, Zenon DEF Queued
<1>8. Queued' = Queued \ {Head(queue)}
  BY <1>5, <1>6, Zenon
<1> QED BY <1>2, <1>3, <1>7, <1>8, Zenon DEF QueueInv

LEMMA PushQueue ==
  ASSUME QueueInv, NEW c \in Submitters, c \notin Queued, queue' = Append(queue, c)
  PROVE  QueueInv' /\ Queued' = Queued \cup {c}
<1>1. Len(queue) \in Nat /\ DOMAIN queue = 1..Len(queue)
  BY SMT DEF QueueInv
<1> DEFINE n == Len(queue) + 1
<1>2. queue' \in Seq(Submitters) /\ DOMAIN queue' = 1..n /\ queue'[n] = c
      /\ \A i \in 1..Len(queue) : queue'[i] = queue[i]
  BY <1>1, SMT DEF QueueInv
<1>3. DOMAIN queue' = DOMAIN queue \cup {n} /\ n \notin DOMAIN queue
  BY <1>1, <1>2, SMT
<1> HIDE DEF n
<1>4. \A i \in DOMAIN queue : queue'[i] = queue[i] /\ queue'[i] # c
  BY <1>1, <1>2, Zenon DEF Queued
<1>5. Once(queue)'
  <2> SUFFICES ASSUME NEW i \in DOMAIN queue', NEW j \in DOMAIN queue', queue'[i] = queue'[j] PROVE i = j
    BY Zenon DEF Once
  <2>1. CASE i = n
    BY <1>2, <1>3, <1>4, <2>1, Zenon
  <2>2. CASE j = n
    BY <1>2, <1>3, <1>4, <2>2, Zenon
  <2>3. CASE i # n /\ j # n
    BY <1>3, <1>4, <2>3, Zenon DEF QueueInv, Once
  <2> QED BY <2>1, <2>2, <2>3, Zenon
<1>6. Queued' = Queued \cup {c}
  <2>1. ASSUME NEW x \in Queued' PROVE x \in Queued \cup {c}
    <3>1. PICK i \in DOMAIN queue' : x = queue'[i]
      BY Zenon DEF Queued
    <3>2. CASE i = n
      BY <1>2, <3>1, <3>2, Zenon
    <3>3. CASE i \in DOMAIN queue
      BY <1>4, <3>1, <3>3, Zenon DEF Queued
    <3> QED BY <1>3, <3>1, <3>2, <3>3, Zenon
  <2>2. ASSUME NEW x \in Queued PROVE x \in Queued'
    BY <1>3, <1>4, Zenon DEF Queued
  <2>3. c \in Queued'
    BY <1>2, <1>3, Zenon DEF Queued
  <2> QED BY <2>1, <2>2, <2>3, Zenon
<1> QED BY <1>2, <1>5, <1>6, Zenon DEF QueueInv

LEMMA TakesUp ==
  ASSUME RunInv, NEW w \in Workers, NEW c \in Submitters, c \notin Running, cur[w] = Nobody,
         cur' = [cur EXCEPT ![w] = c]
  PROVE  /\ cur' \in [Workers -> Submitters \cup {Nobody}] /\ OneRuns'
         /\ Running' = Running \cup {c} /\ cur'[w] = c
<1>1. cur' \in [Workers -> Submitters \cup {Nobody}] /\ cur'[w] = c
      /\ \A v \in Workers \ {w} : cur'[v] = cur[v]
  BY Zenon DEF RunInv
<1>2. c # Nobody /\ \A v \in Workers : cur[v] # c
  BY ProcessPoolAssumption, Zenon DEF Running
<1>3. OneRuns'
  BY <1>1, <1>2, Zenon DEF RunInv, OneRuns
<1>4. Running' = Running \cup {c}
  BY <1>1, <1>2, Zenon DEF Running
<1> QED BY <1>1, <1>3, <1>4, Zenon

LEMMA LaysDown ==
  ASSUME RunInv, NEW w \in Workers, cur[w] # Nobody, cur' = [cur EXCEPT ![w] = Nobody]
  PROVE  /\ cur' \in [Workers -> Submitters \cup {Nobody}] /\ OneRuns'
         /\ Running' = Running \ {cur[w]} /\ cur[w] \in Running /\ cur'[w] = Nobody
<1>1. cur' \in [Workers -> Submitters \cup {Nobody}] /\ cur'[w] = Nobody
      /\ \A v \in Workers \ {w} : cur'[v] = cur[v]
  BY Zenon DEF RunInv
<1>2. \A v \in Workers \ {w} : cur[v] # cur[w]
  BY Zenon DEF RunInv, OneRuns
<1>3. OneRuns'
  BY <1>1, Zenon DEF RunInv, OneRuns
<1>4. Running' = Running \ {cur[w]}
  <2>1. ASSUME NEW x \in Running' PROVE x \in Running \ {cur[w]}
    BY <1>1, <1>2, Zenon DEF Running
  <2>2. ASSUME NEW x \in Running \ {cur[w]} PROVE x \in Running'
    BY <1>1, Zenon DEF Running
  <2> QED BY <2>1, <2>2, Zenon
<1>5. cur[w] \in Running
  BY Zenon DEF Running
<1> QED BY <1>1, <1>3, <1>4, <1>5, Zenon

(* What a step does to a command is what it does to its phase, its references and its places. *)
SameAt(c) ==
  /\ Accepted(c)' = Accepted(c) /\ (stage'[c] = "new" <=> stage[c] = "new") /\ refs'[c] = refs[c]
  /\ (c \in Queued' <=> c \in Queued) /\ (c \in Running' <=> c \in Running)
  /\ (c \in own' <=> c \in own) /\ (c \in sent' <=> c \in sent) /\ (c \in shut' <=> c \in shut)

LEMMA CommandSame ==
  ASSUME NEW c, CommandInv(c), SameAt(c)
  PROVE  CommandInv(c)'
<1>1. RefsOf(c)' = RefsOf(c)
  BY SMT DEF SameAt, RefsOf
<1> QED BY <1>1, Zenon DEF SameAt, CommandInv, Untouched

(* A command that is accepted, in one place or settled. *)
LEMMA CommandPlaced ==
  ASSUME NEW c, Accepted(c)', refs'[c] = RefsOf(c)', c \in sent' => c \in shut',
         c \in shut' <=> c \notin Queued' /\ c \notin Running', ~(c \in Queued' /\ c \in Running')
  PROVE  CommandInv(c)'
BY Zenon DEF CommandInv

(* No worker leaves, and the queue does not become longer. *)
LEMMA ExitSame ==
  ASSUME ExitInv, pool_closed => pool_closed', queue' # <<>> => queue # <<>>,
         \A w \in Workers : stage'[w] = "exited" => stage[w] = "exited"
  PROVE  ExitInv'
BY Zenon DEF ExitInv

(* Steps that leave the queue, the commands and their channels alone. *)
LEMMA Elsewhere ==
  ASSUME PoolInv, UNCHANGED <<queue, cur, chans, own>>, DOMAIN stage' = DOMAIN stage, ExitInv',
         \A c \in Submitters : Accepted(c)' = Accepted(c) /\ (stage'[c] = "new" <=> stage[c] = "new"),
         \A w \in Workers : stage'[w] = "run" <=> stage[w] = "run"
  PROVE  PoolInv'
<1>1. Queued' = Queued /\ Running' = Running /\ refs' = refs /\ sent' = sent /\ shut' = shut /\ own' = own
  BY Zenon DEF Queued, Running, chans
<1>2. ASSUME NEW c \in Submitters PROVE CommandInv(c)'
  <2>1. SameAt(c)
    BY <1>1, Zenon DEF SameAt
  <2> QED BY <2>1, CommandSame, Zenon DEF PoolInv
<1>3. QueueInv' /\ RunInv' /\ Shape'
  BY <1>1, Zenon DEF PoolInv, QueueInv, RunInv, OneRuns, Shape
<1> QED BY <1>2, <1>3, Zenon DEF PoolInv

(* One thread moves: everybody else's position is as it was. *)
LEMMA GotoOthers ==
  ASSUME Shape, NEW x \in Workers \cup Submitters, NEW l, Becomes(x, l)
  PROVE  /\ DOMAIN stage' = DOMAIN stage /\ stage'[x] = l
         /\ \A y \in (Workers \cup Submitters) \ {x} : stage'[y] = stage[y]
BY Zenon DEF Becomes, Shape

LEMMA WorkerElsewhere ==
  ASSUME PoolInv, NEW w \in Workers, NEW l \in {"doze", "asleep", "exited"}, Becomes(w, l),
         UNCHANGED <<queue, cur, chans, own>>, stage[w] # "run", ExitInv'
  PROVE  PoolInv'
<1>1. DOMAIN stage' = DOMAIN stage /\ stage'[w] = l /\ \A y \in (Workers \cup Submitters) \ {w} : stage'[y] = stage[y]
  BY GotoOthers, Zenon DEF PoolInv
<1>2. \A c \in Submitters : stage'[c] = stage[c]
  BY <1>1, ProcessPoolAssumption, Zenon
<1>3. \A c \in Submitters : Accepted(c)' = Accepted(c) /\ (stage'[c] = "new" <=> stage[c] = "new")
  BY <1>2, Zenon DEF Accepted
<1>4. \A v \in Workers : stage'[v] = "run" <=> stage[v] = "run"
  BY <1>1, Zenon
<1> QED BY <1>1, <1>3, <1>4, Elsewhere, Zenon

LEMMA ExitKeeps ==
  ASSUME PoolInv, NEW w \in Workers, WorkerExit(w)
  PROVE  PoolInv'
<1>1. queue = <<>> /\ queue' = <<>> /\ pool_closed'
  BY Zenon DEF WorkerExit
<1>2. ExitInv'
  BY <1>1, Zenon DEF ExitInv
<1>3. stage[w] # "run" /\ Becomes(w, "exited") /\ UNCHANGED <<queue, cur, chans, own>>
  BY Zenon DEF WorkerExit, WorkerReady
<1> QED BY <1>2, <1>3, WorkerElsewhere, Zenon

LEMMA SleepKeeps ==
  ASSUME PoolInv, NEW w \in Workers, WorkerFindsOpen(w) \/ WorkerSleep(w)
  PROVE  PoolInv'
<1>1. PICK l \in {"doze", "asleep"} : Becomes(w, l)
  BY Zenon DEF WorkerFindsOpen, WorkerSleep
<1>2. UNCHANGED <<queue, pool_closed, cur, chans, own>> /\ stage[w] # "run"
  BY Zenon DEF WorkerFindsOpen, WorkerSleep, WorkerReady
<1>3. \A v \in Workers : stage'[v] = "exited" => stage[v] = "exited"
  BY <1>1, GotoOthers, Zenon DEF PoolInv
<1>4. ExitInv'
  BY <1>2, <1>3, ExitSame, Zenon DEF PoolInv
<1> QED BY <1>1, <1>2, <1>4, WorkerElsewhere, Zenon

LEMMA ClientElsewhere ==
  ASSUME PoolInv, NEW c \in Submitters, NEW l \in {"idle", "notify", "join", "drain", "gone"},
         Becomes(c, l), Accepted(c), UNCHANGED <<queue, cur, chans, own>>, pool_closed => pool_closed'
  PROVE  PoolInv'
<1>1. DOMAIN stage' = DOMAIN stage /\ stage'[c] = l /\ \A y \in (Workers \cup Submitters) \ {c} : stage'[y] = stage[y]
  BY GotoOthers, Zenon DEF PoolInv
<1>2. \A w \in Workers : stage'[w] = stage[w]
  BY <1>1, ProcessPoolAssumption, Zenon
<1>3. ASSUME NEW d \in Submitters
      PROVE  Accepted(d)' = Accepted(d) /\ (stage'[d] = "new" <=> stage[d] = "new")
  <2>1. CASE d = c
    BY <1>1, <2>1, Zenon DEF Accepted
  <2>2. CASE d # c
    BY <1>1, <2>2, Zenon DEF Accepted
  <2> QED BY <2>1, <2>2, Zenon
<1>4. ExitInv'
  BY <1>2, ExitSame, Zenon DEF PoolInv
<1> QED BY <1>1, <1>2, <1>3, <1>4, Elsewhere, Zenon

LEMMA WaitKeeps ==
  ASSUME PoolInv, NEW c \in Submitters, OfferWaits(c) \/ Expire(c)
  PROVE  PoolInv'
<1>1. UNCHANGED <<queue, pool_closed, cur, chans, own, stage>>
  BY Zenon DEF OfferWaits, Expire
<1>2. ExitInv'
  BY <1>1, ExitSame, Zenon DEF PoolInv
<1>3. \A d \in Submitters : Accepted(d)' = Accepted(d) /\ (stage'[d] = "new" <=> stage[d] = "new")
  BY <1>1, Zenon DEF Accepted
<1> QED BY <1>1, <1>2, <1>3, Elsewhere, Zenon

LEMMA CloseKeeps ==
  ASSUME PoolInv, NEW c \in Submitters,
         ClosePool(c) \/ DropPool(c) \/ NotifyWorkers(c) \/ Joined(c)
  PROVE  PoolInv'
<1>1. Accepted(c)
  BY Zenon DEF ClosePool, DropPool, NotifyWorkers, Joined, Accepted
<1>2. UNCHANGED <<queue, cur, chans, own>>
  BY Zenon DEF ClosePool, DropPool, NotifyWorkers, Joined
<1>3. pool_closed => pool_closed'
  BY Zenon DEF ClosePool, DropPool, NotifyWorkers, Joined
<1>4. \E l \in {"idle", "notify", "join", "drain", "gone"} : Becomes(c, l)
  BY Zenon DEF ClosePool, DropPool, NotifyWorkers, Joined
<1> QED BY <1>1, <1>2, <1>3, <1>4, ClientElsewhere, Zenon

(* A command that a queue or a worker holds has been accepted, and the other does not hold it. *)
LEMMA PlacedIsAccepted ==
  ASSUME PoolInv, NEW c \in Submitters, c \in Queued \/ c \in Running \/ c \in own
  PROVE  Accepted(c) /\ (c \in Queued => c \notin Running)
BY Zenon DEF PoolInv, CommandInv, Untouched

LEMMA PopKeeps ==
  ASSUME PoolInv, NEW w \in Workers, WorkerPop(w)
  PROVE  PoolInv'
<1>1. PICK h : h = Head(queue)
  BY Zenon
<1>2. QueueInv' /\ h \in Queued /\ Queued' = Queued \ {h}
  BY <1>1, PopQueue, Zenon DEF PoolInv, WorkerPop
<1>3. h \in Submitters
  BY <1>2, SMT DEF PoolInv, QueueInv, Queued
<1>4. Accepted(h) /\ h \notin Running
  BY <1>2, <1>3, PlacedIsAccepted, Zenon
<1>5. stage[w] # "run" /\ stage[w] # "exited" /\ cur[w] = Nobody
  BY Zenon DEF PoolInv, RunInv, WorkerPop, WorkerReady
<1>6. /\ cur' \in [Workers -> Submitters \cup {Nobody}] /\ OneRuns'
      /\ Running' = Running \cup {h} /\ cur'[w] = h /\ \A v \in Workers \ {w} : cur'[v] = cur[v]
  <2>1. cur' = [cur EXCEPT ![w] = h]
    BY <1>1, Zenon DEF WorkerPop
  <2>2. \A v \in Workers \ {w} : cur'[v] = cur[v]
    BY <2>1, Zenon DEF PoolInv, RunInv
  <2> QED BY <1>3, <1>4, <1>5, <2>1, <2>2, TakesUp, Zenon DEF PoolInv
<1>7. DOMAIN stage' = DOMAIN stage /\ stage'[w] = "run" /\ \A y \in (Workers \cup Submitters) \ {w} : stage'[y] = stage[y]
  BY GotoOthers, Zenon DEF PoolInv, WorkerPop
<1>8. UNCHANGED <<pool_closed, refs, sent, shut, own>>
  BY Zenon DEF WorkerPop, chans
<1>9. RunInv'
  <2>1. h # Nobody
    BY <1>3, ProcessPoolAssumption, Zenon
  <2> QED BY <1>6, <1>7, <2>1, Zenon DEF RunInv, PoolInv
<1>10. ExitInv'
  BY <1>7, <1>8, Zenon DEF PoolInv, ExitInv
<1>11. ASSUME NEW c \in Submitters PROVE CommandInv(c)'
  <2>1. stage'[c] = stage[c]
    BY <1>7, ProcessPoolAssumption, Zenon
  <2>2. CASE c # h
    <3>1. SameAt(c)
      BY <1>2, <1>6, <1>8, <2>1, <2>2, Zenon DEF SameAt, Accepted
    <3> QED BY <3>1, CommandSame, Zenon DEF PoolInv
  <2>3. CASE c = h
    <3>1. c \in Queued /\ c \notin Queued' /\ c \notin Running /\ c \in Running' /\ Accepted(c)'
      BY <1>2, <1>4, <1>6, <2>1, <2>3, Zenon DEF Accepted
    <3>2. RefsOf(c)' = RefsOf(c)
      BY <1>8, <3>1, SMT DEF RefsOf
    <3>3. refs[c] = RefsOf(c) /\ c \notin shut /\ c \notin sent
      BY <1>4, <2>3, <3>1, Zenon DEF PoolInv, CommandInv
    <3> QED BY <1>8, <3>1, <3>2, <3>3, CommandPlaced, Zenon
  <2> QED BY <2>2, <2>3, Zenon
<1>12. Shape'
  BY <1>7, <1>8, Zenon DEF PoolInv, Shape
<1> QED BY <1>2, <1>9, <1>10, <1>11, <1>12, Zenon DEF PoolInv

LEMMA FinishKeeps ==
  ASSUME PoolInv, NEW w \in Workers, WorkerFinish(w)
  PROVE  PoolInv'
<1>1. PICK h : h = cur[w]
  BY Zenon
<1>2. h # Nobody /\ h \in Submitters
  BY <1>1, Zenon DEF PoolInv, RunInv, WorkerFinish
<1>3. /\ cur' \in [Workers -> Submitters \cup {Nobody}] /\ OneRuns' /\ h \in Running
      /\ Running' = Running \ {h} /\ cur'[w] = Nobody /\ \A v \in Workers \ {w} : cur'[v] = cur[v]
  <2>1. cur' = [cur EXCEPT ![w] = Nobody]
    BY Zenon DEF WorkerFinish
  <2>2. \A v \in Workers \ {w} : cur'[v] = cur[v]
    BY <2>1, Zenon DEF PoolInv, RunInv
  <2> QED BY <1>1, <1>2, <2>1, <2>2, LaysDown, Zenon DEF PoolInv
<1>4. Accepted(h) /\ h \notin Queued
  BY <1>2, <1>3, PlacedIsAccepted, Zenon
<1>5. DOMAIN stage' = DOMAIN stage /\ stage'[w] = "scan" /\ \A y \in (Workers \cup Submitters) \ {w} : stage'[y] = stage[y]
  BY GotoOthers, Zenon DEF PoolInv, WorkerFinish
<1>6. UNCHANGED <<queue, pool_closed, own>> /\ sent' = sent \cup {h} /\ shut' = shut \cup {h}
  BY <1>1, Zenon DEF WorkerFinish
<1>7. DOMAIN refs' = Submitters /\ refs'[h] = refs[h] - 1 /\ \A c \in Submitters \ {h} : refs'[c] = refs[c]
  <2>1. refs' = [refs EXCEPT ![h] = refs[h] - 1]
    BY <1>1, Zenon DEF WorkerFinish
  <2> QED BY <1>2, <2>1, Zenon DEF PoolInv, Shape
<1>8. Queued' = Queued /\ QueueInv'
  BY <1>6, Zenon DEF PoolInv, QueueInv, Queued
<1>9. RunInv'
  BY <1>3, <1>5, Zenon DEF RunInv, PoolInv
<1>10. ExitInv'
  <2>1. \A v \in Workers : stage'[v] = "exited" => stage[v] = "exited"
    BY <1>5, Zenon
  <2> QED BY <1>6, <2>1, ExitSame, Zenon DEF PoolInv
<1>11. ASSUME NEW c \in Submitters PROVE CommandInv(c)'
  <2>1. stage'[c] = stage[c]
    BY <1>5, ProcessPoolAssumption, Zenon
  <2>2. CASE c # h
    <3>1. SameAt(c)
      BY <1>3, <1>6, <1>7, <1>8, <2>1, <2>2, Zenon DEF SameAt, Accepted
    <3> QED BY <3>1, CommandSame, Zenon DEF PoolInv
  <2>3. CASE c = h
    <3>1. c \in Running /\ c \notin Running' /\ c \notin Queued /\ c \notin Queued' /\ Accepted(c)'
          /\ c \in shut' /\ (c \in own' <=> c \in own)
      BY <1>3, <1>4, <1>6, <1>8, <2>1, <2>3, Zenon DEF Accepted
    <3>2. refs[c] = RefsOf(c)
      BY <1>4, <2>3, Zenon DEF PoolInv, CommandInv
    <3>3. refs'[c] = RefsOf(c)'
      BY <1>7, <2>3, <3>1, <3>2, SMT DEF RefsOf
    <3> QED BY <3>1, <3>3, CommandPlaced, Zenon
  <2> QED BY <2>2, <2>3, Zenon
<1>12. Shape'
  BY <1>5, <1>7, Zenon DEF PoolInv, Shape
<1> QED BY <1>8, <1>9, <1>10, <1>11, <1>12, Zenon DEF PoolInv

(* A submitter moves its own command; the workers and the other commands are as they were. *)
LEMMA ClientKeeps ==
  ASSUME PoolInv, NEW c \in Submitters, NEW l, Becomes(c, l), UNCHANGED <<pool_closed, cur>>,
         QueueInv', queue' # <<>> => queue # <<>> \/ ~pool_closed, DOMAIN refs' = Submitters,
         CommandInv(c)', 
         \A d \in Submitters \ {c} :
           /\ refs'[d] = refs[d] /\ (d \in Queued' <=> d \in Queued) /\ (d \in own' <=> d \in own)
           /\ (d \in sent' <=> d \in sent) /\ (d \in shut' <=> d \in shut)
  PROVE  PoolInv'
<1>1. DOMAIN stage' = DOMAIN stage /\ stage'[c] = l /\ \A y \in (Workers \cup Submitters) \ {c} : stage'[y] = stage[y]
  BY GotoOthers, Zenon DEF PoolInv
<1>2. \A w \in Workers : stage'[w] = stage[w]
  BY <1>1, ProcessPoolAssumption, Zenon
<1>3. Running' = Running /\ RunInv'
  BY <1>2, Zenon DEF PoolInv, RunInv, OneRuns, Running
<1>4. ExitInv'
  <2>1. CASE queue # <<>>
    BY <1>2, <2>1, ExitSame, Zenon DEF PoolInv
  <2>2. CASE ~pool_closed
    BY <1>2, <2>2, ProcessPoolAssumption, Zenon DEF PoolInv, ExitInv
  <2>3. CASE queue' = <<>>
    BY <1>2, <2>3, Zenon DEF PoolInv, ExitInv
  <2> QED BY <2>1, <2>2, <2>3, Zenon
<1>5. ASSUME NEW d \in Submitters \ {c} PROVE CommandInv(d)'
  <2>1. SameAt(d)
    BY <1>1, <1>3, Zenon DEF SameAt, Accepted
  <2> QED BY <2>1, CommandSame, Zenon DEF PoolInv
<1>6. Shape'
  BY <1>1, Zenon DEF PoolInv, Shape
<1> QED BY <1>3, <1>4, <1>5, <1>6, Zenon DEF PoolInv

LEMMA SubmitKeeps ==
  ASSUME PoolInv, NEW c \in Submitters, NEW l \in {"forever", "now", "timed"}, Submit(c, l)
  PROVE  PoolInv'
<1>1. Becomes(c, l) /\ UNCHANGED <<queue, pool_closed, cur, sent, shut, own>> /\ stage[c] = "new"
  BY Zenon DEF Submit
<1>2. DOMAIN refs' = Submitters /\ refs'[c] = 2 /\ \A d \in Submitters \ {c} : refs'[d] = refs[d]
  BY Zenon DEF Submit, PoolInv, Shape
<1>3. Queued' = Queued /\ QueueInv' /\ Running' = Running
  BY <1>1, Zenon DEF PoolInv, QueueInv, Queued, Running
<1>4. stage'[c] = l
  BY <1>1, GotoOthers, Zenon DEF PoolInv
<1>5. ~Accepted(c) /\ ~Accepted(c)'
  BY <1>1, <1>4, Zenon DEF Accepted
<1>6. Untouched(c) /\ ~(c \in Queued /\ c \in Running)
  BY <1>5, Zenon DEF PoolInv, CommandInv
<1>7. CommandInv(c)'
  BY <1>1, <1>2, <1>3, <1>5, <1>6, Zenon DEF CommandInv, Untouched
<1> QED BY <1>1, <1>2, <1>3, <1>7, ClientKeeps, Zenon

LEMMA GiveUpKeeps ==
  ASSUME PoolInv, NEW c \in Submitters, GiveUp(c), ~Accepted(c)
  PROVE  PoolInv'
<1>1. Becomes(c, "idle") /\ UNCHANGED <<queue, pool_closed, cur, sent, own>> /\ shut' = shut \cup {c}
  BY Zenon DEF GiveUp
<1>2. DOMAIN refs' = Submitters /\ refs'[c] = 0 /\ \A d \in Submitters \ {c} : refs'[d] = refs[d]
  BY Zenon DEF GiveUp, PoolInv, Shape
<1>3. Queued' = Queued /\ QueueInv' /\ Running' = Running
  BY <1>1, Zenon DEF PoolInv, QueueInv, Queued, Running
<1>4. stage'[c] = "idle"
  BY <1>1, GotoOthers, Zenon DEF PoolInv
<1>5. Accepted(c)'
  BY <1>4, Zenon DEF Accepted
<1>6. Untouched(c)
  BY Zenon DEF PoolInv, CommandInv
<1>7. c \notin Queued' /\ c \notin Running' /\ c \notin own' /\ c \in shut'
  BY <1>1, <1>3, <1>6, Zenon DEF Untouched
<1>8. refs'[c] = RefsOf(c)'
  BY <1>2, <1>7, SMT DEF RefsOf
<1>9. CommandInv(c)'
  BY <1>5, <1>7, <1>8, CommandPlaced, Zenon
<1>10. \A d \in Submitters \ {c} : d \in shut' <=> d \in shut
  BY <1>1, Zenon
<1> QED BY <1>1, <1>2, <1>3, <1>9, <1>10, ClientKeeps, Zenon

LEMMA TakenKeeps ==
  ASSUME PoolInv, NEW c \in Submitters, OfferTaken(c)
  PROVE  PoolInv'
<1>1. Becomes(c, "idle") /\ UNCHANGED <<pool_closed, cur, refs, sent, shut>> /\ own' = own \cup {c} /\ ~pool_closed
  BY Zenon DEF OfferTaken, chans
<1>2. ~Accepted(c) /\ stage[c] # "new"
  BY Zenon DEF OfferTaken, Offering, Accepted
<1>3. Untouched(c) /\ refs[c] = 2
  BY <1>2, Zenon DEF PoolInv, CommandInv
<1>4. QueueInv' /\ Queued' = Queued \cup {c}
  <2>1. queue' = Append(queue, c)
    BY Zenon DEF OfferTaken
  <2> QED BY <1>3, <2>1, PushQueue, Zenon DEF PoolInv, Untouched
<1>5. stage'[c] = "idle" /\ Running' = Running
  BY <1>1, GotoOthers, Zenon DEF PoolInv, Running
<1>6. Accepted(c)' /\ c \in Queued' /\ c \notin Running' /\ c \in own' /\ c \notin shut' /\ c \notin sent'
  BY <1>1, <1>3, <1>4, <1>5, Zenon DEF Accepted, Untouched
<1>7. refs'[c] = RefsOf(c)'
  BY <1>1, <1>3, <1>6, SMT DEF RefsOf
<1>8. CommandInv(c)'
  BY <1>6, <1>7, CommandPlaced, Zenon
<1>9. \A d \in Submitters \ {c} : (d \in Queued' <=> d \in Queued) /\ (d \in own' <=> d \in own)
  BY <1>1, <1>4, Zenon
<1>10. DOMAIN refs' = Submitters
  BY <1>1, Zenon DEF PoolInv, Shape
<1> QED BY <1>1, <1>4, <1>8, <1>9, <1>10, ClientKeeps, Zenon

LEMMA DropChannelKeeps ==
  ASSUME PoolInv, NEW c \in Submitters, DropChannel(c)
  PROVE  PoolInv'
<1>1. UNCHANGED <<queue, pool_closed, stage, cur, sent, shut>> /\ own' = own \ {c} /\ c \in own
  BY Zenon DEF DropChannel
<1>2. DOMAIN refs' = Submitters /\ refs'[c] = refs[c] - 1 /\ \A d \in Submitters \ {c} : refs'[d] = refs[d]
  <2>1. refs' = [refs EXCEPT ![c] = refs[c] - 1]
    BY Zenon DEF DropChannel
  <2> QED BY <2>1, Zenon DEF PoolInv, Shape
<1>3. Queued' = Queued /\ QueueInv' /\ Running' = Running /\ RunInv' /\ Shape'
  BY <1>1, <1>2, Zenon DEF PoolInv, QueueInv, Queued, Running, RunInv, OneRuns, Shape
<1>4. ExitInv'
  BY <1>1, ExitSame, Zenon DEF PoolInv
<1>5. ASSUME NEW d \in Submitters PROVE CommandInv(d)'
  <2>1. CASE d # c
    <3>1. SameAt(d)
      BY <1>1, <1>2, <1>3, <2>1, Zenon DEF SameAt, Accepted
    <3> QED BY <3>1, CommandSame, Zenon DEF PoolInv
  <2>2. CASE d = c
    <3>1. Accepted(c)
      BY <1>1, PlacedIsAccepted, Zenon
    <3>2. /\ refs[c] = RefsOf(c) /\ (c \in shut <=> c \notin Queued /\ c \notin Running)
          /\ (c \in sent => c \in shut) /\ ~(c \in Queued /\ c \in Running)
      BY <3>1, Zenon DEF PoolInv, CommandInv
    <3>3. c \in own /\ c \notin own' /\ (c \in Running' <=> c \in Running) /\ (c \in Queued' <=> c \in Queued)
      BY <1>1, <1>3, Zenon
    <3>4. refs'[c] = RefsOf(c)'
      BY <1>2, <3>2, <3>3, SMT DEF RefsOf
    <3>5. Accepted(c)'
      BY <1>1, <3>1, Zenon DEF Accepted
    <3> QED BY <1>1, <1>3, <2>2, <3>2, <3>4, <3>5, CommandPlaced, Zenon
  <2> QED BY <2>1, <2>2, Zenon
<1> QED BY <1>3, <1>4, <1>5, Zenon DEF PoolInv

(* Draining settles what was in the queue, whoever does it. *)
LEMMA DrainKeeps ==
  ASSUME PoolInv, NEW c \in Submitters, CancelPending(c) \/ DrainOnDrop(c)
  PROVE  PoolInv'
<1>1. Drain /\ UNCHANGED <<pool_closed, cur, sent, own>>
  BY Zenon DEF CancelPending, DrainOnDrop
<1>2. queue' = <<>> /\ Queued' = {} /\ QueueInv'
  <2>1. queue' = <<>>
    BY <1>1, Zenon DEF Drain
  <2>2. queue' \in Seq(Submitters) /\ DOMAIN queue' = {}
    BY <2>1, SMT
  <2> QED BY <2>1, <2>2, Zenon DEF Queued, QueueInv, Once
<1>3. /\ DOMAIN stage' = DOMAIN stage
      /\ \A y \in Workers \cup Submitters : stage'[y] = stage[y] \/ (stage[y] = "drain" /\ stage'[y] = "notify" /\ y \in Submitters)
  <2>1. CASE CancelPending(c)
    BY <2>1, Zenon DEF CancelPending
  <2>2. CASE DrainOnDrop(c)
    BY <2>2, GotoOthers, Zenon DEF DrainOnDrop, PoolInv
  <2> QED BY <2>1, <2>2, Zenon
<1>4. \A w \in Workers : stage'[w] = stage[w]
  BY <1>3, ProcessPoolAssumption, Zenon
<1>5. ASSUME NEW d \in Submitters
      PROVE  Accepted(d)' = Accepted(d) /\ (stage'[d] = "new" <=> stage[d] = "new")
  <2>1. CASE stage'[d] = stage[d]
    BY <2>1, Zenon DEF Accepted
  <2>2. CASE stage[d] = "drain" /\ stage'[d] = "notify"
    <3>1. Accepted(d) /\ Accepted(d)'
      BY <2>2, Zenon DEF Accepted
    <3> QED BY <2>2, <3>1, SMT DEF Accepted
  <2> QED BY <1>3, <2>1, <2>2, Zenon
<1>6. Running' = Running /\ RunInv'
  BY <1>1, <1>4, Zenon DEF PoolInv, RunInv, OneRuns, Running
<1>7. ExitInv'
  BY <1>1, <1>2, <1>4, Zenon DEF PoolInv, ExitInv
<1>8. refs' = [d \in Submitters |-> refs[d] - (IF d \in Queued THEN 1 ELSE 0)] /\ shut' = shut \cup Queued
  BY <1>1, Zenon DEF Drain
<1>9. Shape'
  BY <1>3, <1>8, Zenon DEF PoolInv, Shape
<1>10. ASSUME NEW d \in Submitters PROVE CommandInv(d)'
  <2>1. refs'[d] = refs[d] - (IF d \in Queued THEN 1 ELSE 0)
    BY <1>8, Zenon
  <2>2. CASE Accepted(d)
    <3>1. /\ refs[d] = RefsOf(d) /\ (d \in shut <=> d \notin Queued /\ d \notin Running)
          /\ (d \in sent => d \in shut) /\ ~(d \in Queued /\ d \in Running)
      BY <2>2, Zenon DEF PoolInv, CommandInv
    <3>2. d \notin Queued' /\ (d \in Running' <=> d \in Running) /\ (d \in own' <=> d \in own)
      BY <1>1, <1>2, <1>6, Zenon
    <3>3. refs'[d] = RefsOf(d)'
      BY <2>1, <3>1, <3>2, SMT DEF RefsOf
    <3>4. (d \in shut' <=> d \notin Running') /\ (d \in sent' => d \in shut')
      BY <1>1, <1>8, <3>1, <3>2, Zenon
    <3> QED BY <1>5, <2>2, <3>2, <3>3, <3>4, CommandPlaced, Zenon
  <2>3. CASE ~Accepted(d)
    <3>1. Untouched(d) /\ (stage[d] # "new" => refs[d] = 2)
      BY <2>3, Zenon DEF PoolInv, CommandInv
    <3>2. Untouched(d)'
      BY <1>1, <1>2, <1>6, <1>8, <3>1, Zenon DEF Untouched
    <3>3. stage'[d] # "new" => refs'[d] = 2
      <4>1. CASE stage[d] = "new"
        BY <1>5, <4>1, Zenon
      <4>2. CASE refs[d] = 2
        BY <2>1, <3>1, <4>2, SMT DEF Untouched
      <4> QED BY <3>1, <4>1, <4>2, Zenon
    <3> QED BY <1>5, <2>3, <3>2, <3>3, Zenon DEF CommandInv, Untouched
  <2> QED BY <2>2, <2>3, Zenon
<1> QED BY <1>2, <1>6, <1>7, <1>9, <1>10, Zenon DEF PoolInv

LEMMA PoolStart == ProcessInit => PoolInv
<1> SUFFICES ASSUME ProcessInit PROVE PoolInv
  BY Zenon
<1>1. Running = {} /\ Queued = {}
  <2>1. DOMAIN queue = {} /\ queue \in Seq(Submitters)
    BY SMT DEF ProcessInit
  <2> QED BY <2>1, Zenon DEF ProcessInit, Running, Queued
<1>2. QueueInv
  <2>1. DOMAIN queue = {} /\ queue \in Seq(Submitters)
    BY SMT DEF ProcessInit
  <2> QED BY <2>1, Zenon DEF QueueInv, Once
<1>3. (\A w \in Workers : stage[w] = "scan") /\ \A c \in Submitters : stage[c] = "new"
  BY ProcessPoolAssumption, Zenon DEF ProcessInit
<1>4. RunInv
  BY <1>3, Zenon DEF ProcessInit, RunInv, OneRuns
<1>5. ExitInv
  BY <1>3, Zenon DEF ProcessInit, ExitInv
<1>6. \A c \in Submitters : CommandInv(c)
  BY <1>1, <1>3, Zenon DEF CommandInv, Accepted, Untouched, ProcessInit
<1>7. Shape
  BY Zenon DEF ProcessInit, Shape
<1> QED BY <1>2, <1>4, <1>5, <1>6, <1>7, Zenon DEF PoolInv

\* In every state of a process pool, a command that was accepted is in one place or settled.
THEOREM PoolInductive == ProcessSpec => []PoolInv
<1>1. PoolInv /\ [ProcessNext]_processVars => PoolInv'
  <2> SUFFICES ASSUME PoolInv, [ProcessNext]_processVars PROVE PoolInv'
    BY Zenon
  <2>1. CASE \E w \in Workers : WorkerStep(w)
    BY <2>1, PopKeeps, ExitKeeps, SleepKeeps, FinishKeeps, Zenon DEF WorkerStep
  <2>2. ASSUME NEW c \in Submitters,
               \/ SubmitForever(c) \/ TrySubmit(c) \/ SubmitTimeout(c)
               \/ DropChannel(c) \/ CancelPending(c) \/ Expire(c)
        PROVE  PoolInv'
    BY <2>2, SubmitKeeps, DropChannelKeeps, DrainKeeps, WaitKeeps, Zenon
       DEF SubmitForever, TrySubmit, SubmitTimeout
  <2>3. ASSUME NEW c \in Submitters, OfferStep(c) \/ SubmitInvalid(c) PROVE PoolInv'
    <3>1. CASE OfferTaken(c) \/ OfferWaits(c)
      BY <3>1, TakenKeeps, WaitKeeps, Zenon
    <3>2. CASE OfferRefused(c) \/ OfferNoRoom(c) \/ SubmitInvalid(c)
      <4>1. ~Accepted(c) /\ GiveUp(c)
        BY <3>2, Zenon DEF OfferRefused, OfferNoRoom, SubmitInvalid, Offering, Accepted
      <4> QED BY <4>1, GiveUpKeeps, Zenon
    <3> QED BY <2>3, <3>1, <3>2, Zenon DEF OfferStep
  <2>4. ASSUME NEW c \in Submitters, ClosePool(c) \/ DropPool(c) \/ CloseStep(c) PROVE PoolInv'
    BY <2>4, CloseKeeps, DrainKeeps, Zenon DEF CloseStep
  <2>5. CASE UNCHANGED processVars
    <3>1. UNCHANGED <<queue, pool_closed, stage, cur, chans, own>>
      BY <2>5, Zenon DEF processVars
    <3>2. ExitInv' /\ \A c \in Submitters : Accepted(c)' = Accepted(c)
      BY <3>1, ExitSame, Zenon DEF PoolInv, Accepted
    <3> QED BY <3>1, <3>2, Elsewhere, Zenon
  <2> QED BY <2>1, <2>2, <2>3, <2>4, <2>5, Zenon DEF ProcessNext
<1> QED BY <1>1, PoolStart, PTL DEF ProcessSpec

\* A pool of any number of workers and submitters settles every command once, releases its channel
\* with its last owner, and leaves none behind when its workers are gone.
THEOREM ProcessesAreSettled == ProcessSpec => []ProcessesSettled
<1>1. PoolInv => ProcessesSettled
  <2> SUFFICES ASSUME PoolInv PROVE ProcessesSettled
    BY Zenon
  <2>1. CommandSettledOnce
    <3> SUFFICES ASSUME NEW c \in Submitters
                 PROVE  /\ ~(c \in Queued /\ c \in Running)
                        /\ Accepted(c) => ((c \in shut) <=> (c \notin Queued \cup Running))
                        /\ c \in sent => c \in shut
      BY Zenon DEF CommandSettledOnce
    <3>1. CommandInv(c)
      BY Zenon DEF PoolInv
    <3> QED BY <3>1, Zenon DEF CommandInv
  <2>2. ASSUME NEW c \in Submitters
        PROVE  Cardinality({w \in Workers : cur[w] = c}) = IF c \in Running THEN 1 ELSE 0
    <3>1. c # Nobody
      BY ProcessPoolAssumption, Zenon
    <3>2. CASE c \in Running
      <4>1. PICK w \in Workers : cur[w] = c
        BY <3>2, Zenon DEF Running
      <4>2. {v \in Workers : cur[v] = c} = {w}
        BY <3>1, <4>1, Zenon DEF PoolInv, RunInv, OneRuns
      <4>3. Cardinality({w}) = 1
        BY FS_Singleton, Zenon
      <4> QED BY <3>2, <4>2, <4>3, Zenon
    <3>3. CASE c \notin Running
      <4>1. {v \in Workers : cur[v] = c} = {}
        BY <3>1, <3>3, Zenon DEF Running
      <4>2. Cardinality({}) = 0
        BY FS_EmptySet, Zenon
      <4> QED BY <3>3, <4>1, <4>2, Zenon
    <3> QED BY <3>2, <3>3, Zenon
  <2>3. ChannelRefsExact
    BY <2>2, Zenon DEF ChannelRefsExact, RefsOf, PoolInv, CommandInv
  <2>4. NoCommandLeft
    <3> SUFFICES ASSUME \A w \in Workers : stage[w] = "exited" PROVE Queued \cup Running = {}
      BY Zenon DEF NoCommandLeft
    <3>1. queue = <<>>
      BY Zenon DEF PoolInv, ExitInv
    <3>2. DOMAIN queue = {}
      BY <3>1, SMT
    <3>3. \A w \in Workers : cur[w] = Nobody
      BY Zenon DEF PoolInv, RunInv
    <3> QED BY <3>2, <3>3, Zenon DEF Queued, Running
  <2> QED BY <2>1, <2>3, <2>4, Zenon DEF ProcessesSettled
<1> QED BY <1>1, PoolInductive, PTL
=============================================================================
