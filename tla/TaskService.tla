----------------------------- MODULE TaskService -----------------------------
(***************************************************************************)
(* What a worker pool promises about the tasks it is offered, with no      *)
(* queue, lock or thread in sight.  A task is refused or taken; a taken    *)
(* task is started and finished, or withdrawn and cancelled; the service   *)
(* retires only when nothing it took is waiting or under way.              *)
(***************************************************************************)
CONSTANT Tasks

VARIABLES
  phase,    \* where each task stands
  retired   \* nobody will run a task any more

vars == <<phase, retired>>

Phases == {"unknown", "offered", "refused", "taken", "started", "withdrawn", "answered"}

TypeOK == phase \in [Tasks -> Phases] /\ retired \in BOOLEAN

Init ==
  /\ phase = [t \in Tasks |-> "unknown"]
  /\ retired \in BOOLEAN

Move(t, from, to) ==
  /\ phase[t] = from
  /\ phase' = [phase EXCEPT ![t] = to]
  /\ UNCHANGED retired

Take(t) == ~retired /\ Move(t, "offered", "taken")
Start(t) == ~retired /\ Move(t, "taken", "started")
Answer(t) == Move(t, "started", "answered") \/ Move(t, "withdrawn", "answered")

(* Everything waiting is withdrawn at once. *)
Withdraw ==
  /\ phase' = [t \in Tasks |-> IF phase[t] = "taken" THEN "withdrawn" ELSE phase[t]]
  /\ UNCHANGED retired

Retire ==
  /\ \A t \in Tasks : phase[t] \notin {"taken", "started"}
  /\ retired' = TRUE
  /\ UNCHANGED phase

Next ==
  \/ \E t \in Tasks :
       \/ Move(t, "unknown", "offered") \/ Move(t, "offered", "refused")
       \/ Take(t) \/ Start(t) \/ Answer(t)
  \/ Withdraw
  \/ Retire

Spec == Init /\ [][Next]_vars
=============================================================================
