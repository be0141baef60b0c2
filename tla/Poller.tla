------------------------------- MODULE Poller -------------------------------
(***************************************************************************)
(* Readiness pollers (src/poller.rs).  A Poller value names an entry of a  *)
(* table; a call looks the entry up under the table's lock, lets go of it, *)
(* and works under the entry's own lock, which a poll keeps while it       *)
(* waits.  The events a poll returns are entries of a table of their own.  *)
(***************************************************************************)
EXTENDS Naturals, FiniteSets, FiniteSetsExt

CONSTANTS
  Threads,
  Pollers,     \* identifiers next_id hands out, in any order
  Sockets,
  MaxToken,    \* registrations of a poller
  MaxEvents,   \* events returned
  MaxCalls

VARIABLES refs, sources, next_token, vals, ready, nonblocking, registry, holder, call, events, calls
vars == <<refs, sources, next_token, vals, ready, nonblocking, registry, holder, call, events, calls>>

Free == "free"
Idle == [pc |-> "idle", kind |-> "none", p |-> "none", s |-> "none", token |-> 0, forever |-> FALSE]
Tokens == 1..MaxToken
Live(p) == refs[p] > 0

\* sources[p] gives the socket registered under a token; 0 references: no entry.
Init ==
  /\ refs = [p \in Pollers |-> 0] /\ sources = [p \in Pollers |-> <<>>] /\ next_token = [p \in Pollers |-> 1]
  /\ vals = [t \in Threads |-> [p \in Pollers |-> 0]]
  /\ ready = {} /\ nonblocking = {} /\ registry = Free /\ holder = [p \in Pollers |-> Free]
  /\ call = [t \in Threads |-> Idle] /\ events = [e \in 1..MaxEvents |-> 0] /\ calls = 0

At(t, pc) == call[t].pc = pc
Enter(t, c) ==
  /\ At(t, "idle") /\ calls < MaxCalls /\ calls' = calls + 1
  /\ call' = [call EXCEPT ![t] = c]
Step(t, pc) == call' = [call EXCEPT ![t].pc = pc]
Return(t) == call' = [call EXCEPT ![t] = Idle]
Holds(t, p) == vals[t][p] > 0
Table == registry = Free

(***************************************************************************)
(* Values.                                                                 *)
(***************************************************************************)
mux_poller_new(t) ==
  /\ Enter(t, Idle) /\ Table
  /\ \E p \in Pollers :
       /\ refs[p] = 0 /\ next_token[p] = 1 /\ \A u \in Threads : ~Holds(u, p) /\ call[u].p # p
       /\ refs' = [refs EXCEPT ![p] = 1] /\ vals' = [vals EXCEPT ![t][p] = 1]
  /\ UNCHANGED <<sources, next_token, ready, nonblocking, registry, holder, events>>

CopyCount_uncounted(p) == refs' = refs
CopyCount(p) == refs' = [refs EXCEPT ![p] = @ + 1]

copy_poller(t, to, p) ==
  /\ Enter(t, Idle) /\ Table /\ Holds(t, p) /\ Live(p)
  /\ CopyCount(p) /\ vals' = [vals EXCEPT ![to][p] = @ + 1]
  /\ UNCHANGED <<sources, next_token, ready, nonblocking, registry, holder, events>>

\* The last value takes the entry out of the table; a call under way keeps its own hold
\* on it, so the registrations go when that ends.
drop_poller(t, p) ==
  /\ Enter(t, Idle) /\ Table /\ Holds(t, p)
  /\ vals' = [vals EXCEPT ![t][p] = @ - 1] /\ refs' = [refs EXCEPT ![p] = IF @ > 0 THEN @ - 1 ELSE 0]
  /\ UNCHANGED <<sources, next_token, ready, nonblocking, registry, holder, events>>

Unused == {e \in DOMAIN events : events[e] = 0}
Calling(kind) == Cardinality({u \in Threads : call[u].kind = kind})

(***************************************************************************)
(* Calls on a poller.                                                      *)
(***************************************************************************)
interest(readable, writable) == readable \/ writable

\* The socket is cloned and made non-blocking before the interest is looked at.
mux_poller_register(t, p, s, readable, writable) ==
  /\ Enter(t, IF interest(readable, writable) THEN [Idle EXCEPT !.pc = "lookup", !.kind = "register", !.p = p, !.s = s]
              ELSE Idle)
  /\ Holds(t, p) /\ next_token[p] + Calling("register") <= MaxToken /\ nonblocking' = nonblocking \cup {s}
  /\ UNCHANGED <<refs, sources, next_token, vals, ready, registry, holder, events>>

mux_poller_deregister(t, p, token) ==
  /\ Enter(t, [Idle EXCEPT !.pc = "lookup", !.kind = "deregister", !.p = p, !.token = token]) /\ Holds(t, p)
  /\ UNCHANGED <<refs, sources, next_token, vals, ready, nonblocking, registry, holder, events>>

mux_poller_poll(t, p, forever) ==
  /\ Enter(t, [Idle EXCEPT !.pc = "lookup", !.kind = "poll", !.p = p, !.forever = forever]) /\ Holds(t, p)
  /\ Cardinality(Unused) >= MaxToken * (Calling("poll") + 1)
  /\ UNCHANGED <<refs, sources, next_token, vals, ready, nonblocking, registry, holder, events>>

with_poller_id_holds(t) ==
  /\ At(t, "lookup") /\ Table /\ registry' = (IF Live(call[t].p) THEN t ELSE Free)
  /\ IF Live(call[t].p) THEN Step(t, "lock") ELSE Return(t)
  /\ UNCHANGED <<refs, sources, next_token, vals, ready, nonblocking, holder, events, calls>>

\* The entry is found under the table's lock, which is released before the entry's own
\* lock is waited for.
with_poller_id(t) ==
  /\ At(t, "lookup") /\ Table /\ registry' = Free
  /\ IF Live(call[t].p) THEN Step(t, "lock") ELSE Return(t)
  /\ UNCHANGED <<refs, sources, next_token, vals, ready, nonblocking, holder, events, calls>>

LockState(t) ==
  /\ At(t, "lock") /\ holder[call[t].p] = Free
  /\ holder' = [holder EXCEPT ![call[t].p] = t] /\ Step(t, call[t].kind)
  /\ UNCHANGED <<refs, sources, next_token, vals, ready, nonblocking, registry, events, calls>>

Unlock(t) ==
  /\ holder' = [holder EXCEPT ![call[t].p] = Free]
  /\ registry' = IF registry = t THEN Free ELSE registry
  /\ Return(t)

\* The token is used up even when the registration fails.
register_source(t) ==
  LET c == call[t]  token == next_token[c.p] IN
  /\ At(t, "register")
  /\ next_token' = [next_token EXCEPT ![c.p] = @ + 1]
  /\ \/ sources' = [sources EXCEPT ![c.p] = [x \in DOMAIN @ \cup {token} |-> IF x = token THEN c.s ELSE @[x]]]
     \/ UNCHANGED sources
  /\ Unlock(t) /\ UNCHANGED <<refs, vals, ready, nonblocking, events, calls>>

Deregister(t) ==
  LET c == call[t] IN
  /\ At(t, "deregister")
  /\ sources' = [sources EXCEPT ![c.p] = [x \in DOMAIN @ \ {c.token} |-> @[x]]]
  /\ Unlock(t) /\ UNCHANGED <<refs, next_token, vals, ready, nonblocking, events, calls>>

ReadyTokens(p) == {token \in DOMAIN sources[p] : sources[p][token] \in ready}

\* One entry for every token that is ready, each with one reference.
insert_event(p) ==
  LET new == CHOOSE n \in SUBSET Unused : Cardinality(n) = Cardinality(ReadyTokens(p)) IN
  events' = [e \in DOMAIN events |-> IF e \in new THEN 1 ELSE events[e]]

\* The poll ends when a registered socket is ready or, unless it waits forever, when its
\* time is up.
Poll(t) ==
  /\ At(t, "poll") /\ (ReadyTokens(call[t].p) # {} \/ ~call[t].forever)
  /\ insert_event(call[t].p)
  /\ Unlock(t) /\ UNCHANGED <<refs, sources, next_token, vals, ready, nonblocking, calls>>

copy_event(e) ==
  /\ events[e] = 1 /\ events' = [events EXCEPT ![e] = 2]
  /\ UNCHANGED <<refs, sources, next_token, vals, ready, nonblocking, registry, holder, call, calls>>
drop_event(e) ==
  /\ events[e] > 0 /\ events' = [events EXCEPT ![e] = @ - 1]
  /\ UNCHANGED <<refs, sources, next_token, vals, ready, nonblocking, registry, holder, call, calls>>

\* The peer.
BecomesReady(s) ==
  /\ s \notin ready /\ ready' = ready \cup {s}
  /\ UNCHANGED <<refs, sources, next_token, vals, nonblocking, registry, holder, call, events, calls>>

Work(t) == with_poller_id(t) \/ LockState(t) \/ register_source(t) \/ Deregister(t) \/ Poll(t)
Next ==
  \/ \E t \in Threads :
       \/ mux_poller_new(t) \/ Work(t)
       \/ \E p \in Pollers :
            \/ drop_poller(t, p) \/ \E to \in Threads : copy_poller(t, to, p)
            \/ \E s \in Sockets, readable, writable \in BOOLEAN : mux_poller_register(t, p, s, readable, writable)
            \/ \E token \in Tokens : mux_poller_deregister(t, p, token)
            \/ \E forever \in BOOLEAN : mux_poller_poll(t, p, forever)
  \/ \E e \in DOMAIN events : copy_event(e) \/ drop_event(e)
  \/ \E s \in Sockets : BecomesReady(s)

Spec == Init /\ [][Next]_vars

(***************************************************************************)
(* Properties                                                              *)
(***************************************************************************)

\* A Poller value finds its entry for as long as it exists, and an entry without values
\* is gone from the table: copies and drops are counted exactly.
PollersCounted == \A p \in Pollers : refs[p] = MapThenSumSet(LAMBDA t : vals[t][p], Threads)

\* A poll that waits forever on one poller stops nobody who uses another one: their call
\* returns, or their own poller is the one being waited on.
InCall(t) == call[t].pc # "idle"
WaitsOut(t) == \E u \in Threads : holder[call[t].p] = u /\ call[u].forever
=============================================================================
