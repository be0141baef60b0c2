----------------------------- MODULE HttpRouter ------------------------------
(***************************************************************************)
(* HttpRouter and HttpNext of src/net.rs: registering routes and           *)
(* middleware, choosing the route of a request, binding its captures, and  *)
(* the way through the middleware to the route's handler.  A middleware    *)
(* callback may call next any number of times, may rewrite the request's   *)
(* URL first, and may keep its HttpNext for later.                         *)
(*                                                                         *)
(* A route is a sequence of segments: a literal, {x} or {...x}.            *)
(***************************************************************************)
EXTENDS Naturals, Sequences, SequencesExt, FiniteSets

CONSTANTS Paths, Patterns,     \* requested paths; routes the program tries to register
          MaxRoutes, MaxMiddleware,
          MaxNames,            \* bound on the copies of a handle, and on the router's references
          MaxCalls             \* bound on the calls of handle and next

VARIABLES routes, middleware,
          names,               \* references to the router's entry; 0: removed
          held,                \* router values the program holds
          nexts,               \* stage of each HttpNext in use, with its names
          retained,            \* closure references taken and not released
          pc, stage, stack, match,
          seen, bound,         \* routes there were at the match, at the binding
          url, captures, rewritten, calls

vars == <<routes, middleware, names, held, nexts, retained, pc, stage, stack,
          match, seen, bound, url, captures, rewritten, calls>>
config == <<routes, middleware, names, held, nexts, retained>>
dispatch == <<pc, stage, stack, match, seen, bound, url, captures, rewritten, calls>>

Init ==
  /\ routes = <<>> /\ middleware = <<>> /\ names = 1 /\ held = 1 /\ nexts = {} /\ retained = 0
  /\ pc = "idle" /\ stage = 0 /\ stack = <<>> /\ match = 0 /\ seen = 0 /\ bound = 0
  /\ url = <<>> /\ captures = {} /\ rewritten = FALSE /\ calls = 0

-----------------------------------------------------------------------------
(* compile_http_route: captures have different names and {...x} comes last. *)
Compiles(p) ==
  /\ \A i, j \in 1..Len(p) : (i # j /\ p[i].k # "literal" /\ p[j].k # "literal") => p[i].n # p[j].n
  /\ \A i \in 1..Len(p) : p[i].k = "rest" => i = Len(p)

Rank(s) == CASE s.k = "rest" -> 0 [] s.k = "parameter" -> 1 [] s.k = "literal" -> 2

Specificity(p) ==
  [i \in 1..Len(p) |-> Rank(p[i])] \o (IF \E i \in 1..Len(p) : p[i].k = "rest" THEN <<>> ELSE <<3>>)

(* The order of vectors of integers: lexicographic, a prefix is smaller. *)
MoreSpecific(u, v) ==
  \E i \in 1..Len(u) : /\ \A j \in 1..(i - 1) : j <= Len(v) /\ u[j] = v[j]
                       /\ i > Len(v) \/ u[i] > v[i]

(* http_route_match *)
Matches(p, path) ==
  /\ \A i \in 1..Len(p) : p[i].k # "rest" => i <= Len(path)
  /\ \A i \in 1..Len(p) : p[i].k = "literal" => path[i] = p[i].n
  /\ (\E i \in 1..Len(p) : p[i].k = "rest") \/ Len(p) = Len(path)

CapturesOf(p, path) ==
  {<<p[i].n, IF p[i].k = "rest" THEN SubSeq(path, i, Len(path)) ELSE <<path[i]>>>> :
     i \in {j \in 1..Len(p) : p[j].k # "literal"}}

(* http_router_route_match: the first of the most specific; 0 if none. *)
Select_first(rs, path) ==
  LET fit == {i \in 1..Len(rs) : Matches(rs[i], path)}
  IN  IF fit = {} THEN 0 ELSE CHOOSE i \in fit : \A j \in fit : i <= j

Select(rs, path) ==
  LET fit == {i \in 1..Len(rs) : Matches(rs[i], path)}
      best == {i \in fit : \A j \in fit : ~ MoreSpecific(Specificity(rs[j]), Specificity(rs[i]))}
  IN  IF fit = {} THEN 0 ELSE CHOOSE i \in best : \A j \in best : i <= j

Same_names(p, q) == p = q

Same(p, q) ==
  /\ Specificity(p) = Specificity(q)
  /\ \A i \in 1..Len(p) : p[i].k = q[i].k /\ (p[i].k = "literal" => p[i].n = q[i].n)

-----------------------------------------------------------------------------
(* Registration.  The closure is retained before a duplicate is refused. *)

Route ==
  /\ held > 0 /\ Len(routes) < MaxRoutes /\ retained < MaxRoutes + MaxMiddleware
  /\ \E p \in Patterns :
       /\ Compiles(p) /\ retained' = retained + 1
       /\ routes' = IF \E i \in 1..Len(routes) : Same(routes[i], p) THEN routes ELSE Append(routes, p)
  /\ UNCHANGED <<middleware, names, held, nexts, dispatch>>

Use ==
  /\ held > 0 /\ Len(middleware) < MaxMiddleware
  /\ middleware' = Append(middleware, "callback") /\ retained' = retained + 1
  /\ UNCHANGED <<routes, names, held, nexts, dispatch>>

(* basic_auth, bearer_auth and oauth_oidc, once their arguments are valid. *)
UseAuth ==
  /\ held > 0 /\ Len(middleware) < MaxMiddleware
  /\ middleware' = Append(middleware, "auth")
  /\ UNCHANGED <<routes, names, held, nexts, retained, dispatch>>

Closures == Len(routes) + Len(SelectSeq(middleware, LAMBDA m : m = "callback"))

(* The entry goes with its last reference, and releases its closures. *)
ReleaseRouter ==
  /\ names' = names - 1
  /\ IF names = 1 THEN retained' = retained - Closures /\ routes' = <<>> /\ middleware' = <<>>
     ELSE UNCHANGED <<retained, routes, middleware>>

CopyRouter ==
  /\ held \in 1..(MaxNames - 1) /\ held' = held + 1 /\ names' = names + 1
  /\ UNCHANGED <<routes, middleware, nexts, retained, dispatch>>

(* A caller keeps its router while it dispatches. *)
DropRouter ==
  /\ held > 0 /\ (pc # "idle" => held > 1) /\ held' = held - 1
  /\ ReleaseRouter /\ UNCHANGED <<nexts, dispatch>>

(* Every copy of an HttpNext takes a reference to the router; only the last
   drop gives one back. *)
CopyNext ==
  /\ names <= MaxNames
  /\ \E x \in nexts : /\ x.names < MaxNames
                      /\ nexts' = (nexts \ {x}) \cup {[x EXCEPT !.names = @ + 1]}
  /\ names' = names + 1
  /\ UNCHANGED <<routes, middleware, held, retained, dispatch>>

DropOne(x) ==
  IF x.names > 1
  THEN /\ nexts' = (nexts \ {x}) \cup {[x EXCEPT !.names = @ - 1]}
       /\ UNCHANGED <<routes, middleware, names, retained>>
  ELSE nexts' = nexts \ {x} /\ ReleaseRouter

(* A kept HttpNext; the one of a running callback is dropped on its return. *)
DropNext ==
  /\ \E x \in nexts : /\ x.names > (IF x.stage \in {stack[i] : i \in 1..Len(stack)} THEN 1 ELSE 0)
                      /\ DropOne(x)
  /\ UNCHANGED <<held, dispatch>>

-----------------------------------------------------------------------------
(* Dispatch.  Each step takes the router's lock for itself. *)

Handle ==
  /\ pc = "idle" /\ held > 0 /\ calls < MaxCalls
  /\ \E path \in Paths : url' = path
  /\ pc' = "match" /\ stage' = 0 /\ rewritten' = FALSE /\ calls' = calls + 1
  /\ UNCHANGED <<stack, match, seen, bound, captures, config>>

MatchRoute ==
  /\ pc = "match" /\ match' = Select(routes, url) /\ seen' = Len(routes)
  /\ pc' = IF stage = 0 THEN "bind" ELSE "middleware"
  /\ UNCHANGED <<stage, stack, bound, url, captures, rewritten, calls, config>>

BindCaptures ==
  /\ pc = "bind" /\ pc' = "middleware" /\ bound' = seen
  /\ captures' = IF match = 0 THEN {} ELSE CapturesOf(routes[match], url)
  /\ UNCHANGED <<stage, stack, match, seen, url, rewritten, calls, config>>

(* insert_http_next: the new HttpNext holds the router. *)
InsertNext(n) ==
  /\ \A x \in nexts : x.stage # n
  /\ nexts' = nexts \cup {[stage |-> n, names |-> 1]} /\ names' = names + 1

ApplyMiddleware ==
  /\ pc = "middleware" /\ stage < Len(middleware)
  /\ IF middleware[stage + 1] = "callback"
     THEN /\ InsertNext(stage + 1)
          /\ stack' = Append(stack, stage + 1) /\ pc' = "callback" /\ stage' = stage
     ELSE /\ \/ pc' = "match" /\ stage' = stage + 1
             \/ pc' = "return" /\ stage' = stage
          /\ UNCHANGED <<nexts, names, stack>>
  /\ UNCHANGED <<match, seen, bound, url, captures, rewritten, calls, routes, middleware, held, retained>>

(* A callback rewrites the request, calls next, or returns. *)
Rewrite ==
  /\ pc = "callback" /\ ~ rewritten /\ rewritten' = TRUE
  /\ \E path \in Paths : url' = path
  /\ UNCHANGED <<pc, stage, stack, match, seen, bound, captures, calls, config>>

NextHandle ==
  /\ pc = "callback" /\ calls < MaxCalls /\ calls' = calls + 1
  /\ pc' = "match" /\ stage' = Last(stack)
  /\ UNCHANGED <<stack, match, seen, bound, url, captures, rewritten, config>>

CallbackReturns ==
  /\ pc = "callback"
  /\ \E x \in nexts : x.stage = Last(stack) /\ DropOne(x)
  /\ stack' = Front(stack) /\ pc' = "return"
  /\ UNCHANGED <<stage, match, seen, bound, url, captures, rewritten, calls, held>>

(* A kept HttpNext is used after its callback has returned. *)
KeptNextHandle ==
  /\ pc = "idle" /\ calls < MaxCalls /\ held > 0
  /\ \E x \in nexts, path \in Paths : stage' = x.stage /\ url' = path
  /\ pc' = "match" /\ rewritten' = TRUE /\ calls' = calls + 1
  /\ UNCHANGED <<stack, match, seen, bound, captures, config>>

RunHandler ==
  /\ pc = "middleware" /\ stage >= Len(middleware)
  /\ pc' = IF match = 0 THEN "return" ELSE "run"
  /\ UNCHANGED <<stage, stack, match, seen, bound, url, captures, rewritten, calls, config>>

Return ==
  /\ pc \in {"run", "return"}
  /\ IF stack = <<>>
     THEN /\ pc' = "idle" /\ stage' = 0 /\ match' = 0 /\ seen' = 0 /\ bound' = 0
          /\ url' = <<>> /\ rewritten' = FALSE
     ELSE pc' = "callback" /\ UNCHANGED <<stage, match, seen, bound, url, rewritten>>
  /\ UNCHANGED <<stack, captures, calls, config>>

Next ==
  \/ Route \/ Use \/ UseAuth \/ CopyRouter \/ DropRouter \/ CopyNext \/ DropNext
  \/ Handle \/ MatchRoute \/ BindCaptures \/ ApplyMiddleware \/ Rewrite \/ NextHandle
  \/ CallbackReturns \/ KeptNextHandle \/ RunHandler \/ Return

Spec == Init /\ [][Next]_vars

-----------------------------------------------------------------------------
(* Registration order never decides: of the routes registered, two that match
   the same path differ in specificity, so a path has one most specific route,
   whichever order the routes came in. *)
OneBestRoute ==
  \A path \in Paths, i, j \in 1..Len(routes) :
     (i # j /\ Matches(routes[i], path) /\ Matches(routes[j], path))
        => \/ MoreSpecific(Specificity(routes[i]), Specificity(routes[j]))
           \/ MoreSpecific(Specificity(routes[j]), Specificity(routes[i]))

(* The handler that runs belongs to a route that matches the request, and no
   route there was at the match is more specific; its captures are that route's,
   unless a callback rewrote the URL or a route was added after the binding. *)
CapturesFollowRoute ==
  pc = "run" =>
    /\ Matches(routes[match], url)
    /\ \A i \in 1..seen : Matches(routes[i], url) =>
          ~ MoreSpecific(Specificity(routes[i]), Specificity(routes[match]))
    /\ (~ rewritten /\ bound = seen) => captures = CapturesOf(routes[match], url)
=============================================================================
