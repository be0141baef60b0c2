------------------------------- MODULE OAuth --------------------------------
(***************************************************************************)
(* The OAuth/OIDC client, its sessions, and the check of a bearer token    *)
(* against the provider's published keys (src/net.rs).  A client is an     *)
(* entry that names its issuer and, after discovery, the endpoints; every  *)
(* request copies what it needs out of the entry, goes to the network      *)
(* without a lock, and comes back.  Keys are cached per URL for CacheTtl.  *)
(*                                                                         *)
(* One client entry shared by the threads; an issuer stands for its client *)
(* id and for the endpoints it advertises.  The provider replaces its      *)
(* signing key now and then; a token is the key that signed it and whether *)
(* its claims are in order.                                                *)
(***************************************************************************)
EXTENDS Integers, FiniteSets

CONSTANTS
  Askers,        \* the threads
  Issuers, Sessions,
  CacheTtl,      \* CACHE_TTL
  FetchLimit,    \* how long one fetch of keys may take
  LastKey,       \* bound: keys the provider uses one after the other
  MaxTime, MaxAsked,  \* bounds: the clock, calls that start
  MayConfigure   \* whether a client in use is configured again

ASSUME OAuthAssumption == CacheTtl \in Nat \ {0} /\ FetchLimit \in Nat /\ LastKey \in Nat

VARIABLES
  client,    \* issuer, and the issuers of the endpoints found by discovery
  sessions,  \* the token sessions: names, tokens held, expiry
  named,     \* the sessions the program's values name
  doing,     \* what each thread is doing
  provider,  \* the key in use and when each of its predecessors was replaced
  cache,     \* the cached keys and when they were stored
  now,
  age,       \* for how long the key last accepted had been out of use, -1 if it was not
  asked

oauthVars == <<client, sessions, named, doing, provider, cache, now, age, asked>>

Unset == "none"
Resting == [op |-> "idle"]
Closed == [names |-> 0, refresh |-> FALSE, expires |-> 0]
NewClient(i) ==
  [issuer |-> i, auth |-> Unset, token |-> Unset, revocation |-> Unset, introspection |-> Unset]

\* from_config, or new, which leaves the configuration for later.
OAuthInit ==
  /\ client \in {NewClient(i) : i \in Issuers \cup {Unset}}
  /\ sessions = [s \in Sessions |-> Closed] /\ named = [s \in Sessions |-> FALSE]
  /\ doing = [t \in Askers |-> Resting]
  /\ provider = [key |-> 0, replaced |-> [k \in 0..LastKey |-> 0]]
  /\ cache = [keys |-> {}, at |-> 0]
  /\ now = 0 /\ age = -1 /\ asked = 0

Asks(t) == doing[t] = Resting /\ asked < MaxAsked /\ asked' = asked + 1
Becomes(t, r) == doing' = [doing EXCEPT ![t] = r]
Answers(t) == Becomes(t, Resting)

(***************************************************************************)
(* The client.                                                             *)
(***************************************************************************)
\* A new configuration forgets the endpoints of the old one.
configure(t, i) ==
  /\ Asks(t) /\ (MayConfigure \/ client.issuer = Unset)
  /\ client' = NewClient(i)
  /\ UNCHANGED <<sessions, named, doing, provider, cache, now, age>>

\* discover copies the entry, asks the issuer, and stores what it says.
discover(t) ==
  /\ Asks(t) /\ client.issuer # Unset
  /\ Becomes(t, [op |-> "discover", from |-> client.issuer])
  /\ UNCHANGED <<client, sessions, named, provider, cache, now, age>>

\* Authorization and token endpoints are required; the other two are optional.
DiscoverReply(t) ==
  /\ doing[t].op = "discover"
  /\ \E revocation, introspection \in {Unset, doing[t].from} :
       client' = [client EXCEPT !.auth = doing[t].from, !.token = doing[t].from,
                                !.revocation = revocation, !.introspection = introspection]
  /\ Answers(t) /\ UNCHANGED <<sessions, named, provider, cache, now, age, asked>>

\* An error, or a document that names another issuer or lacks an endpoint: nothing is stored.
DiscoverFails(t) ==
  /\ doing[t].op = "discover"
  /\ Answers(t) /\ UNCHANGED <<client, sessions, named, provider, cache, now, age, asked>>

\* exchange_code, refresh, revoke and introspect read the endpoint, and then the entry again.
Endpoint(t, op, endpoint) ==
  /\ Asks(t) /\ endpoint # Unset
  /\ Becomes(t, [op |-> "endpoint", call |-> op, endpoint |-> endpoint])
  /\ UNCHANGED <<client, sessions, named, provider, cache, now, age>>

exchange_code(t) == Endpoint(t, "exchange", client.token)
client_refresh(t) == Endpoint(t, "refresh", client.token)
client_revoke(t) == Endpoint(t, "revoke", client.revocation)
client_introspect(t) == Endpoint(t, "introspect", client.introspection)

oauth_client_endpoint(t) ==
  /\ doing[t].op = "endpoint"
  /\ Becomes(t, [op |-> "request", call |-> doing[t].call, endpoint |-> doing[t].endpoint,
              id |-> client.issuer])
  /\ UNCHANGED <<client, sessions, named, provider, cache, now, age, asked>>

\* The address is put together from one copy of the entry.
authorization_url(t) ==
  /\ Asks(t) /\ client.auth # Unset
  /\ Becomes(t, [op |-> "request", call |-> "authorize", endpoint |-> client.auth, id |-> client.issuer])
  /\ UNCHANGED <<client, sessions, named, provider, cache, now, age>>

\* The document, or an error, is the caller's.
oauth_http_json(t) ==
  /\ doing[t].op = "request" /\ doing[t].call \notin {"session_refresh"}
  /\ Answers(t) /\ UNCHANGED <<client, sessions, named, provider, cache, now, age, asked>>

(***************************************************************************)
(* Sessions.                                                               *)
(***************************************************************************)
\* access_token is required, refresh_token and expires_in are optional.
insert_oauth_session(s) ==
  /\ sessions[s] = Closed /\ ~named[s]
  /\ \E refresh \in BOOLEAN, expires \in {0, now + 1} :
       sessions' = [sessions EXCEPT ![s] = [names |-> 1, refresh |-> refresh, expires |-> expires]]
  /\ named' = [named EXCEPT ![s] = TRUE]

session_from_token_response(t, s) ==
  /\ Asks(t) /\ insert_oauth_session(s)
  /\ UNCHANGED <<client, doing, provider, cache, now, age>>

copy_oauth_session(t, s) ==
  /\ Asks(t) /\ named[s] /\ sessions[s].names \in 1..2
  /\ sessions' = [sessions EXCEPT ![s].names = @ + 1]
  /\ UNCHANGED <<client, named, doing, provider, cache, now, age>>

drop_oauth_session(t, s) ==
  /\ doing[t] = Resting /\ named[s]
  /\ sessions' = [sessions EXCEPT ![s] = IF @.names > 1 THEN [@ EXCEPT !.names = @ - 1] ELSE Closed]
  /\ named' = [named EXCEPT ![s] = sessions[s].names > 1]
  /\ UNCHANGED <<client, doing, provider, cache, now, age, asked>>

\* All the values that name the session lose it.
session_close(t, s) ==
  /\ doing[t] = Resting /\ named[s]
  /\ sessions' = [sessions EXCEPT ![s] = Closed] /\ named' = [named EXCEPT ![s] = FALSE]
  /\ UNCHANGED <<client, doing, provider, cache, now, age, asked>>

\* The token is copied out of the session, then the client is copied once.
SessionRequest(t, s, call, endpoint) ==
  /\ Asks(t) /\ named[s] /\ sessions[s].names > 0 /\ endpoint # Unset
  /\ Becomes(t, [op |-> "request", call |-> call, endpoint |-> endpoint, id |-> client.issuer])
  /\ UNCHANGED <<client, sessions, named, provider, cache, now, age>>

session_refresh(t, s) == sessions[s].refresh /\ SessionRequest(t, s, "session_refresh", client.token)
session_revoke(t, s) == SessionRequest(t, s, "session_revoke", client.revocation)
session_introspect(t, s) == SessionRequest(t, s, "session_introspect", client.introspection)

\* A new session holds exactly what the provider answered; the old one is as it was.
SessionRefreshed(t) ==
  /\ doing[t].op = "request" /\ doing[t].call = "session_refresh"
  /\ \/ \E s \in Sessions : insert_oauth_session(s)
     \/ UNCHANGED <<sessions, named>>
  /\ Answers(t) /\ UNCHANGED <<client, provider, cache, now, age, asked>>

(***************************************************************************)
(* oauth_oidc_token_is_valid.                                              *)
(***************************************************************************)
Fresh_anyAge == cache.keys # {}

Fresh == cache.keys # {} /\ now - cache.at < CacheTtl

OutOfUse(k) == IF k = provider.key THEN -1 ELSE now - provider.replaced[k]

\* Header, claims and times come first; then the keys, from the cache or the provider.
token_is_valid(t, k) ==
  /\ Asks(t)
  /\ IF Fresh
     THEN /\ age' = IF k \in cache.keys THEN OutOfUse(k) ELSE age
          /\ UNCHANGED doing
     ELSE /\ Becomes(t, [op |-> "fetch", k |-> k, start |-> now, keys |-> {}])
          /\ UNCHANGED age
  /\ UNCHANGED <<client, sessions, named, provider, cache, now>>

\* A token whose form, algorithm, issuer, audience or times are wrong needs no key.
token_refused(t) ==
  /\ Asks(t) /\ UNCHANGED <<client, sessions, named, doing, provider, cache, now, age>>

\* The provider answers; the body is read.
JwksReply(t) ==
  /\ doing[t].op = "fetch" /\ doing[t].keys = {}
  /\ Becomes(t, [doing[t] EXCEPT !.keys = {provider.key}])
  /\ UNCHANGED <<client, sessions, named, provider, cache, now, age, asked>>

\* No answer in time, an error, or no usable key: the token is neither valid nor invalid.
JwksFails(t) ==
  /\ doing[t].op = "fetch" /\ Answers(t)
  /\ UNCHANGED <<client, sessions, named, provider, cache, now, age, asked>>

\* Only complete, usable answers are stored.
JwksStore(t) ==
  /\ doing[t].op = "fetch" /\ doing[t].keys # {}
  /\ cache' = [keys |-> doing[t].keys, at |-> now]
  /\ age' = IF doing[t].k \in doing[t].keys THEN OutOfUse(doing[t].k) ELSE age
  /\ Answers(t) /\ UNCHANGED <<client, sessions, named, provider, now, asked>>

\* The provider signs with a new key from now on.
Rotate ==
  /\ provider.key < LastKey
  /\ provider' = [key |-> provider.key + 1,
                  replaced |-> [provider.replaced EXCEPT ![provider.key] = now]]
  /\ UNCHANGED <<client, sessions, named, doing, cache, now, age, asked>>

\* A fetch has a deadline of FetchLimit.
Tick ==
  /\ now < MaxTime
  /\ \A t \in Askers : doing[t].op = "fetch" => now - doing[t].start < FetchLimit
  /\ now' = now + 1
  /\ UNCHANGED <<client, sessions, named, doing, provider, cache, age, asked>>

AskerStep(t) ==
  \/ \E i \in Issuers : configure(t, i)
  \/ discover(t) \/ DiscoverReply(t) \/ DiscoverFails(t)
  \/ exchange_code(t) \/ client_refresh(t) \/ client_revoke(t) \/ client_introspect(t)
  \/ oauth_client_endpoint(t) \/ authorization_url(t) \/ oauth_http_json(t)
  \/ \E s \in Sessions :
       \/ session_from_token_response(t, s) \/ copy_oauth_session(t, s)
       \/ drop_oauth_session(t, s) \/ session_close(t, s)
       \/ session_refresh(t, s) \/ session_revoke(t, s) \/ session_introspect(t, s)
  \/ SessionRefreshed(t)
  \/ \E k \in 0..LastKey : token_is_valid(t, k)
  \/ token_refused(t) \/ JwksReply(t) \/ JwksFails(t) \/ JwksStore(t)

OAuthNext == Rotate \/ Tick \/ \E t \in Askers : AskerStep(t)

OAuthSpec == OAuthInit /\ [][OAuthNext]_oauthVars

(***************************************************************************)
(* Properties                                                              *)
(***************************************************************************)

\* A token is accepted only if its key was in use at the provider less than the life of
\* the cache plus the time one fetch may take ago, however fetches overlap.
AcceptedKeyRecent == age < CacheTtl + FetchLimit
=============================================================================
