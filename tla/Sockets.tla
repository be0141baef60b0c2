------------------------------ MODULE Sockets -------------------------------
(***************************************************************************)
(* TCP, UDP and local sockets (src/net.rs).  A Mux value holds a handle;   *)
(* the table of its kind maps the handle to a socket behind a mutex and to *)
(* the number of values that name it.  An operation looks the socket up,   *)
(* keeps a reference to it, and holds the mutex for as long as the system  *)
(* call takes, which for a read or an accept may be for ever.  Closing     *)
(* removes the entry whatever else names it; the descriptor itself goes    *)
(* when the last reference does.  A local listener also owns a path.       *)
(*                                                                         *)
(* One stream has a peer that may send a byte; datagrams are their sizes.  *)
(***************************************************************************)
EXTENDS Naturals, FiniteSets

CONSTANTS
  Threads, Values,
  Sockets,       \* the handles in the order they are given
  SocketKinds,   \* the kinds a program uses
  MaxCalls, MaxDatagram   \* bounds: calls that start, the size of a datagram

ASSUME SocketsAssumption ==
  /\ Sockets \subseteq Nat \ {0} /\ IsFiniteSet(Values) /\ "none" \notin Threads
  /\ MaxDatagram \in Nat \ {0}

VARIABLES
  kind,     \* the kind of each socket created, or "free"
  mapped,   \* the handle is in its table
  names,    \* the entry's count
  value,    \* the handle in each Mux value, 0 for none
  busy,     \* what each thread is doing, and to which socket
  lock,     \* the thread that holds each socket's mutex, or "none"
  mode,     \* "blocking", "nonblocking" or "timeout"
  shut,     \* the directions shut down
  inbox,    \* what waits to be read: a number of bytes, or a datagram's size
  path,     \* the path of the local listener exists
  datagram, \* the last datagram received: its size, what was kept, the flag
  calls

socketVars == <<kind, mapped, names, value, busy, lock, mode, shut, inbox, path, datagram, calls>>
table == <<kind, mapped, names, value>>
os    == <<mode, shut, inbox, path, datagram>>

Idle == [op |-> "idle", s |-> 0, v |-> 0]
Streams == {"tcp", "local"}
Listeners == {"tcplistener", "locallistener"}
Nobody == "none"
NoDatagram == [size |-> 0, kept |-> 0, truncated |-> FALSE]

SocketInit ==
  /\ kind = [s \in Sockets |-> "free"] /\ mapped = [s \in Sockets |-> FALSE]
  /\ names = [s \in Sockets |-> 0] /\ value = [v \in Values |-> 0]
  /\ busy = [t \in Threads |-> Idle] /\ lock = [s \in Sockets |-> Nobody]
  /\ mode = [s \in Sockets |-> "blocking"] /\ shut = [s \in Sockets |-> {}]
  /\ inbox = [s \in Sockets |-> 0] /\ path = FALSE /\ datagram = NoDatagram /\ calls = 0

Call(t) == busy[t] = Idle /\ calls < MaxCalls /\ calls' = calls + 1

\* Threads that hold a reference to the socket outside the table.
Users(s) == {t \in Threads : busy[t].s = s /\ busy[t].op # "unlink"}
IsOpen(s) == mapped[s] \/ Users(s) # {}

\* The value belongs to one thread at a time: nobody else is using it.
Own(t, v) == \A u \in Threads \ {t} : busy[u].v # v

insert_socket(s, v, k) ==
  /\ kind[s] = "free"
  /\ \A r \in Sockets : r < s => kind[r] # "free"
  /\ kind' = [kind EXCEPT ![s] = k] /\ mapped' = [mapped EXCEPT ![s] = TRUE]
  /\ names' = [names EXCEPT ![s] = 1] /\ value' = [value EXCEPT ![v] = s]

Open(t, v, k) ==
  /\ Call(t) /\ value[v] = 0 /\ Own(t, v)
  /\ k \in SocketKinds /\ \E s \in Sockets : insert_socket(s, v, k)
  /\ UNCHANGED <<busy, lock, mode, shut, inbox, datagram>>

tcp_connect(t, v) == Open(t, v, "tcp") /\ UNCHANGED path
tcp_listener_bind(t, v) == Open(t, v, "tcplistener") /\ UNCHANGED path
udp_bind(t, v) == Open(t, v, "udp") /\ UNCHANGED path
local_connect(t, v) == path /\ Open(t, v, "local") /\ UNCHANGED path
\* A path that exists cannot be bound.
local_listener_bind(t, v) == ~path /\ Open(t, v, "locallistener") /\ path' = TRUE

copy_socket_handle_uncounted(t, v, w) ==
  /\ Call(t) /\ value[v] # 0 /\ value[w] = 0 /\ Own(t, w)
  /\ IF mapped[value[v]] THEN value' = [value EXCEPT ![w] = value[v]] ELSE UNCHANGED value
  /\ UNCHANGED <<kind, mapped, names, busy, lock, os>>

\* A handle whose entry is gone copies as zero.
copy_socket_handle(t, v, w) ==
  /\ Call(t) /\ value[v] # 0 /\ value[w] = 0 /\ Own(t, w)
  /\ IF mapped[value[v]]
     THEN /\ names' = [names EXCEPT ![value[v]] = @ + 1]
          /\ value' = [value EXCEPT ![w] = value[v]]
     ELSE UNCHANGED <<names, value>>
  /\ UNCHANGED <<kind, mapped, busy, lock, os>>

\* The last name of a local listener takes its path with it, under the table's lock.
release_socket(t, v) ==
  /\ busy[t] = Idle /\ value[v] # 0 /\ Own(t, v)
  /\ LET s == value[v] IN
       /\ names' = [names EXCEPT ![s] = IF mapped[s] THEN @ - 1 ELSE @]
       /\ mapped' = [mapped EXCEPT ![s] = @ /\ names[s] # 1]
       /\ path' = (path /\ ~(kind[s] = "locallistener" /\ mapped[s] /\ names[s] = 1))
  /\ value' = [value EXCEPT ![v] = 0]
  /\ UNCHANGED <<kind, busy, lock, mode, shut, inbox, datagram, calls>>

Unlinks_never(s) == FALSE
Unlinks(s) == kind[s] = "locallistener"

\* close: the entry goes whatever else names it; a listener's path goes afterwards.
remove_socket(t, v) ==
  /\ busy[t] = Idle /\ value[v] # 0
  /\ LET s == value[v] IN
       /\ mapped' = [mapped EXCEPT ![s] = FALSE]
       /\ names' = [names EXCEPT ![s] = 0]
       /\ busy' = IF mapped[s] /\ Unlinks(s)
                THEN [busy EXCEPT ![t] = [op |-> "unlink", s |-> s, v |-> v]] ELSE busy
  /\ value' = [value EXCEPT ![v] = 0]
  /\ UNCHANGED <<kind, lock, os, calls>>

UnlinkPath(t) ==
  /\ busy[t].op = "unlink"
  /\ path' = FALSE /\ busy' = [busy EXCEPT ![t] = Idle]
  /\ UNCHANGED <<table, lock, mode, shut, inbox, datagram, calls>>

(***************************************************************************)
(* with_socket: look up, lock, call, unlock.                               *)
(***************************************************************************)
OpsOf(k) ==
  CASE k \in Streams -> {"read", "write", "set_nonblocking", "set_timeout", "option",
                         "shutdown_read", "shutdown_write"}
    [] k = "udp" -> {"recv_from", "send_to", "set_nonblocking", "set_timeout", "option",
                     "multicast4", "multicast6"}
    [] k \in Listeners -> {"accept", "set_nonblocking"} \cup IF k = "tcplistener" THEN {"option"} ELSE {}
    [] OTHER -> {}

\* A handle that is not in the table is refused.
with_socket(t, v, op) ==
  /\ Call(t) /\ value[v] # 0 /\ mapped[value[v]]
  /\ op \in OpsOf(kind[value[v]])
  /\ busy' = [busy EXCEPT ![t] = [op |-> op, s |-> value[v], v |-> v]]
  /\ UNCHANGED <<table, lock, os>>

Lock(t) ==
  /\ busy[t].op \notin {"idle", "unlink"} /\ lock[busy[t].s] = Nobody
  /\ lock' = [lock EXCEPT ![busy[t].s] = t]
  /\ UNCHANGED <<table, busy, os, calls>>

Holding(t, op, ks) == busy[t].op = op /\ lock[busy[t].s] = t /\ kind[busy[t].s] \in ks
Release(t) ==
  /\ busy' = [busy EXCEPT ![t] = Idle]
  /\ lock' = [lock EXCEPT ![busy[t].s] = Nobody]

\* Bytes, the end of the stream, or an error; in blocking mode it waits for one of them.
Read(t, k) ==
  /\ Holding(t, "read", {k})
  /\ LET s == busy[t].s IN
       /\ inbox[s] > 0 \/ "read" \in shut[s] \/ mode[s] # "blocking"
       /\ inbox' = [inbox EXCEPT ![s] = IF @ > 0 THEN @ - 1 ELSE @]
  /\ Release(t)
  /\ UNCHANGED <<table, mode, shut, path, datagram, calls>>

tcp_read(t) == Read(t, "tcp")
local_read(t) == Read(t, "local")

\* Calls that leave nothing behind that matters here: they wait for the mutex and give
\* it back.
Quick(t, op, ks) == Holding(t, op, ks) /\ Release(t) /\ UNCHANGED <<table, os, calls>>

\* The kernel takes what fits; the count says how much.
tcp_write(t) == Quick(t, "write", {"tcp"})
local_write(t) == Quick(t, "write", {"local"})
send_to(t) == Quick(t, "send_to", {"udp"})

SetNonblocking(t, ks) ==
  /\ Holding(t, "set_nonblocking", ks)
  /\ \E m \in {"blocking", "nonblocking"} : mode' = [mode EXCEPT ![busy[t].s] = m]
  /\ Release(t) /\ UNCHANGED <<table, shut, inbox, path, datagram, calls>>

tcp_set_nonblocking(t) == SetNonblocking(t, {"tcp"})
tcp_listener_set_nonblocking(t) == SetNonblocking(t, {"tcplistener"})
udp_set_nonblocking(t) == SetNonblocking(t, {"udp"})
local_set_nonblocking(t) == SetNonblocking(t, {"local", "locallistener"})

\* A read timeout: a negative one is refused, zero clears it.
SetReadTimeout(t, ks) ==
  /\ Holding(t, "set_timeout", ks)
  /\ \E m \in {"blocking", "timeout"} :
       mode' = [mode EXCEPT ![busy[t].s] = IF @ = "nonblocking" THEN @ ELSE m]
  /\ Release(t) /\ UNCHANGED <<table, shut, inbox, path, datagram, calls>>

tcp_set_read_timeout(t) == SetReadTimeout(t, {"tcp"})
udp_set_read_timeout(t) == SetReadTimeout(t, {"udp"})
local_set_read_timeout(t) == SetReadTimeout(t, {"local"})

\* nodelay, keepalive, buffer sizes and ttl
tcp_options(t) == Quick(t, "option", {"tcp"})
tcp_listener_local_addr(t) == Quick(t, "option", {"tcplistener"})
\* the write timeout
local_options(t) == Quick(t, "option", {"local"})
\* write timeout, ttl, buffer sizes, broadcast
udp_options(t) == Quick(t, "option", {"udp"})
\* loop, ttl, join and leave, for either address family
udp_multicast_v4(t) == Quick(t, "multicast4", {"udp"})
udp_multicast_v6(t) == Quick(t, "multicast6", {"udp"})

\* Shutting down a side that is down already is no error.
Shutdown(t, side, k) ==
  /\ Holding(t, IF side = "read" THEN "shutdown_read" ELSE "shutdown_write", {k})
  /\ shut' = [shut EXCEPT ![busy[t].s] = @ \cup {side}]
  /\ Release(t) /\ UNCHANGED <<table, mode, inbox, path, datagram, calls>>

tcp_shutdown(t, side) == Shutdown(t, side, "tcp")
local_shutdown(t, side) == Shutdown(t, side, "local")

Smaller(a, b) == IF a < b THEN a ELSE b

Datagram_atLimit(got, size) ==
  [size |-> got, kept |-> Smaller(got, size), truncated |-> got >= size]

\* The whole datagram is received and cut to the size asked for.
Datagram(got, size) ==
  [size |-> got, kept |-> Smaller(got, size), truncated |-> got > size]

recv_from(t, size) ==
  /\ Holding(t, "recv_from", {"udp"})
  /\ LET s == busy[t].s IN
       \/ /\ inbox[s] > 0
          /\ datagram' = Datagram(inbox[s], size)
          /\ inbox' = [inbox EXCEPT ![s] = 0]
       \/ inbox[s] = 0 /\ mode[s] # "blocking" /\ UNCHANGED <<datagram, inbox>>
  /\ Release(t) /\ UNCHANGED <<table, mode, shut, path, calls>>

\* A connection becomes a stream of its own, in a value that is free.
AcceptFrom(t, v, k, stream) ==
  /\ Holding(t, "accept", {k})
  /\ LET s == busy[t].s IN
       \/ /\ inbox[s] > 0 /\ value[v] = 0 /\ Own(t, v)
          /\ inbox' = [inbox EXCEPT ![s] = @ - 1]
          /\ \E n \in Sockets : insert_socket(n, v, stream)
       \/ mode[s] # "blocking" /\ UNCHANGED <<inbox, table>>
  /\ Release(t)
  /\ UNCHANGED <<mode, shut, path, datagram, calls>>

tcp_listener_accept(t, v) == AcceptFrom(t, v, "tcplistener", "tcp")
local_listener_accept(t, v) == AcceptFrom(t, v, "locallistener", "local")

\* The other side: a byte, a connection, a datagram.
Arrives(s) ==
  /\ kind[s] # "free" /\ IsOpen(s) /\ inbox[s] = 0
  /\ \E n \in 1..(IF kind[s] = "udp" THEN MaxDatagram ELSE 1) : inbox' = [inbox EXCEPT ![s] = n]
  /\ UNCHANGED <<table, busy, lock, mode, shut, path, datagram, calls>>

SocketNext ==
  \/ \E t \in Threads :
       \/ UnlinkPath(t) \/ Lock(t)
       \/ tcp_read(t) \/ tcp_write(t) \/ local_read(t) \/ local_write(t) \/ send_to(t)
       \/ tcp_set_nonblocking(t) \/ tcp_listener_set_nonblocking(t)
       \/ udp_set_nonblocking(t) \/ local_set_nonblocking(t)
       \/ tcp_set_read_timeout(t) \/ udp_set_read_timeout(t) \/ local_set_read_timeout(t)
       \/ tcp_options(t) \/ tcp_listener_local_addr(t) \/ local_options(t) \/ udp_options(t)
       \/ udp_multicast_v4(t) \/ udp_multicast_v6(t)
       \/ \E side \in {"read", "write"} : tcp_shutdown(t, side) \/ local_shutdown(t, side)
       \/ \E size \in 1..MaxDatagram : recv_from(t, size)
       \/ \E v \in Values :
            \/ release_socket(t, v) \/ remove_socket(t, v)
            \/ tcp_listener_accept(t, v) \/ local_listener_accept(t, v)
            \/ tcp_connect(t, v) \/ tcp_listener_bind(t, v) \/ udp_bind(t, v)
            \/ local_connect(t, v) \/ local_listener_bind(t, v)
            \/ \E w \in Values : copy_socket_handle(t, v, w)
            \/ \E op \in UNION {OpsOf(k) : k \in SocketKinds} : with_socket(t, v, op)
  \/ \E s \in Sockets : Arrives(s)

SocketSpec == SocketInit /\ [][SocketNext]_socketVars

(***************************************************************************)
(* Properties                                                              *)
(***************************************************************************)

SocketTypeOK ==
  /\ mapped \in [Sockets -> BOOLEAN] /\ names \in [Sockets -> Nat] /\ path \in BOOLEAN
  /\ value \in [Values -> Sockets \cup {0}] /\ lock \in [Sockets -> Threads \cup {Nobody}]
  /\ mode \in [Sockets -> {"blocking", "nonblocking", "timeout"}]
  /\ shut \in [Sockets -> SUBSET {"read", "write"}] /\ inbox \in [Sockets -> Nat]

\* The count of a socket in its table is the number of values that name it, so it is
\* closed by the last of them, and not before; a socket held by a call in progress
\* outlives its entry, and its mutex is held by a thread that is using it.
SocketNamesExact ==
  \A s \in Sockets :
    /\ mapped[s] => names[s] = Cardinality({v \in Values : value[v] = s}) /\ names[s] > 0
    /\ lock[s] # Nobody => lock[s] \in Users(s)

\* The path of a local listener exists exactly while the listener is in the table or is
\* being closed, so that it can be bound again once close has returned.
PathFollowsListener ==
  path <=> \/ \E s \in Sockets : kind[s] = "locallistener" /\ mapped[s]
           \/ \E t \in Threads : busy[t].op = "unlink"

\* A datagram is marked truncated exactly when part of it was lost.
TruncationTold == datagram.truncated <=> datagram.kept < datagram.size

\* Sockets live as long as values name them, a local listener's path as long as the
\* listener, and a datagram that lost a part says so.
SocketsSound == SocketTypeOK /\ SocketNamesExact /\ PathFollowsListener /\ TruncationTold
=============================================================================
