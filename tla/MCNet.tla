------------------------------- MODULE MCNet --------------------------------
(***************************************************************************)
(* What travels on the network: a server's pool of workers and its serving *)
(* loop, the readers of requests and WebSocket frames, the HTTP client,    *)
(* messages, sockets and OAuth keys.  Init picks the component and only    *)
(* that one moves; x1, x2, ... are its variables.                          *)
(***************************************************************************)
EXTENDS HttpServerPool, HttpClient, HttpMessages, OAuth, Sockets

CONSTANTS c1, c2, t1, t2, hdr1, hdr2, v1, v2, none
VARIABLES part, x1, x2, x3, x4, x5, x6, x7, x8, x9, x10, x11

\* One worker that is asked for more than comes, two that have enough to do.
MCSettings == {<<1, 3>>, <<2, 2>>}

\* Requests that differ in what the client tests, one trait at a time, and two that meet.
MCRequests ==
  {Plain, [Plain EXCEPT !.direct = TRUE], [Plain EXCEPT !.timeout = FALSE],
   [Plain EXCEPT !.https = FALSE, !.retries = 1], [Plain EXCEPT !.reader = TRUE, !.retries = 1],
   [Plain EXCEPT !.proxy = "explicit"], [Plain EXCEPT !.proxy = "environment"]}

V == INSTANCE HttpService
  WITH MaxHeaders <- 7, MaxRequests <- 1, MaxSets <- 2, config <- x1, limits <- x2, mode <- x3,
       blocking <- x4, cancelled <- x5, left <- x6, sets <- x7, pc <- x8, request <- x9,
       response <- x10, wire <- x11
ServiceInit ==
  /\ part = "service" /\ V!Init /\ Init /\ worker_count = 1 /\ ClientInit /\ MessageInit
  /\ OAuthInit /\ client.issuer = Unset /\ SocketInit
ServiceNext ==
  /\ part = "service" /\ V!Next
  /\ UNCHANGED <<part, vars, clientVars, messageVars, oauthVars, socketVars>>

Q == INSTANCE HttpRequestReader
  WITH MaxHeaderBytes <- 4, MaxBodyBytes <- 2, MaxHeaders <- 2, MaxTokens <- 7,
       MaxSegment <- 2, header <- x1, sent <- x2, ended <- x3, pc <- x4, cursor <- x5,
       body <- x6, need <- x7, trailers <- x8
RequestsInit ==
  /\ part = "requests" /\ Q!Init /\ Init /\ worker_count = 1 /\ ClientInit /\ MessageInit
  /\ OAuthInit /\ client.issuer = Unset /\ SocketInit /\ x9 = 0 /\ x10 = 0 /\ x11 = 0
RequestsNext ==
  /\ part = "requests" /\ Q!Next
  /\ UNCHANGED <<part, vars, clientVars, messageVars, oauthVars, socketVars, x9, x10, x11>>

W == INSTANCE WebSocket
  WITH DirectMax <- 0, ShortMax <- 1, MaxBytes <- 2, ControlMax <- 1, MaxFrames <- 4,
       mode <- x1, frame <- x2, heard <- x3, fragments <- x4, receiving <- x5, state <- x6,
       messages <- x7, answers <- x8, from <- x9
FramesInit ==
  /\ part = "frames" /\ W!Init /\ Init /\ worker_count = 1 /\ ClientInit /\ MessageInit
  /\ OAuthInit /\ client.issuer = Unset /\ SocketInit /\ x10 = 0 /\ x11 = 0
FramesNext ==
  /\ part = "frames" /\ W!Next
  /\ UNCHANGED <<part, vars, clientVars, messageVars, oauthVars, socketVars, x10, x11>>

PoolInit ==
  /\ part = "pool" /\ Init /\ ClientInit /\ MessageInit /\ OAuthInit /\ client.issuer = Unset
  /\ SocketInit /\ x1 = 0 /\ x2 = 0 /\ x3 = 0 /\ x4 = 0 /\ x5 = 0 /\ x6 = 0 /\ x7 = 0 /\ x8 = 0
  /\ x9 = 0 /\ x10 = 0 /\ x11 = 0
PoolNext ==
  /\ part = "pool" /\ Next
  /\ UNCHANGED <<part, clientVars, messageVars, oauthVars, socketVars, x1, x2, x3, x4, x5, x6,
                x7, x8, x9, x10, x11>>

ExchangeInit ==
  /\ part = "exchange" /\ ClientInit /\ Init /\ worker_count = 1 /\ MessageInit
  /\ OAuthInit /\ client.issuer = Unset /\ SocketInit /\ x1 = 0 /\ x2 = 0 /\ x3 = 0 /\ x4 = 0
  /\ x5 = 0 /\ x6 = 0 /\ x7 = 0 /\ x8 = 0 /\ x9 = 0 /\ x10 = 0 /\ x11 = 0
ExchangeNext ==
  /\ part = "exchange" /\ ClientNext
  /\ UNCHANGED <<part, vars, messageVars, oauthVars, socketVars, x1, x2, x3, x4, x5, x6, x7,
                x8, x9, x10, x11>>

MessagesInit ==
  /\ part = "messages" /\ MessageInit /\ Init /\ worker_count = 1 /\ ClientInit
  /\ OAuthInit /\ client.issuer = Unset /\ SocketInit /\ x1 = 0 /\ x2 = 0 /\ x3 = 0 /\ x4 = 0
  /\ x5 = 0 /\ x6 = 0 /\ x7 = 0 /\ x8 = 0 /\ x9 = 0 /\ x10 = 0 /\ x11 = 0
MessagesNext ==
  /\ part = "messages" /\ MessageNext
  /\ UNCHANGED <<part, vars, clientVars, oauthVars, socketVars, x1, x2, x3, x4, x5, x6, x7, x8,
                x9, x10, x11>>

TokensInit ==
  /\ part = "tokens" /\ OAuthInit /\ Init /\ worker_count = 1 /\ ClientInit /\ MessageInit
  /\ SocketInit /\ x1 = 0 /\ x2 = 0 /\ x3 = 0 /\ x4 = 0 /\ x5 = 0 /\ x6 = 0 /\ x7 = 0 /\ x8 = 0
  /\ x9 = 0 /\ x10 = 0 /\ x11 = 0
TokensNext ==
  /\ part = "tokens" /\ OAuthNext
  /\ UNCHANGED <<part, vars, clientVars, messageVars, socketVars, x1, x2, x3, x4, x5, x6, x7,
                x8, x9, x10, x11>>

SocketsInit ==
  /\ part = "sockets" /\ SocketInit /\ Init /\ worker_count = 1 /\ ClientInit /\ MessageInit
  /\ OAuthInit /\ client.issuer = Unset /\ x1 = 0 /\ x2 = 0 /\ x3 = 0 /\ x4 = 0 /\ x5 = 0
  /\ x6 = 0 /\ x7 = 0 /\ x8 = 0 /\ x9 = 0 /\ x10 = 0 /\ x11 = 0
SocketsNext ==
  /\ part = "sockets" /\ SocketNext
  /\ UNCHANGED <<part, vars, clientVars, messageVars, oauthVars, x1, x2, x3, x4, x5, x6, x7,
                x8, x9, x10, x11>>

SuiteInit == PoolInit \/ ExchangeInit \/ MessagesInit \/ TokensInit \/ SocketsInit
  \/ ServiceInit \/ RequestsInit \/ FramesInit
SuiteNext == PoolNext \/ ExchangeNext \/ MessagesNext \/ TokensNext \/ SocketsNext
  \/ ServiceNext \/ RequestsNext \/ FramesNext
suiteVars == <<part, vars, clientVars, messageVars, oauthVars, socketVars, x1, x2, x3, x4, x5,
               x6, x7, x8, x9, x10, x11>>

SuiteSpec == SuiteInit /\ [][SuiteNext]_suiteVars

\* A client takes as a response's body exactly what the server meant it to, is granted
\* only the origins of the configuration, and the listener blocks again afterwards.
ClientUnderstands ==
  part = "service" => V!ClientUnderstands /\ V!CorsSound /\ V!ListenerRestored

\* However the stream is cut, a chunked body and the frames of a message are read as they
\* were meant, and what a frame is encoded to is decoded to it.
WireReadRight ==
  /\ part = "requests" => Q!ChunkedRight
  /\ part = "frames" => W!FrameRoundTrip /\ W!MessagesWhole

=============================================================================
