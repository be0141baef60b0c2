------------------------------- MODULE Channel -------------------------------
(***************************************************************************)
(* std.sync channels: a standard-library mpsc queue whose sending half is  *)
(* cloned for every send and taken away by close, whose receiving half     *)
(* sits behind a mutex that a receiver keeps while it waits, and a         *)
(* `closed` flag that select looks at before it takes that mutex.          *)
(*                                                                         *)
(* The queue itself is external: a clone of the sender can push, a         *)
(* receiver can pop, and a receiver learns of the end when the queue is    *)
(* empty and no sender is left.                                            *)
(***************************************************************************)
EXTENDS Naturals, Sequences, FiniteSets

CONSTANTS
  Threads,     \* threads that use the channels
  ChanCount,   \* how many channels there are; the list<Channel> given to select
               \* holds them in the order 1, 2, ...
  Unbounded,   \* channels made by mux_channel_new_unbounded
  capacity,    \* capacity of the bounded ones
  Msgs,        \* messages; each is sent at most once
  Calls,       \* the calls the threads make
  MaxCalls,    \* bound: calls in all
  None         \* no channel, no message

ASSUME ChannelAssumption == ChanCount \in Nat /\ MaxCalls \in Nat

Chans == 1..ChanCount
SendCalls == {"send", "try_send", "send_timeout", "send_cancelled"}
RecvCalls == {"recv", "try_recv", "recv_timeout", "recv_cancelled"}

VARIABLES
  buf,        \* the mpsc queue of each channel
  open,       \* ChannelEntry.sender is Some
  closed,     \* ChannelEntry.closed
  rlock,      \* owner of ChannelEntry.receiver's mutex
  cancelled,  \* CancellationEntry.cancelled
  pc,         \* where each thread is
  call,       \* the call a thread is in
  chan,       \* its channel
  msg,        \* the message it sends
  pos,        \* select: position in the list
  live,       \* select: a channel of this pass was not closed
  calls,      \* calls begun
  result,     \* history: what the sender of a message was told
  got,        \* history: messages that were received
  late,       \* history: messages whose send began after close returned
  ended,      \* history: channels some receiver saw the end of
  ready       \* history: channels ready since select began, undisturbed

chanVars == <<buf, open, closed, rlock, cancelled>>
callVars == <<call, chan, msg, calls>>
hist == <<result, got, late, ended, ready>>
vars == <<chanVars, pc, callVars, pos, live, hist>>

States ==
  {"idle", "check", "clone", "push", "lock", "look", "recv", "scan", "poll", "take"}

(* Every variable has its type. *)
TypeOK ==
  /\ buf \in [Chans -> Seq(Msgs)]
  /\ open \in [Chans -> BOOLEAN] /\ closed \in [Chans -> BOOLEAN]
  /\ rlock \in [Chans -> Threads \cup {None}]
  /\ cancelled \in BOOLEAN
  /\ pc \in [Threads -> States]
  /\ call \in [Threads -> SendCalls \cup RecvCalls \cup {"select", "close", "cancel"}]
  /\ chan \in [Threads -> Chans \cup {None}]
  /\ msg \in [Threads -> Msgs \cup {None}]
  /\ pos \in [Threads -> 1..ChanCount + 1]
  /\ live \in [Threads -> BOOLEAN]
  /\ calls \in 0..MaxCalls
  /\ result \in [Msgs -> {"none", "sending", "sent", "refused"}]
  /\ got \subseteq Msgs /\ late \subseteq Msgs /\ ended \subseteq Chans
  /\ ready \in [Threads -> SUBSET Chans]

-----------------------------------------------------------------------------
Goto(t, where) == pc' = [pc EXCEPT ![t] = where]

(* Clones of the sender that are still around: one per thread in a push. *)
Clones(ch) == {t \in Threads : pc[t] = "push" /\ chan[t] = ch}
HasRoom(ch) == ch \in Unbounded \/ Len(buf[ch]) < capacity
Disconnected(ch) == ~open[ch] /\ Clones(ch) = {}

(* A call returns. *)
Return(t) ==
  /\ Goto(t, "idle")
  /\ chan' = [chan EXCEPT ![t] = None]
  /\ msg' = [msg EXCEPT ![t] = None]
  /\ call' = [call EXCEPT ![t] = "close"]
  /\ pos' = [pos EXCEPT ![t] = 1]
  /\ live' = [live EXCEPT ![t] = FALSE]
  /\ UNCHANGED calls

(* A channel that is emptied or closed is no longer ready for any select. *)
Disturb(ch) == ready' = [u \in Threads |-> ready[u] \ {ch}]

Begin(t, what) ==
  /\ what \in Calls
  /\ pc[t] = "idle" /\ calls < MaxCalls
  /\ calls' = calls + 1
  /\ call' = [call EXCEPT ![t] = what]

-----------------------------------------------------------------------------
(* Sending *)

(* send, try_send, send_timeout, send_cancelled: the payload is sendable. *)
BeginSend(t, ch, m, what) ==
  /\ Begin(t, what) /\ what \in SendCalls
  /\ result[m] = "none"
  /\ result' = [result EXCEPT ![m] = "sending"]
  /\ late' = IF open[ch] THEN late ELSE late \cup {m}
  /\ chan' = [chan EXCEPT ![t] = ch]
  /\ msg' = [msg EXCEPT ![t] = m]
  /\ Goto(t, IF what = "send_cancelled" THEN "check" ELSE "clone")
  /\ UNCHANGED <<chanVars, pos, live, got, ended, ready>>

Refuse(t) ==
  /\ result' = [result EXCEPT ![msg[t]] = "refused"]
  /\ Return(t)
  /\ UNCHANGED <<chanVars, got, late, ended, ready>>

(* send_cancelled looks at its token, every time round ... *)
FindsCancelled(t) == pc[t] = "check" /\ cancelled /\ Refuse(t)

NotCancelled(t) ==
  /\ pc[t] = "check" /\ ~cancelled
  /\ Goto(t, "clone")
  /\ UNCHANGED <<chanVars, callVars, pos, live, hist>>

(* ... and only then does it ask for the sender. *)
NoSender(t) == pc[t] = "clone" /\ ~open[chan[t]] /\ Refuse(t)

(* Mutant: the sender is not asked for again. *)
CloneSender_always(t) ==
  /\ pc[t] = "clone"
  /\ Goto(t, "push")
  /\ UNCHANGED <<chanVars, callVars, pos, live, hist>>

CloneSender(t) ==
  /\ pc[t] = "clone" /\ open[chan[t]]
  /\ Goto(t, "push")
  /\ UNCHANGED <<chanVars, callVars, pos, live, hist>>

PushTo(t) ==
  /\ buf' = [buf EXCEPT ![chan[t]] = Append(@, msg[t])]
  /\ result' = [result EXCEPT ![msg[t]] = "sent"]
  /\ Return(t)
  /\ UNCHANGED <<open, closed, rlock, cancelled, got, late, ended, ready>>

(* Mutant: send_timeout goes round its loop once more after a success. *)
Push_again(t) ==
  /\ pc[t] = "push" /\ HasRoom(chan[t])
  /\ IF call[t] = "send_timeout"
     THEN /\ buf' = [buf EXCEPT ![chan[t]] = Append(@, msg[t])]
          /\ result' = [result EXCEPT ![msg[t]] = "sent"]
          /\ UNCHANGED <<open, closed, rlock, cancelled, pc, callVars, pos, live,
                         got, late, ended, ready>>
     ELSE PushTo(t)

(* Sender::send, SyncSender::send or try_send with room; a blocked send     *)
(* waits for it.                                                            *)
Push(t) == pc[t] = "push" /\ HasRoom(chan[t]) /\ PushTo(t)

(* Full: try_send and, past its deadline, send_timeout return false ... *)
FindsFull(t) ==
  /\ pc[t] = "push" /\ ~HasRoom(chan[t])
  /\ call[t] \in {"try_send", "send_timeout"}
  /\ Refuse(t)

(* ... send_cancelled drops its clone and starts over. *)
CancelledRetry(t) ==
  /\ pc[t] = "push" /\ ~HasRoom(chan[t]) /\ call[t] = "send_cancelled"
  /\ Goto(t, "check")
  /\ UNCHANGED <<chanVars, callVars, pos, live, hist>>

-----------------------------------------------------------------------------
(* Receiving *)

BeginRecv(t, ch, what) ==
  /\ Begin(t, what) /\ what \in RecvCalls
  /\ chan' = [chan EXCEPT ![t] = ch]
  /\ Goto(t, "lock")
  /\ UNCHANGED <<chanVars, msg, pos, live, hist>>

(* The receiver's mutex is kept for the whole wait. *)
LockReceiver(t) ==
  /\ pc[t] = "lock" /\ rlock[chan[t]] = None
  /\ rlock' = [rlock EXCEPT ![chan[t]] = t]
  /\ Goto(t, IF call[t] = "recv_cancelled" THEN "look" ELSE "recv")
  /\ UNCHANGED <<buf, open, closed, cancelled, callVars, pos, live, hist>>

(* recv_cancelled looks at its token first, every time round. *)
Looks(t) ==
  /\ pc[t] = "look" /\ ~cancelled
  /\ Goto(t, "recv")
  /\ UNCHANGED <<chanVars, callVars, pos, live, hist>>

Receive(t) ==
  LET ch == chan[t] IN
  /\ pc[t] = "recv" /\ buf[ch] # <<>>
  /\ buf' = [buf EXCEPT ![ch] = Tail(@)]
  /\ got' = got \cup {Head(buf[ch])}
  /\ rlock' = [rlock EXCEPT ![ch] = None]
  /\ Disturb(ch)
  /\ Return(t)
  /\ UNCHANGED <<open, closed, cancelled, result, late, ended>>

(* Mutant: an empty queue is taken for the end while a send is under way. *)
SeesEnd_early(t) ==
  LET ch == chan[t] IN
  /\ pc[t] = "recv" /\ buf[ch] = <<>> /\ ~open[ch]
  /\ closed' = [closed EXCEPT ![ch] = TRUE]
  /\ ended' = ended \cup {ch}
  /\ rlock' = [rlock EXCEPT ![ch] = None]
  /\ Return(t)
  /\ UNCHANGED <<buf, open, cancelled, result, got, late, ready>>

SeesEnd(t) ==
  LET ch == chan[t] IN
  /\ pc[t] = "recv" /\ buf[ch] = <<>> /\ Disconnected(ch)
  /\ closed' = [closed EXCEPT ![ch] = TRUE]
  /\ ended' = ended \cup {ch}
  /\ rlock' = [rlock EXCEPT ![ch] = None]
  /\ Return(t)
  /\ UNCHANGED <<buf, open, cancelled, result, got, late, ready>>

(* Mutant: a receiver that gives up keeps the mutex. *)
GiveUp_locked(t) ==
  LET ch == chan[t] IN
  /\ \/ /\ pc[t] = "recv" /\ buf[ch] = <<>> /\ ~Disconnected(ch)
        /\ call[t] \in {"try_recv", "recv_timeout"}
     \/ pc[t] = "look" /\ cancelled
  /\ Return(t)
  /\ UNCHANGED <<chanVars, hist>>

(* Nothing there: try_recv, recv_timeout past its deadline, or cancelled. *)
GiveUp(t) ==
  LET ch == chan[t] IN
  /\ \/ /\ pc[t] = "recv" /\ buf[ch] = <<>> /\ ~Disconnected(ch)
        /\ call[t] \in {"try_recv", "recv_timeout"}
     \/ pc[t] = "look" /\ cancelled
  /\ rlock' = [rlock EXCEPT ![ch] = None]
  /\ Return(t)
  /\ UNCHANGED <<buf, open, closed, cancelled, hist>>

(* The millisecond of a recv_cancelled is over. *)
LookAgain(t) ==
  /\ pc[t] = "recv" /\ call[t] = "recv_cancelled"
  /\ buf[chan[t]] = <<>> /\ ~Disconnected(chan[t])
  /\ Goto(t, "look")
  /\ UNCHANGED <<chanVars, callVars, pos, live, hist>>

-----------------------------------------------------------------------------
(* select *)

Here(t) == pos[t]

BeginSelect(t) ==
  /\ Begin(t, "select")
  /\ pos' = [pos EXCEPT ![t] = 1]
  /\ live' = [live EXCEPT ![t] = FALSE]
  /\ ready' = [ready EXCEPT ![t] = {ch \in Chans : buf[ch] # <<>> /\ ~closed[ch]}]
  /\ Goto(t, "scan")
  /\ UNCHANGED <<chanVars, chan, msg, result, got, late, ended>>

Advance(t) == pos' = [pos EXCEPT ![t] = @ + 1]

(* Mutant: a closed channel is left out of the scan and ends the pass. *)
SkipClosed_ends(t) ==
  /\ pc[t] = "scan" /\ pos[t] <= ChanCount /\ closed[Here(t)]
  /\ pos' = [pos EXCEPT ![t] = ChanCount + 1]
  /\ UNCHANGED <<chanVars, pc, callVars, live, hist>>

(* Closed channels are skipped, also those with messages left in them. *)
SkipClosed(t) ==
  /\ pc[t] = "scan" /\ pos[t] <= ChanCount /\ closed[Here(t)]
  /\ Advance(t)
  /\ UNCHANGED <<chanVars, pc, callVars, live, hist>>

FindsLive(t) ==
  /\ pc[t] = "scan" /\ pos[t] <= ChanCount /\ ~closed[Here(t)]
  /\ live' = [live EXCEPT ![t] = TRUE]
  /\ Goto(t, "poll")
  /\ UNCHANGED <<chanVars, callVars, pos, hist>>

(* lock(&entry.receiver), try_recv and the unlock, in one step. *)
PollTakes(t) ==
  LET ch == Here(t) IN
  /\ pc[t] = "poll" /\ rlock[ch] = None /\ buf[ch] # <<>>
  /\ buf' = [buf EXCEPT ![ch] = Tail(@)]
  /\ got' = got \cup {Head(buf[ch])}
  /\ ready' = [u \in Threads |-> IF u = t THEN {} ELSE ready[u] \ {ch}]
  /\ Return(t)
  /\ UNCHANGED <<open, closed, rlock, cancelled, result, late, ended>>

PollEmpty(t) ==
  LET ch == Here(t) IN
  /\ pc[t] = "poll" /\ rlock[ch] = None /\ buf[ch] = <<>>
  /\ IF Disconnected(ch)
     THEN closed' = [closed EXCEPT ![ch] = TRUE] /\ ended' = ended \cup {ch}
     ELSE UNCHANGED <<closed, ended>>
  /\ Advance(t)
  /\ Goto(t, "scan")
  /\ UNCHANGED <<buf, open, rlock, cancelled, callVars, live, result, got, late, ready>>

(* The end of a pass: every channel closed, or the deadline is over ... *)
SelectNone(t) ==
  /\ pc[t] = "scan" /\ pos[t] > ChanCount
  /\ ready' = [ready EXCEPT ![t] = {}]
  /\ Return(t)
  /\ UNCHANGED <<chanVars, result, got, late, ended>>

(* ... or once more after a millisecond. *)
SelectAgain(t) ==
  /\ pc[t] = "scan" /\ pos[t] > ChanCount /\ live[t]
  /\ pos' = [pos EXCEPT ![t] = 1]
  /\ live' = [live EXCEPT ![t] = FALSE]
  /\ UNCHANGED <<chanVars, pc, callVars, hist>>

-----------------------------------------------------------------------------
(* close and cancel *)

(* `closed` first, then the sender. *)
BeginClose(t, ch) ==
  /\ Begin(t, "close")
  /\ closed' = [closed EXCEPT ![ch] = TRUE]
  /\ chan' = [chan EXCEPT ![t] = ch]
  /\ Disturb(ch)
  /\ Goto(t, "take")
  /\ UNCHANGED <<buf, open, rlock, cancelled, msg, pos, live, result, got, late, ended>>

TakeSender(t) ==
  /\ pc[t] = "take"
  /\ open' = [open EXCEPT ![chan[t]] = FALSE]
  /\ Return(t)
  /\ UNCHANGED <<buf, closed, rlock, cancelled, hist>>

Cancel(t) ==
  /\ Begin(t, "cancel")
  /\ cancelled' = TRUE
  /\ UNCHANGED <<buf, open, closed, rlock, pc, chan, msg, pos, live, hist>>

-----------------------------------------------------------------------------
Init ==
  /\ buf = [ch \in Chans |-> <<>>]
  /\ open = [ch \in Chans |-> TRUE] /\ closed = [ch \in Chans |-> FALSE]
  /\ rlock = [ch \in Chans |-> None]
  /\ cancelled = FALSE
  /\ pc = [t \in Threads |-> "idle"]
  /\ call = [t \in Threads |-> "close"]
  /\ chan = [t \in Threads |-> None] /\ msg = [t \in Threads |-> None]
  /\ pos = [t \in Threads |-> 1] /\ live = [t \in Threads |-> FALSE]
  /\ calls = 0
  /\ result = [m \in Msgs |-> "none"]
  /\ got = {} /\ late = {} /\ ended = {}
  /\ ready = [t \in Threads |-> {}]

(* What a thread does inside a call. *)
Step(t) ==
  \/ FindsCancelled(t) \/ NotCancelled(t) \/ NoSender(t) \/ CloneSender(t)
  \/ Push(t) \/ FindsFull(t) \/ CancelledRetry(t)
  \/ LockReceiver(t) \/ Looks(t) \/ Receive(t) \/ SeesEnd(t)
  \/ GiveUp(t) \/ LookAgain(t)
  \/ SkipClosed(t) \/ FindsLive(t) \/ PollTakes(t) \/ PollEmpty(t)
  \/ SelectNone(t) \/ SelectAgain(t) \/ TakeSender(t)

Next ==
  \E t \in Threads :
    \/ \E ch \in Chans, m \in Msgs, what \in SendCalls : BeginSend(t, ch, m, what)
    \/ \E ch \in Chans, what \in RecvCalls : BeginRecv(t, ch, what)
    \/ BeginSelect(t)
    \/ \E ch \in Chans : BeginClose(t, ch)
    \/ Cancel(t)
    \/ Step(t)

Spec == Init /\ [][Next]_vars

(* Threads that can run do; the deadline of a select that polls again and    *)
(* again is reached.                                                         *)
FairSpec ==
  Spec /\ \A t \in Threads : WF_vars(Step(t)) /\ SF_vars(SelectNone(t))

-----------------------------------------------------------------------------
InQueue(m) == \E ch \in Chans : \E i \in 1..Len(buf[ch]) : buf[ch][i] = m

(* What a send reports is what happened to its message: after `ok` or true   *)
(* the message is in a queue or was received, never both; after false or an  *)
(* error (full, past the deadline, cancelled, closed) nobody ever sees it.   *)
SendsTruthful ==
  \A m \in Msgs :
    /\ result[m] = "sent" => (InQueue(m) <=> m \notin got)
    /\ result[m] # "sent" => ~InQueue(m) /\ m \notin got

(* A send that begins after close has returned delivers nothing, although    *)
(* senders cloned before the close go on pushing.                            *)
LateSendsRefused == \A m \in late : ~InQueue(m) /\ m \notin got

(* `none` for a closed channel is final: once a receiver has seen the end of *)
(* a channel its queue is empty and stays so, no clone of the sender is      *)
(* left, and the flag that the receiver stores was set by close already.     *)
EndIsFinal ==
  \A ch \in ended :
    closed[ch] /\ buf[ch] = <<>> /\ Disconnected(ch)

(* What a program sees of a channel is true: a send tells what became of its *)
(* message, one that begins after close delivers nothing, and the end of a   *)
(* channel is final.                                                         *)
ChannelTruthful == TypeOK /\ SendsTruthful /\ LateSendsRefused /\ EndIsFinal

(* select honours the order of its list: it returns neither a later channel  *)
(* nor `none` past one that held a message from before the call until now.   *)
SelectStep ==
  \A t \in Threads :
    (pc[t] \in {"scan", "poll"} /\ pc'[t] = "idle")
      => \A i \in 1..pos[t] - 1 : i \notin ready[t]
SelectInOrder == [][SelectStep]_vars

(* Closing a channel releases everyone who waits to receive from it, once    *)
(* the messages already accepted, and those of senders still pushing, have   *)
(* been handed out.                                                          *)
Outlived(t) == pc[t] \in {"lock", "look", "recv"} /\ ~open[chan[t]]
Returned(t) == pc[t] = "idle"

(* The documentation of select says that its timeout bounds the polling      *)
(* loop: every select returns.                                               *)
SelectBounded ==
  \A t \in Threads : (pc[t] \in {"scan", "poll"}) ~> pc[t] = "idle"
=============================================================================
