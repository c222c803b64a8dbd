------------------------------ MODULE Handshake -----------------------------
(***************************************************************************)
(* How the connections of one Peer come about: Peer.connect, which shares  *)
(* an attempt among its callers, TornadoConnection.outgoing and            *)
(* initiate_handshake with its timer, TChannelServer.handle_stream and     *)
(* expect_handshake, the start of the receive loop and of serve, and       *)
(* closing at any of these moments, also of a Peer that was removed from   *)
(* its group.                                                              *)
(*                                                                         *)
(* The remote side sends what it likes.  Its messages come to the Reader   *)
(* in order (module Wire); each get takes the next.  A coroutine goes on   *)
(* in a turn of the event loop after the one in which the future it waits  *)
(* for was set, so that other things happen in between.                    *)
(***************************************************************************)
EXTENDS Naturals, Sequences, FiniteSets, SequencesExt

CONSTANTS
  MaxConns,   \* connections
  MaxCallers, \* callers of Peer.connect
  MaxItems    \* messages that the remote side sends, on all connections

ASSUME HandshakeAssumption == MaxConns \in Nat /\ MaxCallers \in Nat /\ MaxItems \in Nat

\* Both are numbered in the order in which they come.
Conns == 1 .. MaxConns
Callers == 1 .. MaxCallers
None == 0

\* What the remote side may send: the handshake message that is expected, or the same with
\* a host_port that is not a host and a number; a call; a frame that cannot be read.  In the
\* handshake a call stands for all that is not the message expected, or lacks a header.
\* What is no call is all the same to the receive loop.
Items == {"init", "malformed", "call", "bad"}
LaterItems == {"call", "bad"}

VARIABLES
  direction,   \* of each connection, "none" if it does not exist yet
  at,          \* where its coroutine is
  answer,      \* the future of the handshake's get: [result, exc]
  timer,       \* connections whose handshake timer is set
  log, read,   \* what the remote side sent on each, and how many gets were answered
  down,        \* streams that are closed
  closed,      \* connections with the flag closed
  notified,    \* connections whose _on_close has run
  close_cb,    \* connections that have a close callback
  messages,    \* queues of calls to be served
  served,      \* calls given to the handler
  connections, \* the deque of the Peer
  connecting,  \* Peer._connecting
  given,       \* what the callers of connect got: "idle", "waiting", a connection, an error
  serving,     \* connections whose serve goes on after the call it waits for
  removed,     \* the Peer was removed from its group
  jammed       \* connections whose _on_close was left by an exception

vars == <<direction, at, answer, timer, log, read, down, closed, notified, close_cb,
          messages, served, connections, connecting, given, serving, removed, jammed>>

NoAnswer == [result |-> "none", exc |-> "none"]

\* connecting: in stream.connect; shaking: in the handshake; shaken, refused: the
\* handshake is over and its caller not yet resumed; up, failed: over.
Places == {"new", "connecting", "shaking", "shaken", "refused", "up", "failed"}
Blames == {"UnexpectedError", "ReadError", "ValueError"}
Reported == {"NetworkError"} \cup Blames
Raised == {"StreamClosedError", "TimeoutError"} \cup Blames

\* The flags, queues and futures of one peer; a caller sees a connection or one of the
\* errors that outgoing lets out.
TypeOK ==
  /\ direction \in [Conns -> {"none", "in", "out"}] /\ at \in [Conns -> Places]
  /\ answer \in [Conns -> [result : Items \cup {"none"}, exc : Raised \cup {"none"}]]
  /\ timer \subseteq Conns /\ down \subseteq Conns /\ closed \subseteq Conns
  /\ notified \subseteq Conns /\ close_cb \subseteq Conns /\ serving \subseteq Conns
  /\ jammed \subseteq Conns /\ removed \in BOOLEAN
  /\ log \in [Conns -> Seq(Items)] /\ read \in [Conns -> 0 .. MaxItems]
  /\ messages \in [Conns -> Seq(1 .. MaxItems)] /\ served \in [Conns -> Seq(1 .. MaxItems)]
  /\ connections \in Seq(Conns) /\ IsInjective(connections)
  /\ connecting \in Conns \cup {None}
  /\ given \in [Callers -> {"idle", "waiting", "connection"} \cup Reported]

Init ==
  /\ direction = [c \in Conns |-> "none"] /\ at = [c \in Conns |-> "new"]
  /\ answer = [c \in Conns |-> NoAnswer]
  /\ timer = {} /\ down = {} /\ closed = {} /\ notified = {} /\ close_cb = {}
  /\ serving = {} /\ removed = FALSE /\ jammed = {}
  /\ log = [c \in Conns |-> <<>>] /\ read = [c \in Conns |-> 0]
  /\ messages = [c \in Conns |-> <<>>] /\ served = [c \in Conns |-> <<>>]
  /\ connections = <<>> /\ connecting = None
  /\ given = [k \in Callers |-> "idle"]

-----------------------------------------------------------------------------
(* Peer.connect.                                                           *)

\* An attempt is under way.
Shares == connecting # None

\* The next connection to be made.
Fresh(c) == direction[c] = "none" /\ \A d \in 1 .. c - 1 : direction[d] # "none"

\* A connection that is there, the attempt that is under way, or a new one.  What is left
\* of an attempt that is over answers at once.
Connect(k) ==
  /\ given[k] = "idle" /\ \A j \in 1 .. k - 1 : given[j] # "idle"
  /\ \/ /\ connections # <<>>
        /\ given' = [given EXCEPT ![k] = "connection"]
        /\ UNCHANGED <<direction, at, connecting>>
     \/ /\ connections = <<>> /\ Shares
        /\ given' = [given EXCEPT ![k] = IF at[connecting] = "up" THEN "connection"
                                         ELSE "waiting"]
        /\ UNCHANGED <<direction, at, connecting>>
     \/ /\ connections = <<>> /\ ~Shares
        /\ given' = [given EXCEPT ![k] = "waiting"]
        /\ \E c \in Conns :
             /\ Fresh(c)
             /\ direction' = [direction EXCEPT ![c] = "out"]
             /\ at' = [at EXCEPT ![c] = "connecting"]
             /\ connecting' = c
  /\ UNCHANGED <<answer, timer, log, read, down, closed, notified, close_cb, messages,
                 served, connections, serving, removed, jammed>>

\* Whoever waits for the attempt gets its outcome.
Give(outcome) ==
  given' = [k \in Callers |-> IF given[k] = "waiting" THEN outcome ELSE given[k]]

-----------------------------------------------------------------------------
(* The handshake.                                                          *)

\* Mutant of Timers: the handshake waits as long as it takes.
TimersNever(c) == timer

\* The timers once the handshake of c has begun.
Timers(c) == timer \cup {c}

\* stream.connect succeeds; initiate_handshake writes INIT_REQ and waits.
Connected(c) ==
  /\ at[c] = "connecting"
  /\ at' = [at EXCEPT ![c] = "shaking"]
  /\ timer' = Timers(c)
  /\ UNCHANGED <<direction, answer, log, read, down, closed, notified, close_cb, messages,
                 served, connections, connecting, given, serving, removed, jammed>>

\* stream.connect fails: StreamClosedError or socket.error.
ConnectFails(c) ==
  /\ at[c] = "connecting"
  /\ at' = [at EXCEPT ![c] = "refused"]
  /\ answer' = [answer EXCEPT ![c].exc = "StreamClosedError"]
  /\ UNCHANGED <<direction, timer, log, read, down, closed, notified, close_cb, messages,
                 served, connections, connecting, given, serving, removed, jammed>>

\* handle_stream: an incoming connection; expect_handshake waits, without a timer.
Accept(c) ==
  /\ Fresh(c)
  /\ direction' = [direction EXCEPT ![c] = "in"]
  /\ at' = [at EXCEPT ![c] = "shaking"]
  /\ UNCHANGED <<answer, timer, log, read, down, closed, notified, close_cb, messages,
                 served, connections, connecting, given, serving, removed, jammed>>

\* How many messages were sent.
Sent == MapThenSumSet(LAMBDA c : Len(log[c]), Conns)

\* What comes after a handshake that failed is read by nobody, and left out.
RemoteSends(c, item) ==
  /\ at[c] \in {"shaking", "shaken", "up"} /\ c \notin down /\ Len(log[c]) < MaxItems
  /\ Sent < MaxItems
  /\ log[c] # <<>> => item \in LaterItems
  /\ log' = [log EXCEPT ![c] = Append(@, item)]
  /\ UNCHANGED <<direction, at, answer, timer, read, down, closed, notified, close_cb,
                 messages, served, connections, connecting, given, serving, removed, jammed>>

RemoteCloses(c) ==
  /\ at[c] \notin {"new", "connecting"} /\ c \notin down
  /\ down' = down \cup {c}
  /\ UNCHANGED <<direction, at, answer, timer, log, read, closed, notified, close_cb,
                 messages, served, connections, connecting, given, serving, removed, jammed>>

Done(c) == answer[c] # NoAnswer

\* The get of the handshake is answered, perhaps after the timer fired: with the first
\* message, the error it gave, or the end of the stream.
GetAnswered(c) ==
  /\ at[c] = "shaking" /\ read[c] = 0 /\ answer[c].result = "none"
  /\ answer[c].exc \in {"none", "TimeoutError"}
  /\ \/ /\ log[c] # <<>>
        /\ read' = [read EXCEPT ![c] = 1]
        /\ answer' = IF log[c][1] = "bad" THEN [answer EXCEPT ![c].exc = "ReadError"]
                     ELSE [answer EXCEPT ![c].result = log[c][1]]
     \/ /\ log[c] = <<>> /\ c \in down
        /\ answer' = [answer EXCEPT ![c].exc = "StreamClosedError"]
        /\ UNCHANGED read
  /\ UNCHANGED <<direction, at, timer, log, down, closed, notified, close_cb, messages,
                 served, connections, connecting, given, serving, removed, jammed>>

\* The timer fires, perhaps after the answer came and before it was looked at.
TimerFires(c) ==
  /\ at[c] = "shaking" /\ c \in timer
  /\ timer' = timer \ {c}
  /\ answer' = [answer EXCEPT ![c].exc = "TimeoutError"]
  /\ UNCHANGED <<direction, at, log, read, down, closed, notified, close_cb, messages,
                 served, connections, connecting, given, serving, removed, jammed>>

\* The message is of the right type and has the headers (_extract_handshake_headers).
Shaken(c) == answer[c].result = "init"

\* What becomes of a handshake that failed.  Future.result prefers a result to an
\* exception; taking a host_port apart may fail as well.
Failure(c) ==
  CASE answer[c].result = "none" -> answer[c].exc
    [] answer[c].result = "malformed" -> "ValueError"
    [] OTHER -> "UnexpectedError"

\* The handshake's coroutine goes on and removes the timer.  The receive loop starts when
\* all is well.
Resume(c) ==
  /\ at[c] = "shaking" /\ Done(c)
  /\ timer' = timer \ {c}
  /\ \/ /\ Shaken(c)
        /\ at' = [at EXCEPT ![c] = "shaken"] /\ UNCHANGED answer
     \/ /\ ~Shaken(c)
        /\ at' = [at EXCEPT ![c] = "refused"]
        /\ answer' = [answer EXCEPT ![c].exc = Failure(c)]
  /\ UNCHANGED <<direction, log, read, down, closed, notified, close_cb, messages, served,
                 connections, connecting, given, serving, removed, jammed>>

\* What outgoing makes of the exceptions.
Report(exc) == IF exc \in {"StreamClosedError", "TimeoutError"} THEN "NetworkError" ELSE exc

\* outgoing, or handle_stream, goes on with the exception; the stream stays as it is.
Refused(c) ==
  /\ at[c] = "refused"
  /\ at' = [at EXCEPT ![c] = "failed"]
  /\ IF direction[c] = "out"
     THEN Give(Report(answer[c].exc)) /\ connecting' = None
     ELSE UNCHANGED <<given, connecting>>
  /\ answer' = [answer EXCEPT ![c] = NoAnswer]
  /\ UNCHANGED <<direction, timer, log, read, down, closed, notified, close_cb, messages,
                 served, connections, serving, removed, jammed>>

\* Mutant of Registered: a connection that is closed already is added all the same.
RegisteredAnyway(c) ==
  IF direction[c] = "in" THEN <<c>> \o connections ELSE Append(connections, c)

\* register_incoming_conn, register_outgoing_conn: the deque once c was added.  The close
\* callback is called at once when c is closed already, and takes it out again.  A group
\* that the Peer was removed from makes another one for an incoming connection.
Registered(c) ==
  IF c \in closed \/ (removed /\ direction[c] = "in") THEN connections
  ELSE IF direction[c] = "in" THEN <<c>> \o connections ELSE Append(connections, c)

\* Mutant of Concluded: the attempt is forgotten only if c is still open.
ConcludedIfOpen(c) == IF c \in closed THEN {connecting} ELSE {None}

\* on_connect: _connecting once c was registered.  Peer._on_conn_change, which comes first,
\* may raise IndexError when the Peer has left the heap; Future logs that and goes on.
Concluded(c) == IF removed THEN {None, connecting} ELSE {None}

\* The other way: the connection is registered with the Peer, given to those who wait,
\* and served, unless it is closed already.
Up(c) ==
  /\ at[c] = "shaken"
  /\ at' = [at EXCEPT ![c] = "up"]
  /\ connections' = Registered(c)
  /\ close_cb' = close_cb \cup {c}
  /\ IF direction[c] = "out" THEN Give("connection") /\ connecting' \in Concluded(c)
     ELSE UNCHANGED <<given, connecting>>
  /\ serving' = serving \cup ({c} \ closed)
  /\ answer' = [answer EXCEPT ![c] = NoAnswer]
  /\ UNCHANGED <<direction, timer, log, read, down, closed, notified, messages, served,
                 removed, jammed>>

-----------------------------------------------------------------------------
(* The connection at work, and its end.                                    *)

Looping(c) == at[c] \in {"shaken", "up"} /\ c \notin closed

\* Mutant of Put: a call that nobody serves yet is dropped.
PutIfServed(c, call) == IF at[c] = "up" THEN Append(messages[c], call) ELSE messages[c]

Put(c, call) == Append(messages[c], call)

\* The receive loop takes the next message: calls are queued.
Loop(c) ==
  /\ Looping(c) /\ read[c] < Len(log[c])
  /\ read' = [read EXCEPT ![c] = @ + 1]
  /\ messages' = IF log[c][read[c] + 1] = "call"
                 THEN [messages EXCEPT ![c] = Put(c, read[c] + 1)] ELSE messages
  /\ UNCHANGED <<direction, at, answer, timer, log, down, closed, notified, close_cb,
                 served, connections, connecting, given, serving, removed, jammed>>

\* It meets the end of the stream: close().
LoopEnds(c) ==
  /\ Looping(c) /\ c \in down /\ read[c] = Len(log[c])
  /\ closed' = closed \cup {c}
  /\ UNCHANGED <<direction, at, answer, timer, log, read, down, notified, close_cb,
                 messages, served, connections, connecting, given, serving, removed, jammed>>

\* serve: the handler gets the next call, the last one if the connection is closed.
Serve(c) ==
  /\ c \in serving /\ messages[c] # <<>>
  /\ serving' = serving \ ({c} \cap closed)
  /\ served' = [served EXCEPT ![c] = Append(@, Head(messages[c]))]
  /\ messages' = [messages EXCEPT ![c] = Tail(@)]
  /\ UNCHANGED <<direction, at, answer, timer, log, read, down, closed, notified,
                 close_cb, connections, connecting, given, removed, jammed>>

\* c may have been given to callers of connect, who make calls.
HasCalls(c) == at[c] = "up" /\ (direction[c] = "out" \/ c \in ToSet(connections))

\* _on_close, called by the stream: the flag, the calls nobody served, the callback.  A call
\* that is registered and complete (Connection.LeftOver) raises after the flag is set.
OnClose(c) ==
  /\ c \in down \ notified
  /\ notified' = notified \cup {c} /\ closed' = closed \cup {c}
  /\ \/ /\ HasCalls(c)
        /\ jammed' = jammed \cup {c}
        /\ UNCHANGED <<messages, connections>>
     \/ /\ messages' = [messages EXCEPT ![c] = <<>>]
        /\ connections' = IF c \in close_cb THEN RemoveFirst(connections, c) ELSE connections
        /\ UNCHANGED jammed
  /\ UNCHANGED <<direction, at, answer, timer, log, read, down, close_cb, served,
                 connecting, given, serving, removed>>

\* Peer.close
ClosePeer ==
  /\ connections # <<>>
  /\ down' = down \cup ToSet(connections) /\ closed' = closed \cup ToSet(connections)
  /\ UNCHANGED <<direction, at, answer, timer, log, read, notified, close_cb, messages,
                 served, connections, connecting, given, serving, removed, jammed>>

\* PeerGroup.remove, while the Peer has an attempt under way: at other times it only sends
\* incoming connections elsewhere.
RemovePeer ==
  /\ ~removed /\ Shares
  /\ removed' = TRUE
  /\ UNCHANGED <<direction, at, answer, timer, log, read, down, closed, notified, close_cb,
                 messages, served, connections, connecting, given, serving, jammed>>

\* A step of the attempt to make a connection.
Proceeds(c) ==
  \/ Connected(c) \/ ConnectFails(c) \/ GetAnswered(c) \/ TimerFires(c) \/ Resume(c)
  \/ Refused(c) \/ Up(c)

Next ==
  \/ \E k \in Callers : Connect(k)
  \/ \E c \in Conns :
       \/ Proceeds(c) \/ Accept(c)
       \/ \E item \in Items : RemoteSends(c, item)
       \/ RemoteCloses(c) \/ Loop(c) \/ LoopEnds(c) \/ Serve(c) \/ OnClose(c)
  \/ ClosePeer \/ RemovePeer

\* The operating system ends a connect, a timer fires unless it is removed, and the event
\* loop runs what is ready.  Nothing is assumed of the remote side.
Fairness == \A c \in Conns : WF_vars(Proceeds(c)) /\ WF_vars(OnClose(c))

Spec == Init /\ [][Next]_vars /\ Fairness

-----------------------------------------------------------------------------
(* Properties.                                                             *)

\* A connection is registered with its peer, or serves a call, only after the remote side
\* began with a complete handshake message.
ShakenFirst ==
  \A c \in Conns : c \in ToSet(connections) \/ served[c] # <<>> =>
    log[c] # <<>> /\ log[c][1] = "init"

\* Until it is closed, the calls served and those that wait to be are the calls that were
\* read, however close behind the handshake: each once, in the order of arrival.
CallsInOrder ==
  \A c \in Conns : at[c] \in {"shaken", "up"} /\ c \notin notified =>
    LET calls == served[c] \o messages[c] IN
    /\ ToSet(calls) = {i \in 1 .. read[c] : log[c][i] = "call"}
    /\ \A i, j \in DOMAIN calls : i < j => calls[i] < calls[j]

\* A connection that was closed and said so is not with the peer, not even when it was
\* closed before it was registered; only an exception in _on_close leaves it there.
ClosedIsDropped == \A c \in notified \ jammed : c \notin ToSet(connections)

\* A peer makes one connection at a time, and _connecting names it.  Only that of a peer
\* that was removed may name a connection that is made.
OneAtATime ==
  /\ {c \in Conns : direction[c] = "out" /\ at[c] \notin {"up", "failed"}}
       = {c \in {connecting} \ {None} : at[c] # "up"}
  /\ connecting # None /\ at[connecting] = "up" => removed

\* The callers are told of a NetworkError, on which a request may be retried elsewhere,
\* unless the remote side sent something that is no handshake.
UnexpectedIsRemote ==
  \A k \in Callers : given[k] \in Blames =>
    \E c \in Conns : log[c] # <<>> /\ log[c][1] # "init"

\* Whoever asks for a connection gets one or an error, whatever the remote side does.
ConnectEnds == \A k \in Callers : given[k] = "waiting" ~> given[k] # "waiting"

\* A connection whose stream is closed leaves the peer, unless its _on_close was left by
\* an exception.
DownLeaves ==
  \A c \in Conns : c \in down /\ c \in ToSet(connections) ~>
    c \notin ToSet(connections) \/ c \in jammed

\* The peer's connections are those that are up, made one at a time, and what their failure
\* is called tells whether the remote side is to blame.
ConnectionsAreSound == TypeOK /\ ClosedIsDropped /\ OneAtATime /\ UnexpectedIsRemote

\* Calls are served after a complete handshake, and then all of them, in order.
ServedAfterHandshake == ShakenFirst /\ CallsInOrder

\* Whatever the remote side does, callers of connect are answered, and a connection whose
\* stream is closed leaves the peer or has calls that no _on_close can fail.
PeerSettles == ConnectEnds /\ DownLeaves
=============================================================================
