--------------------------- MODULE ClientOperation --------------------------
(***************************************************************************)
(* tchannel.tornado.peer.PeerClientOperation: how a request finds a peer,  *)
(* gets a connection, is sent, and is retried on another peer, for several *)
(* requests at a time that share the peers' connections.                   *)
(*                                                                         *)
(* choose is taken at its promise (PeerChoice!FindsAMatch): it returns     *)
(* some peer that is not ruled out, whenever there is one.  A peer has at  *)
(* most one connection here, and a call on it ends in one of the ways the  *)
(* module Connection allows.                                               *)
(***************************************************************************)
EXTENDS Naturals, Sequences, FiniteSets

CONSTANTS
  Ops,          \* requests: calls of PeerClientOperation.send
  Peers,        \* host-ports
  Group,        \* the host-ports in the peer heap
  Pinned,       \* requests made with a hostport
  Streaming,    \* requests with arguments that are still being written
  Flags,        \* values of the retry flag in use
  retry_limit,  \* retries after the first attempt
  MaxLinks,     \* bound on connections made to a peer
  HasMessage,   \* exceptions have the attribute message: TRUE for Python 2 only
  None

ASSUME ClientAssumption ==
  /\ Group \subseteq Peers /\ Pinned \subseteq Ops /\ Streaming \subseteq Ops
  /\ Flags \subseteq {"c", "n", "t", "ct"}
  /\ retry_limit \in Nat /\ MaxLinks \in Nat /\ HasMessage \in BOOLEAN

Errors == {"bad", "busy", "timeout", "network", "unexpected"}

VARIABLES
  link,       \* of each peer: "down", "connecting" or "up"
  made,       \* connections made to each peer so far: the number of the current one
  listening,  \* closed connections whose writer still waits for a message to write
  flag,       \* retry flag of each request
  pinnedTo,   \* hostport of each request in Pinned
  pc,         \* what each request is doing
  peer,       \* the peer it uses
  conn,       \* the number of the connection it holds
  fate,       \* how the call sent on that connection stands
  blacklist,  \* host-ports it must not try
  attempts,   \* the peers it was sent to, in order
  result      \* how it ended

vars == <<link, made, listening, flag, pinnedTo, pc, peer, conn, fate, blacklist, attempts,
          result>>

TypeOK ==
  /\ link \in [Peers -> {"down", "connecting", "up"}]
  /\ made \in [Peers -> 0 .. MaxLinks]
  /\ listening \subseteq Peers \X (1 .. MaxLinks)
  /\ flag \in [Ops -> Flags] /\ pinnedTo \in [Pinned -> Peers]
  /\ pc \in [Ops -> {"choosing", "connecting", "connected", "sent", "retrying",
                     "reconnecting", "done"}]
  /\ peer \in [Ops -> Peers \cup {None}]
  /\ conn \in [Ops -> 0 .. MaxLinks]
  /\ fate \in [Ops -> {"none", "live", "cancelled", "closed", "stuck"}]
  /\ blacklist \in [Ops -> SUBSET Peers]
  /\ attempts \in [Ops -> Seq(Peers)]
  /\ result \in [Ops -> Errors \cup {"none", "response", "NoAvailablePeerError",
                                     "connect", "AttributeError"}]

Init ==
  /\ link = [p \in Peers |-> "down"] /\ made = [p \in Peers |-> 0] /\ listening = {}
  /\ flag \in [Ops -> Flags]
  /\ pinnedTo \in [Pinned -> Peers]
  /\ pc = [o \in Ops |-> "choosing"] /\ peer = [o \in Ops |-> None]
  /\ conn = [o \in Ops |-> 0] /\ fate = [o \in Ops |-> "none"]
  /\ blacklist = [o \in Ops |-> {}] /\ attempts = [o \in Ops |-> <<>>]
  /\ result = [o \in Ops |-> "none"]

requestVars == <<flag, pinnedTo>>
linkVars == <<link, made, listening>>

End(o, how) ==
  /\ pc' = [pc EXCEPT ![o] = "done"]
  /\ result' = [result EXCEPT ![o] = how]

-----------------------------------------------------------------------------
(* Choosing and connecting.                                                *)

\* Mutant of Choices: the blacklist is not looked at.
ChoicesAll(o) == IF o \in Pinned THEN {pinnedTo[o]} ELSE Group

\* What PeerGroup.choose may return: a pinned request gets its host, ruled out or not.
Choices(o) == IF o \in Pinned THEN {pinnedTo[o]} ELSE Group \ blacklist[o]

\* Peer.connect: the connection there is, the one being made, or a new one.
Connect(o, p, waiting) ==
  /\ peer' = [peer EXCEPT ![o] = p]
  /\ IF link[p] = "up"
     THEN /\ pc' = [pc EXCEPT ![o] = "connected"]
          /\ conn' = [conn EXCEPT ![o] = made[p]]
          /\ UNCHANGED link
     ELSE /\ pc' = [pc EXCEPT ![o] = waiting]
          /\ link' = [link EXCEPT ![p] = "connecting"]
          /\ UNCHANGED conn
  /\ UNCHANGED <<made, listening, requestVars, fate, blacklist, attempts, result>>

\* _get_peer_connection, one round of its loop.
GetPeerConnection(o) ==
  /\ pc[o] = "choosing"
  /\ \/ \E p \in Choices(o) : Connect(o, p, "connecting")
     \/ /\ Choices(o) = {}
        /\ End(o, "NoAvailablePeerError")
        /\ UNCHANGED <<linkVars, requestVars, peer, conn, fate, blacklist, attempts>>

\* prepare_next_request; with no peer left, the error that asked for the retry stands.
PrepareNextRequest(o) ==
  /\ pc[o] = "retrying"
  /\ \/ \E p \in Choices(o) : Connect(o, p, "reconnecting")
     \/ /\ Choices(o) = {}
        /\ pc' = [pc EXCEPT ![o] = "done"]
        /\ UNCHANGED <<linkVars, requestVars, peer, conn, fate, blacklist, attempts, result>>

Waiting(p) == {o \in Ops : pc[o] \in {"connecting", "reconnecting"} /\ peer[o] = p}

\* StreamConnection.outgoing succeeds: everyone who waits gets the connection.
ConnectSucceeds(p) ==
  /\ link[p] = "connecting" /\ made[p] < MaxLinks
  /\ link' = [link EXCEPT ![p] = "up"]
  /\ made' = [made EXCEPT ![p] = @ + 1]
  /\ pc' = [o \in Ops |-> IF o \in Waiting(p) THEN "connected" ELSE pc[o]]
  /\ conn' = [o \in Ops |-> IF o \in Waiting(p) THEN made[p] + 1 ELSE conn[o]]
  /\ UNCHANGED <<listening, requestVars, peer, fate, blacklist, attempts, result>>

\* Mutant of AfterFailure: the peer is not ruled out.
AfterFailureForgets(o, p) == blacklist[o]

AfterFailure(o, p) == blacklist[o] \cup {p}

\* outgoing raises NetworkError: a request that has not been sent yet tries a different
\* host; one that is being retried ends.
ConnectFails(p) ==
  /\ link[p] = "connecting"
  /\ link' = [link EXCEPT ![p] = "down"]
  /\ pc' = [o \in Ops |-> IF o \notin Waiting(p) THEN pc[o]
                          ELSE IF pc[o] = "connecting" THEN "choosing" ELSE "done"]
  /\ result' = [o \in Ops |-> IF o \in Waiting(p) /\ pc[o] = "reconnecting" THEN "connect"
                              ELSE result[o]]
  /\ blacklist' = [o \in Ops |-> IF o \in Waiting(p) /\ pc[o] = "connecting"
                                 THEN AfterFailure(o, p) ELSE blacklist[o]]
  /\ UNCHANGED <<made, listening, requestVars, peer, conn, fate, attempts>>

\* outgoing raises another error (a bad handshake): everyone who waits ends.
ConnectBreaks(p) ==
  /\ link[p] = "connecting"
  /\ link' = [link EXCEPT ![p] = "down"]
  /\ pc' = [o \in Ops |-> IF o \in Waiting(p) THEN "done" ELSE pc[o]]
  /\ result' = [o \in Ops |-> IF o \in Waiting(p) THEN "unexpected" ELSE result[o]]
  /\ UNCHANGED <<made, listening, requestVars, peer, conn, fate, blacklist, attempts>>

\* The peer connects to us while we have no connection to it.
IncomingConnection(p) ==
  /\ link[p] = "down" /\ made[p] < MaxLinks
  /\ link' = [link EXCEPT ![p] = "up"]
  /\ made' = [made EXCEPT ![p] = @ + 1]
  /\ UNCHANGED <<listening, requestVars, pc, peer, conn, fate, blacklist, attempts, result>>

\* The connection is lost: _on_close cancels the calls on it.  Its writer either waits
\* for one more message or has noticed.
ConnectionLost(p) ==
  /\ link[p] = "up"
  /\ link' = [link EXCEPT ![p] = "down"]
  /\ listening' \in {listening, listening \cup {<<p, made[p]>>}}
  /\ fate' = [o \in Ops |-> IF fate[o] = "live" /\ peer[o] = p THEN "cancelled" ELSE fate[o]]
  /\ UNCHANGED <<made, requestVars, pc, peer, conn, blacklist, attempts, result>>

-----------------------------------------------------------------------------
(* Sending.                                                                *)

\* send_request.  The connection may have been lost since it was chosen; the message
\* that wakes the writer of a lost connection fails, a later one stays in its queue.
Send(o) ==
  /\ pc[o] = "connected"
  /\ pc' = [pc EXCEPT ![o] = "sent"]
  /\ attempts' = [attempts EXCEPT ![o] = Append(@, peer[o])]
  /\ blacklist' = [blacklist EXCEPT ![o] = IF attempts[o] = <<>> THEN {} ELSE @]
  /\ LET held == <<peer[o], conn[o]>>
     IN  /\ fate' = [fate EXCEPT ![o] =
                       IF link[peer[o]] = "up" /\ made[peer[o]] = conn[o] THEN "live"
                       ELSE IF held \in listening THEN "closed" ELSE "stuck"]
         /\ listening' = IF fate'[o] = "closed" THEN listening \ {held} ELSE listening
  /\ UNCHANGED <<link, made, requestVars, peer, conn, result>>

SendResponse(o) ==
  /\ pc[o] = "sent" /\ fate[o] = "live"
  /\ End(o, "response")
  /\ fate' = [fate EXCEPT ![o] = "none"]
  /\ UNCHANGED <<linkVars, requestVars, peer, conn, blacklist, attempts>>

\* Mutant of should_retry_on_error: the flag does not matter for timeouts.
should_retry_any_timeout(o, error) ==
  /\ o \notin Streaming /\ flag[o] # "n"
  /\ \/ error \in {"busy", "timeout"}
     \/ error \in {"network", "unexpected"} /\ flag[o] # "t"

should_retry_on_error(o, error) ==
  /\ o \notin Streaming /\ flag[o] # "n"
  /\ \/ error = "busy"
     \/ error = "timeout" /\ flag[o] # "c"
     \/ error \in {"network", "unexpected"} /\ flag[o] # "t"

\* A streaming request and one with a hostport are not retried.
Limit(o) == IF o \in Streaming \cup Pinned THEN 0 ELSE retry_limit

\* Mutant of should_retry: one attempt more.
should_retry_once_more(o, error) ==
  should_retry_on_error(o, error) /\ Len(attempts[o]) - 1 # Limit(o) + 1

should_retry(o, error) ==
  should_retry_on_error(o, error) /\ Len(attempts[o]) - 1 # Limit(o)

\* What can become of the call: an error frame, the timer, the close of the connection.
PossibleErrors(o) ==
  (CASE fate[o] = "live" -> {"bad", "busy", "unexpected"}
     [] fate[o] = "cancelled" -> {"network"}
     [] OTHER -> {})
  \cup (IF fate[o] \in {"live", "stuck"} /\ o \notin Streaming THEN {"timeout"} ELSE {})

Used(o) == blacklist[o] \cup {peer[o]}

\* send_with_retry: the call failed with a TChannelError.
SendFails(o, error) ==
  /\ pc[o] = "sent"
  /\ fate' = [fate EXCEPT ![o] = "none"]
  /\ blacklist' = [blacklist EXCEPT ![o] = Used(o)]
  /\ result' = [result EXCEPT ![o] = error]
  /\ pc' = [pc EXCEPT ![o] = IF should_retry(o, error) THEN "retrying" ELSE "done"]
  /\ UNCHANGED <<linkVars, requestVars, peer, conn, attempts>>

SendError(o) == \E error \in PossibleErrors(o) : SendFails(o, error)

\* _send gets a StreamClosedError and makes it a NetworkError with its message.
StreamClosed(o) ==
  /\ pc[o] = "sent" /\ fate[o] = "closed"
  /\ IF HasMessage THEN SendFails(o, "network")
     ELSE /\ End(o, "AttributeError")
          /\ fate' = [fate EXCEPT ![o] = "none"]
          /\ UNCHANGED <<linkVars, requestVars, peer, conn, blacklist, attempts>>

-----------------------------------------------------------------------------

OpStep(o) ==
  \/ GetPeerConnection(o) \/ PrepareNextRequest(o)
  \/ Send(o) \/ SendResponse(o) \/ SendError(o) \/ StreamClosed(o)

PeerStep(p) ==
  \/ ConnectSucceeds(p) \/ ConnectFails(p) \/ ConnectBreaks(p)
  \/ IncomingConnection(p) \/ ConnectionLost(p)

Next == (\E o \in Ops : OpStep(o)) \/ \E p \in Peers : PeerStep(p)

\* The event loop runs every coroutine that can go on; a call on a working connection is
\* answered or times out; an attempt to connect ends, the handshake having a timeout.
Fairness ==
  /\ \A o \in Ops : WF_vars(OpStep(o))
  /\ \A p \in Peers : WF_vars(ConnectSucceeds(p) \/ ConnectFails(p) \/ ConnectBreaks(p))

Spec == Init /\ [][Next]_vars /\ Fairness

-----------------------------------------------------------------------------
(* Properties.                                                             *)

\* "black list to record all used peers, so they aren't chosen again": a request goes
\* to no peer twice.
NeverTwiceToAPeer ==
  \A o \in Ops : \A j, k \in DOMAIN attempts[o] :
    attempts[o][j] = attempts[o][k] => j = k

\* A request is attempted at most retry_limit + 1 times, and once if it is streamed or
\* has a hostport.
AttemptsBounded == \A o \in Ops : Len(attempts[o]) <= Limit(o) + 1

\* A request whose flag does not allow it is never sent again after a timeout: a second
\* peer would execute it a second time.
NoResendAfterTimeout ==
  [][\A o \in Ops : result[o] = "timeout" /\ flag[o] \in {"c", "n"}
                      => attempts'[o] = attempts[o]]_vars

\* Every request that is neither streamed nor has a hostport ends, whatever the peers and
\* the other requests do.
RetriedRequestsEnd == \A o \in Ops \ (Pinned \cup Streaming) : <>(pc[o] = "done")
=============================================================================
