----------------------------- MODULE Connection -----------------------------
(***************************************************************************)
(* The calling half of a TChannel connection: StreamConnection.send_request*)
(* and the message loop of TornadoConnection in tornado/connection.py,     *)
(* with the response half of tornado/message_factory.py and the tombstones *)
(* of tornado/tombstone.py.                                                *)
(*                                                                         *)
(* Every call registers a future under its message id in                   *)
(* _outbound_pending_call.  Four parties race to complete that future: the *)
(* message loop (a response or an error frame), the call's timer, the      *)
(* stream's close callback, and the writer.  The remote host is not under  *)
(* src/: it answers each request it receives in one or more frames, or     *)
(* with an error frame, and may send unrelated frames of its own.          *)
(*                                                                         *)
(* Calls a server receives on the same connection (CALL_REQ frames) are    *)
(* only diverted here; what serving them does is not part of this module.  *)
(***************************************************************************)
EXTENDS Naturals, Sequences

CONSTANTS
  Requests,   \* the calls made through this connection
  NoReq,      \* "no request": an absent dictionary entry, an unrelated frame
  MaxId,      \* MAX_MESSAGE_ID: ids are counted modulo this number
  AllowWrap,  \* whether the id counter may pass MaxId - 1
  MaxFrames,  \* frames the remote may use for one response
  MaxWire,    \* frames under way at any time
  Noise,      \* kinds of frames the remote sends of its own accord
  MaxNoise    \* how many of those it sends

NoiseKinds == {"PING_REQ", "CALL_REQ", "MALFORMED"}

ASSUME ConnectionAssumption ==
  /\ NoReq \notin Requests
  /\ MaxId \in Nat /\ MaxId > 1
  /\ AllowWrap \in BOOLEAN
  /\ MaxFrames \in Nat \ {0}
  /\ MaxWire \in Nat \ {0}
  /\ Noise \subseteq NoiseKinds
  /\ MaxNoise \in Nat

VARIABLES
  stream,     \* "open"; "shut": _on_close is scheduled; "closed": _on_close has run
  closed,     \* self.closed
  loop,       \* "reading": in reader.get(); "step": _step is scheduled; "stopped"
  sequence,   \* writer._id_sequence
  id,         \* request.id
  pending,    \* _outbound_pending_call: id -> request, or NoReq
  future,     \* state of the future in that dictionary
  source,     \* the request whose response the future was resolved with
  answer,     \* state of response_future, the one the caller waits on; "raised"
              \* is an exception that is no TChannelError
  cleaned,    \* requests whose caller has run clean_up_outgoing_request
  tombstones, \* ids in _request_tombstones
  buffer,     \* response_message_factory.message_buffer: id -> request
  frames,     \* number of response frames assembled for each request
  body,       \* state of the response's argument streams
  callback,   \* whether _close_cb has been called
  sent,       \* frames the remote has sent for each request
  remote,     \* the remote's side of each call
  wireId,     \* the id under which each request was written
  wire,       \* frames on their way to this end, in order
  noise       \* number of unrelated frames sent

futures  == <<id, pending, future, source, answer, cleaned>>
assembly == <<buffer, frames, body>>
peer     == <<sent, remote, wireId, wire, noise>>
vars == <<stream, closed, loop, sequence, futures, tombstones, assembly,
          callback, peer>>

-----------------------------------------------------------------------------

Ids == 0 .. MaxId - 1

\* What a future can be completed with.
Outcomes == {"response", "remote_error", "timeout", "network", "stream_closed",
             "write_error"}

\* What the caller of a request may get to see.
Answers == {"response", "error", "raised"}

\* A frame.  more: flags == FlagsType.fragment; ok: not damaged on the way; of: the
\* request the remote means it for.
Frames == [type : {"CALL_RES", "CALL_RES_CONTINUE", "ERROR"} \cup NoiseKinds,
           id : Ids, more : BOOLEAN, ok : BOOLEAN, of : Requests \cup {NoReq}]

TypeOK ==
  /\ stream \in {"open", "shut", "closed"}
  /\ closed \in BOOLEAN
  /\ loop \in {"reading", "step", "stopped"}
  /\ sequence \in Ids
  /\ id \in [Requests -> Ids]
  /\ pending \in [Ids -> Requests \cup {NoReq}]
  /\ future \in [Requests -> {"unsent", "running"} \cup Outcomes]
  /\ source \in [Requests -> Requests \cup {NoReq}]
  /\ answer \in [Requests -> {"unsent", "waiting"} \cup Answers]
  /\ cleaned \subseteq Requests
  /\ tombstones \subseteq Ids
  /\ buffer \in [Ids -> Requests \cup {NoReq}]
  /\ frames \in [Requests -> Nat]
  /\ body \in [Requests -> {"none", "open", "complete", "failed"}]
  /\ callback \in BOOLEAN
  /\ sent \in [Requests -> Nat]
  /\ remote \in [Requests -> {"idle", "called", "streaming", "done"}]
  /\ wireId \in [Requests -> Ids]
  /\ wire \in Seq(Frames)
  /\ noise \in Nat

\* The connection after its handshake, registered with a Peer: the message
\* loop is waiting for the first frame and _close_cb is set.
Init ==
  /\ stream = "open" /\ closed = FALSE /\ loop = "reading"
  /\ sequence = 0
  /\ id = [r \in Requests |-> 0]
  /\ pending = [i \in Ids |-> NoReq]
  /\ future = [r \in Requests |-> "unsent"]
  /\ source = [r \in Requests |-> NoReq]
  /\ answer = [r \in Requests |-> "unsent"]
  /\ cleaned = {} /\ tombstones = {}
  /\ buffer = [i \in Ids |-> NoReq]
  /\ frames = [r \in Requests |-> 0]
  /\ body = [r \in Requests |-> "none"]
  /\ callback = FALSE
  /\ sent = [r \in Requests |-> 0]
  /\ remote = [r \in Requests |-> "idle"]
  /\ wireId = [r \in Requests |-> 0]
  /\ wire = <<>> /\ noise = 0

-----------------------------------------------------------------------------
(* Making a call.                                                          *)

\* Mutant of NextMessageId: the same id is handed out again.
NextMessageIdReused(s) == 1

\* next_message_id, and whether the model's bound lets it be called.
NextMessageId(s) == (s + 1) % MaxId
MayDraw(s) == AllowWrap \/ s + 1 < MaxId

\* The caller draws an id and calls send_request.  An id still in use trips the
\* assertion, which the caller sees as an exception.  A closed connection is
\* not refused.
SendRequest(r) ==
  LET i == NextMessageId(sequence) IN
  /\ answer[r] = "unsent"
  /\ MayDraw(sequence)
  /\ sequence' = i
  /\ id' = [id EXCEPT ![r] = i]
  /\ IF pending[i] # NoReq
     THEN /\ answer' = [answer EXCEPT ![r] = "raised"]
          /\ UNCHANGED <<pending, future>>
     ELSE /\ pending' = [pending EXCEPT ![i] = r]
          /\ future' = [future EXCEPT ![r] = "running"]
          /\ answer' = [answer EXCEPT ![r] = "waiting"]
  /\ UNCHANGED <<stream, closed, loop, source, cleaned, tombstones,
                 assembly, callback, peer>>

\* The writer puts the request on the wire, the remote receives it and _stream
\* finishes.  write takes an id of 0 for "not set yet" and draws another one.
Transmit(r) ==
  /\ stream = "open" /\ future[r] \notin {"unsent", "write_error"}
  /\ remote[r] = "idle"
  /\ IF id[r] = 0
     THEN /\ MayDraw(sequence)
          /\ sequence' = NextMessageId(sequence)
          /\ wireId' = [wireId EXCEPT ![r] = NextMessageId(sequence)]
     ELSE /\ wireId' = [wireId EXCEPT ![r] = id[r]]
          /\ UNCHANGED sequence
  /\ remote' = [remote EXCEPT ![r] = "called"]
  /\ UNCHANGED <<stream, closed, loop, futures, tombstones, assembly, callback,
                 sent, wire, noise>>

\* _stream fails and on_done passes its error on, unless the future is complete;
\* the entry in the dictionary stays.  Some part of the request cannot be read or
\* encoded, be the stream open or not and whatever of it the remote has; or the
\* stream refuses a part, which takes several turns of the event loop, its close
\* callback one, so that _on_close has run by then.
StreamFails(r) ==
  /\ future[r] = "running"
  /\ \/ future' = [future EXCEPT ![r] = "write_error"]
     \/ stream = "closed" /\ future' = [future EXCEPT ![r] = "stream_closed"]
  /\ \/ UNCHANGED sequence
     \/ id[r] = 0 /\ MayDraw(sequence) /\ sequence' = NextMessageId(sequence)
  /\ UNCHANGED <<stream, closed, loop, id, pending, source, answer, cleaned,
                 tombstones, assembly, callback, peer>>

\* adapt_result, scheduled when the future is complete.  A TChannelError, and a
\* StreamClosedError where _send makes a NetworkError of it, is cleaned up after.
AdaptResult(r) ==
  /\ answer[r] = "waiting" /\ future[r] \in Outcomes
  /\ answer' = [answer EXCEPT ![r] = CASE future[r] = "response" -> "response"
                                       [] future[r] = "write_error" -> "raised"
                                       [] OTHER -> "error"]
  /\ UNCHANGED <<stream, closed, loop, sequence, id, pending, future, source,
                 cleaned, tombstones, assembly, callback, peer>>

\* The caller saw a TChannelError: clean_up_outgoing_request removes whatever is
\* registered under the request's id.
RemoveOutstandingRequest(r) ==
  /\ answer[r] = "error" /\ r \notin cleaned
  /\ cleaned' = cleaned \cup {r}
  /\ pending' = [pending EXCEPT ![id[r]] = NoReq]
  /\ UNCHANGED <<stream, closed, loop, sequence, id, future, source, answer,
                 tombstones, assembly, callback, peer>>

\* Mutants of StillRunning: no check for a completed future; nothing times out on
\* a closed connection.
StillRunningUnchecked(r) == future[r] # "unsent"
StillRunningWhileOpen(r) == future[r] = "running" /\ ~closed

\* A timer that finds its future complete returns at once.
StillRunning(r) == future[r] = "running"

\* _request_timed_out, called by the call's timer.
RequestTimedOut(r) ==
  /\ StillRunning(r)
  /\ future' = [future EXCEPT ![r] = "timeout"]
  /\ tombstones' = tombstones \cup {id[r]}
  /\ pending' = [pending EXCEPT ![id[r]] = NoReq]
  /\ UNCHANGED <<stream, closed, loop, sequence, id, source, answer, cleaned,
                 assembly, callback, peer>>

\* Cemetery.forget: a tombstone's own timer.
Forget(i) ==
  /\ i \in tombstones
  /\ tombstones' = tombstones \ {i}
  /\ UNCHANGED <<stream, closed, loop, sequence, futures, assembly, callback,
                 peer>>

-----------------------------------------------------------------------------
(* The message loop.                                                       *)

\* _step: wait for the next frame unless the connection has been closed.
Step ==
  /\ loop = "step"
  /\ loop' = IF closed THEN "stopped" ELSE "reading"
  /\ UNCHANGED <<stream, closed, sequence, futures, tombstones,
                 assembly, callback, peer>>

\* _on_message takes the next frame; _step is scheduled whatever it is.
Take(m) ==
  /\ loop = "reading" /\ wire # <<>> /\ m = Head(wire)
  /\ wire' = Tail(wire)
  /\ loop' = "step"
  /\ UNCHANGED <<stream, closed, sequence, id, answer, cleaned, tombstones,
                 callback, sent, remote, wireId, noise>>

\* Frames with no entry in the dictionary (tombstoned or unknown), requests,
\* which go to the server's queue whatever their id, and unreadable frames.
Passes(m) ==
  \/ m.type \in {"CALL_REQ", "MALFORMED"}
  \/ pending[m.id] = NoReq

OnMessageIgnored ==
  \E m \in {wire[k] : k \in DOMAIN wire} :
    /\ Take(m)
    /\ Passes(m)
    /\ UNCHANGED <<pending, future, source, assembly>>

\* The future is completed with a response unless it is complete already.
SetResult(r, of) ==
  /\ future' = [future EXCEPT ![r] = IF @ = "running" THEN "response" ELSE @]
  /\ source' = [source EXCEPT ![r] = IF future[r] = "running" THEN of ELSE @]

\* Mutant of StillStreaming: every response frame removes the entry.
StillStreamingNever(m) == FALSE

\* The entry of a response with more frames to come is kept.
StillStreaming(m) == m.type \in {"CALL_RES", "CALL_RES_CONTINUE"} /\ m.more

PopUnlessStreaming(m) ==
  pending' = IF StillStreaming(m) THEN pending
             ELSE [pending EXCEPT ![m.id] = NoReq]

\* _handle_response for the first frame of a response: build makes a Response
\* and keeps it in the buffer while more frames are due.  A bad checksum raises.
OnCallResponse ==
  \E m \in {wire[k] : k \in DOMAIN wire} :
    /\ Take(m)
    /\ ~Passes(m) /\ m.type = "CALL_RES"
    /\ LET r == pending[m.id] IN
       IF ~m.ok
       THEN UNCHANGED <<pending, future, source, assembly>>
       ELSE /\ frames' = [frames EXCEPT ![r] = 1]
            /\ body' = [body EXCEPT ![r] =
                          IF m.more THEN "open" ELSE "complete"]
            /\ buffer' = IF m.more THEN [buffer EXCEPT ![m.id] = r] ELSE buffer
            /\ PopUnlessStreaming(m)
            /\ SetResult(r, m.of)

\* Mutant of Verified: the checksum of each frame stands alone.
VerifiedAlone(m, r) == m.ok

\* verify_message: the checksum runs on from frame to frame, so one damaged
\* frame makes every later one of the same response fail.
Verified(m, r) == m.ok /\ body[r] # "failed"

\* _handle_response for a later frame.  Without a buffered response, or with a
\* bad checksum, build raises and the dictionary keeps its entry.
OnCallResponseContinue ==
  \E m \in {wire[k] : k \in DOMAIN wire} :
    /\ Take(m)
    /\ ~Passes(m) /\ m.type = "CALL_RES_CONTINUE"
    /\ LET r == buffer[m.id] IN
       \/ /\ r = NoReq
          /\ UNCHANGED <<pending, future, source, assembly>>
       \/ /\ r # NoReq /\ ~Verified(m, r)
          /\ body' = [body EXCEPT ![r] = "failed"]
          /\ UNCHANGED <<pending, future, source, buffer, frames>>
       \/ /\ r # NoReq /\ Verified(m, r)
          /\ frames' = [frames EXCEPT ![r] = @ + 1]
          /\ body' = [body EXCEPT ![r] = IF m.more THEN @ ELSE "complete"]
          /\ buffer' = IF m.more THEN buffer
                       ELSE [buffer EXCEPT ![m.id] = NoReq]
          /\ PopUnlessStreaming(m)
          /\ UNCHANGED <<future, source>>

\* _handle_error_message: fail the call, or the response being streamed.
OnError ==
  \E m \in {wire[k] : k \in DOMAIN wire} :
    /\ Take(m)
    /\ ~Passes(m) /\ m.type = "ERROR"
    /\ pending' = [pending EXCEPT ![m.id] = NoReq]
    /\ IF future[pending[m.id]] = "running"
       THEN /\ future' = [future EXCEPT ![pending[m.id]] = "remote_error"]
            /\ UNCHANGED <<source, assembly>>
       ELSE /\ body' = [r \in Requests |->
                          IF r = buffer[m.id] THEN "failed" ELSE body[r]]
            /\ buffer' = [buffer EXCEPT ![m.id] = NoReq]
            /\ UNCHANGED <<future, source, frames>>

\* Any other frame whose id is in the dictionary is taken for its response:
\* build returns it as it is.
OnForeignFrame ==
  \E m \in {wire[k] : k \in DOMAIN wire} :
    /\ Take(m)
    /\ ~Passes(m) /\ m.type = "PING_REQ"
    /\ SetResult(pending[m.id], m.of)
    /\ PopUnlessStreaming(m)
    /\ UNCHANGED assembly

\* reader.get() fails with StreamClosedError: self.close().  Frames the stream
\* had not delivered are lost.
OnReadError ==
  /\ loop = "reading" /\ stream # "open"
  /\ closed' = TRUE
  /\ loop' = "step"
  /\ UNCHANGED <<stream, sequence, futures, tombstones, assembly,
                 callback, peer>>

-----------------------------------------------------------------------------
(* Closing.                                                                *)

\* close(): the stream schedules its close callback for a later turn.
Close ==
  /\ ~closed
  /\ closed' = TRUE
  /\ stream' = IF stream = "open" THEN "shut" ELSE stream
  /\ UNCHANGED <<loop, sequence, futures, tombstones, assembly,
                 callback, peer>>

\* The stream notices that the remote has gone.
RemoteClose ==
  /\ stream = "open"
  /\ stream' = "shut"
  /\ UNCHANGED <<closed, loop, sequence, futures, tombstones,
                 assembly, callback, peer>>

Registered == {r \in Requests : \E i \in Ids : pending[i] = r}
Running == {r \in Registered : future[r] = "running"}

\* Calls that are complete and still registered.
LeftOver == Registered \ Running

\* Mutant of FailWithNetworkError: only requests that were written are failed.
FailWrittenOnly(S) ==
  future' = [r \in Requests |->
               IF r \in S /\ remote[r] # "idle" THEN "network" ELSE future[r]]

\* The futures in S are failed with a NetworkError.
FailWithNetworkError(S) ==
  future' = [r \in Requests |-> IF r \in S THEN "network" ELSE future[r]]

\* _on_close.  set_exception on a future that is complete stores the exception in
\* it and then raises, which ends the handler before the dictionary is emptied and
\* the callback called.  The dictionary's order decides which complete future is
\* met first, and which others were failed before it.
OnClose ==
  /\ stream = "shut"
  /\ stream' = "closed"
  /\ closed' = TRUE
  /\ tombstones' = {}
  /\ \/ /\ LeftOver = {}
        /\ FailWithNetworkError(Running)
        /\ pending' = [i \in Ids |-> NoReq]
        /\ callback' = TRUE
     \/ /\ \E S \in SUBSET Running, r \in LeftOver : FailWithNetworkError(S \cup {r})
        /\ UNCHANGED <<pending, callback>>
  /\ UNCHANGED <<loop, sequence, id, source, answer, cleaned, assembly, peer>>

-----------------------------------------------------------------------------
(* The remote host.                                                        *)

Send(m) ==
  /\ stream = "open" /\ Len(wire) < MaxWire
  /\ wire' = Append(wire, m)
  /\ UNCHANGED <<stream, closed, loop, sequence, futures, tombstones,
                 assembly, callback, wireId>>

\* The remote sends the next frame of its response, possibly damaged on the way.
RemoteResponds(r) ==
  /\ remote[r] \in {"called", "streaming"} /\ sent[r] < MaxFrames
  /\ \E more, ok \in BOOLEAN :
       /\ more => sent[r] + 1 < MaxFrames
       /\ Send([type |-> IF remote[r] = "called" THEN "CALL_RES"
                         ELSE "CALL_RES_CONTINUE",
                id |-> wireId[r], more |-> more, ok |-> ok, of |-> r])
       /\ remote' = [remote EXCEPT ![r] = IF more THEN "streaming" ELSE "done"]
  /\ sent' = [sent EXCEPT ![r] = @ + 1]
  /\ UNCHANGED noise

RemoteFails(r) ==
  /\ remote[r] \in {"called", "streaming"}
  /\ Send([type |-> "ERROR", id |-> wireId[r], more |-> FALSE, ok |-> TRUE,
           of |-> r])
  /\ remote' = [remote EXCEPT ![r] = "done"]
  /\ UNCHANGED <<sent, noise>>

\* The remote numbers its own messages independently of ours.
RemoteNoise ==
  /\ noise < MaxNoise
  /\ noise' = noise + 1
  /\ \E t \in Noise, i \in Ids :
       Send([type |-> t, id |-> i, more |-> FALSE, ok |-> TRUE, of |-> NoReq])
  /\ UNCHANGED <<sent, remote>>

-----------------------------------------------------------------------------

OnMessage ==
  \/ OnMessageIgnored \/ OnCallResponse \/ OnCallResponseContinue
  \/ OnError \/ OnForeignFrame

Call(r) ==
  \/ SendRequest(r) \/ Transmit(r) \/ StreamFails(r)
  \/ AdaptResult(r) \/ RemoveOutstandingRequest(r) \/ RequestTimedOut(r)

Remote ==
  \/ \E r \in Requests : RemoteResponds(r) \/ RemoteFails(r)
  \/ RemoteNoise \/ RemoteClose

Next ==
  \/ \E r \in Requests : Call(r)
  \/ \E i \in Ids : Forget(i)
  \/ Step \/ OnMessage \/ OnReadError
  \/ Close \/ OnClose
  \/ Remote

\* The event loop runs what is scheduled on it: completed futures' callbacks,
\* timers whose time has come, and the stream's close callback.  Nothing is
\* assumed of the remote, nor of when anyone closes the connection.
Fairness ==
  /\ \A r \in Requests : WF_vars(AdaptResult(r)) /\ WF_vars(RequestTimedOut(r))
  /\ WF_vars(OnClose)

Spec == Init /\ [][Next]_vars /\ Fairness

-----------------------------------------------------------------------------
(* Properties.                                                             *)

\* A call that is neither answered nor failed is always registered under its own
\* id: otherwise no frame and no close could ever complete it.
RunningIsRegistered ==
  \A r \in Requests : future[r] = "running" => pending[id[r]] = r

\* The caller of a request is only ever handed the response the remote made for
\* that request, whatever other frames the remote sends and however late.
OwnAnswer ==
  \A r \in Requests : answer[r] = "response" => source[r] = r

\* A response or an error on its way to a waiting call carries the id under which
\* that call is registered, so that it completes that call and no other.
ResponseFindsCall ==
  \A k \in DOMAIN wire :
    LET r == wire[k].of IN
    r # NoReq => (future[r] = "running" => pending[wire[k].id] = r)

\* A frame that is ignored because its id has a tombstone never belongs to a call
\* that is still waiting ("recently timed out; safe to ignore").
TombstonesAreDead ==
  \A r \in Requests : future[r] = "running" => id[r] \notin tombstones

\* A response whose arguments are complete has been put together from all the
\* frames the remote sent, none skipped, none counted twice.
CompleteMeansAll ==
  \A r \in Requests :
    body[r] = "complete" => remote[r] = "done" /\ frames[r] = sent[r]

\* While the connection lives, a partly assembled response has an entry in the
\* dictionary: its later frames still reach it, and it is dropped with the entry.
BufferedIsRegistered ==
  stream # "closed" =>
    \A i \in Ids : buffer[i] # NoReq => pending[i] = buffer[i]

\* A step of _on_close.
Closing == stream = "shut" /\ stream' = "closed"

\* A complete call the close handler finds in the dictionary all the same: its
\* response is still being streamed or is damaged, or its request was not written.
HalfDone(r) ==
  /\ r \in Registered
  /\ \/ future[r] = "response" /\ body[r] \in {"open", "failed"}
     \/ future[r] = "write_error"

\* Neither future of a call is completed twice: not by a timer that races a
\* response, a response that races the close, or a write that fails late.  Only
\* _on_close does it, and only to a call that is half done: a whole response, a
\* timeout or an error of the remote is never replaced.
KeepsCompleted ==
  \A r \in Requests :
    /\ future[r] \in Outcomes =>
         /\ source'[r] = source[r]
         /\ future'[r] = future[r] \/ (Closing /\ HalfDone(r))
    /\ answer[r] \in Answers => answer'[r] = answer[r]

CompletedOnce == [][KeepsCompleted]_vars

\* A close fails every call that is outstanding, and tells the Peer, unless it met
\* a call that is half done.
FailsAll ==
  Closing => \/ callback' /\ (\A r \in Requests : future'[r] # "running")
             \/ \E r \in Requests : HalfDone(r)

CloseFailsAll == [][FailsAll]_vars

\* Every call made is answered, with a response or an error.
EveryCallAnswered ==
  \A r \in Requests : answer[r] = "waiting" ~> answer[r] \in Answers

=============================================================================
