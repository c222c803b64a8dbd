------------------------------- MODULE Server -------------------------------
(***************************************************************************)
(* The serving half of a connection: serve and the Writer of               *)
(* tornado/connection.py, RequestDispatcher of tornado/dispatch.py, the    *)
(* request half of tornado/message_factory.py, the Response of             *)
(* tornado/response.py and post_response.                                  *)
(*                                                                         *)
(* Four coroutines work on a call: serve builds the request from frames,   *)
(* handle_call reads it and runs the handler, post_response, started       *)
(* before the handler, turns what the handler writes into frames, and the  *)
(* Writer puts frames on the wire.  They meet in the argument streams.     *)
(*                                                                         *)
(* A coroutine whose read or write is complete goes on in the same turn of *)
(* the event loop; the model lets the others act in between as well.       *)
(***************************************************************************)
EXTENDS ArgStream, Schemes, Naturals, Sequences, FiniteSets

CONSTANTS
  Calls,      \* the calls made to this server, each with its own message id
  Cases       \* the calls looked at: [returns, target, proc, layout], see below,
              \* the coroutines an old-style handler reads with, and the chunks
              \* it writes at most

Arg == 1 .. 3
Readers == {"main", "extra"}
Targets == {"known", "mismatch", "unknown", "garbled"}

ASSUME ServerAssumption ==
  /\ MaxChunk \in Nat \ {0}
  /\ \A x \in Cases :
       /\ x.returns \in BOOLEAN /\ x.target \in Targets /\ x.proc \in Procedures
       /\ x.layout \in Seq(Seq({0, 1})) /\ x.layout # <<>>
       /\ x.target = "garbled" => x.layout[1][1] # Empty
       /\ x.readers \subseteq Readers /\ x.writes \in Nat

VARIABLES
  open,       \* the stream to the caller is open
  returns,    \* _handler_returns_response of the dispatcher
  target,     \* the endpoint asked for: registered, under another scheme, unknown, or
              \* with a chunk that is not UTF-8, a character cut by a frame included
  proc,       \* the procedure behind it
  work,       \* the readers and writes of its handler
  layout,     \* the frames of each request: the chunk each has for an argument
  next,       \* the frame that comes next
  chain,      \* the running checksum in in_checksum agrees with the caller's
  buffer,     \* calls in request_message_factory.message_buffer
  in,         \* request.argstreams
  fed, got,   \* chunks written to them, and read from them in order
  pc,         \* where handle_call is
  rd,         \* the coroutines that read the request: [arg, st]
  early,      \* readers that were given b"" before the end of an argument
  out,        \* response.argstreams
  wrote,      \* chunks the handler has written
  flushed,    \* the handler has called flush() itself
  code,       \* response.code
  result,     \* what the user's function did
  post,       \* where _stream is in the response
  frames,     \* frames given to the Writer for each call, in order
  seen,       \* what a caller makes of those: [at, args, code]
  queue,      \* writer.queue
  writer,     \* "off"; "next": next_write scheduled; "get"; "ended"
  wire,       \* frames written to the stream for each call
  pendings    \* total_outbound_pendings

request  == <<layout, next, chain, buffer, in, fed>>
reading  == <<got, rd, early>>
response == <<out, wrote, flushed, code, result>>
setting  == <<returns, target, proc, work>>
output   == <<frames, seen, queue, writer>>
vars == <<open, setting, request, reading, pc, response, post, output, wire,
          pendings>>

-----------------------------------------------------------------------------

ReaderStates == {"off", "go", "wait", "more", "end", "failed"}
PostStates == ReaderStates \cup {"write", "final", "done", "stopped", "finished"}
FrameKinds == {"part", "last", "error", "unexpected"}

\* The states of streams and coroutines; a response is taken off
\* total_outbound_pendings once at most.
TypeOK ==
  /\ open \in BOOLEAN /\ returns \in BOOLEAN
  /\ target \in [Calls -> Targets]
  /\ proc \in [Calls -> Procedures]
  /\ work \in [Calls -> [readers : SUBSET Readers, writes : Nat]]
  /\ layout \in [Calls -> Seq(Seq({0, 1}))]
  /\ next \in [Calls -> Nat \ {0}]
  /\ chain \in [Calls -> BOOLEAN]
  /\ buffer \subseteq Calls
  /\ in \in [Calls -> [Arg -> Streams(Readers)]]
  /\ fed \in [Calls -> [Arg -> Nat]]
  /\ got \in [Calls -> [Arg -> Seq(Nat)]]
  /\ pc \in [Calls -> {"idle", "name", "hook", "body", "header", "run", "ended",
                       "tchannel", "other", "refused", "dead"}]
  /\ rd \in [Calls -> [Readers -> [arg : Arg, st : ReaderStates]]]
  /\ early \in [Calls -> SUBSET Readers]
  /\ out \in [Calls -> [Arg -> Streams({"post"})]]
  /\ wrote \in [Calls -> [Arg -> Nat]]
  /\ flushed \in [Calls -> BOOLEAN]
  /\ code \in [Calls -> {OK, FAILED}]
  /\ result \in [Calls -> Results \cup {"pending"}]
  /\ post \in [Calls -> [arg : Arg, first : BOOLEAN, args : Seq(Seq(Nat)),
                         hand : Seq(Nat), st : PostStates]]
  /\ frames \in [Calls -> Seq(FrameKinds)]
  /\ seen \in [Calls -> [at : Arg, args : [Arg -> Seq(Nat)], code : {OK, FAILED}]]
  /\ queue \in Seq(Calls \X FrameKinds)
  /\ writer \in {"off", "next", "get", "ended"}
  /\ wire \in [Calls -> Seq(FrameKinds)]
  /\ pendings \in Nat

NoChunks == [k \in Arg |-> <<>>]

Init ==
  /\ open = TRUE
  /\ \E case \in [Calls -> Cases] :
       /\ returns \in BOOLEAN /\ \A c \in Calls : returns = case[c].returns
       /\ target = [c \in Calls |-> case[c].target]
       /\ proc = [c \in Calls |-> case[c].proc]
       /\ work = [c \in Calls |-> [readers |-> case[c].readers,
                                   writes |-> case[c].writes]]
       /\ layout = [c \in Calls |-> case[c].layout]
  /\ next = [c \in Calls |-> 1]
  /\ chain = [c \in Calls |-> TRUE]
  /\ buffer = {}
  /\ in = [c \in Calls |-> [k \in Arg |-> NewStream]]
  /\ fed = [c \in Calls |-> [k \in Arg |-> 0]]
  /\ got = [c \in Calls |-> NoChunks]
  /\ pc = [c \in Calls |-> "idle"]
  /\ rd = [c \in Calls |-> [r \in Readers |-> [arg |-> 1, st |-> "off"]]]
  /\ early = [c \in Calls |-> {}]
  /\ out = [c \in Calls |-> [k \in Arg |-> NewStream]]
  /\ wrote = [c \in Calls |-> [k \in Arg |-> 0]]
  /\ flushed = [c \in Calls |-> FALSE]
  /\ code = [c \in Calls |-> OK]
  /\ result = [c \in Calls |-> "pending"]
  /\ post = [c \in Calls |-> [arg |-> 1, first |-> TRUE, args |-> <<>>,
                              hand |-> <<>>, st |-> "off"]]
  /\ frames = [c \in Calls |-> <<>>]
  /\ seen = [c \in Calls |-> [at |-> 1, args |-> NoChunks, code |-> OK]]
  /\ queue = <<>> /\ writer = "off"
  /\ wire = [c \in Calls |-> <<>>]
  /\ pendings = 0

-----------------------------------------------------------------------------
(* Frames out: Writer.put, and what the caller at the other end builds.    *)

\* put: the queue is drained from the first message on.
Put(c, kind) ==
  /\ frames' = [frames EXCEPT ![c] = Append(@, kind)]
  /\ queue' = Append(queue, <<c, kind>>)
  /\ writer' = IF writer = "off" THEN "next" ELSE writer

\* send_error.
SendError(c, kind) == Put(c, kind) /\ UNCHANGED seen

\* build_raw_response_message: the first frame carries response.code.
PutResponse(c, kind, args) ==
  /\ Put(c, kind)
  /\ seen' = [seen EXCEPT ![c] =
       [at |-> @.at + Len(args) - 1,
        args |-> [k \in Arg |->
                    IF k - @.at + 1 \in DOMAIN args
                    THEN @.args[k] \o args[k - @.at + 1] ELSE @.args[k]],
        code |-> IF \E i \in DOMAIN frames[c] : frames[c][i] = "part"
                 THEN @.code ELSE code[c]]]

\* A write that is over lets _stream go on; one that fails ends it.
Resume(c, kind, ok) ==
  post' = [post EXCEPT ![c].st =
             IF kind \notin {"part", "last"} THEN @
             ELSE IF ~ok THEN "stopped"
             ELSE IF kind = "part" THEN "go" ELSE "done"]

\* next_write: a closed stream ends the draining of the queue for good.
NextWrite ==
  /\ writer = "next"
  /\ writer' = IF open THEN "get" ELSE "ended"
  /\ UNCHANGED <<open, setting, request, reading, pc, response, post, frames,
                 seen, queue, wire, pendings>>

\* on_message and on_write.
OnMessage ==
  /\ writer = "get" /\ queue # <<>>
  /\ LET c == Head(queue)[1]
         kind == Head(queue)[2] IN
     /\ wire' = IF open THEN [wire EXCEPT ![c] = Append(@, kind)] ELSE wire
     /\ Resume(c, kind, open)
  /\ queue' = Tail(queue)
  /\ writer' = "next"
  /\ UNCHANGED <<open, setting, request, reading, pc, response, frames, seen,
                 pendings>>

-----------------------------------------------------------------------------
(* Frames in: serve, handle_pre_call and the message factory.              *)

\* The first stream that is not closed, or the first one when all are: where
\* the factory writes the first argument of a continue frame.
Incomplete(s) ==
  LET I == {k \in Arg : ~s[k].done} IN
  IF I = {} THEN 1 ELSE CHOOSE k \in I : \A j \in I : k <= j

\* Mutant of Deliver: the last argument is not closed with the last frame.
DeliverLeavesOpen(s, n, args, dst, last) ==
  LET end == dst + Len(args) - 1
      written(k) == IF k \in dst .. end
                    THEN Write(s[k], IF args[k - dst + 1] = Empty THEN Empty
                                     ELSE n[k] + 1)
                    ELSE s[k] IN
  [k \in Arg |-> IF k < end THEN CloseStream(written(k)) ELSE written(k)]

\* The frame's arguments go to the streams from dst on; all but the last of
\* them are closed, and the last as well when no more frames follow.
Deliver(s, n, args, dst, last) ==
  LET end == dst + Len(args) - 1
      written(k) == IF k \in dst .. end
                    THEN Write(s[k], IF args[k - dst + 1] = Empty THEN Empty
                                     ELSE n[k] + 1)
                    ELSE s[k] IN
  [k \in Arg |-> IF k < end \/ (k = end /\ last) THEN CloseStream(written(k))
                 ELSE written(k)]

Count(n, args, dst) ==
  [k \in Arg |-> IF k - dst + 1 \in DOMAIN args THEN n[k] + args[k - dst + 1]
                 ELSE n[k]]

\* The next frame of c, and whether more follow.
FrameOf(c) == layout[c][next[c]]
IsLast(c) == next[c] = Len(layout[c])

Arrives(c) ==
  /\ open /\ next[c] <= Len(layout[c])
  /\ next' = [next EXCEPT ![c] = @ + 1]
  /\ UNCHANGED <<open, setting, layout, got, early, response, post, wire, pendings>>

\* A CALL_REQ: build_request, and handle_call starts by reading arg1.
CallReq(c) ==
  /\ Arrives(c) /\ next[c] = 1
  /\ \/ /\ in' = [in EXCEPT ![c] = Deliver(@, fed[c], FrameOf(c), 1, IsLast(c))]
        /\ fed' = [fed EXCEPT ![c] = Count(@, FrameOf(c), 1)]
        /\ buffer' = IF IsLast(c) THEN buffer ELSE buffer \cup {c}
        /\ pc' = [pc EXCEPT ![c] = "name"]
        /\ rd' = [rd EXCEPT ![c]["main"] = [arg |-> 1, st |-> "go"]]
        /\ UNCHANGED <<chain, output>>
     \/ \* verify_message raises: nothing is kept of the call.
        /\ chain' = [chain EXCEPT ![c] = FALSE]
        /\ SendError(c, "error")
        /\ UNCHANGED <<in, fed, buffer, pc, rd>>

\* A CALL_REQ_CONTINUE.  A frame that does not verify fails the argument it
\* continues, and the running checksum never agrees again.
CallReqContinue(c) ==
  /\ Arrives(c) /\ next[c] > 1
  /\ LET dst == Incomplete(in[c]) IN
     \/ /\ c \notin buffer
        /\ SendError(c, "error")
        /\ UNCHANGED <<in, fed, buffer, chain>>
     \/ /\ c \in buffer /\ chain[c]
        /\ in' = [in EXCEPT ![c] = Deliver(@, fed[c], FrameOf(c), dst, IsLast(c))]
        /\ fed' = [fed EXCEPT ![c] = Count(@, FrameOf(c), dst)]
        /\ buffer' = IF IsLast(c) THEN buffer \ {c} ELSE buffer
        /\ UNCHANGED <<chain, output>>
     \/ /\ c \in buffer
        /\ chain' = [chain EXCEPT ![c] = FALSE]
        /\ in' = [in EXCEPT ![c][dst] = SetException(@)]
        /\ SendError(c, "error")
        /\ UNCHANGED <<fed, buffer>>
  /\ UNCHANGED <<pc, rd>>

\* The caller goes away; frames not yet handled are dropped by _on_close.
Close ==
  /\ open /\ open' = FALSE
  /\ UNCHANGED <<setting, request, reading, pc, response, post, output, wire,
                 pendings>>

-----------------------------------------------------------------------------
(* Reading the request: get_arg, and the loop over arg1 in handle_call.    *)

\* read() on a stream that has something, or is at its end, answers at once; a
\* reader woken by notify is answered with what is there when its turn comes.
Reading(c, r) ==
  LET k == rd[c][r].arg
      s == in[c][k] IN
  /\ in' = [in EXCEPT ![c][k] = Rest(s, r)]
  /\ got' = [got EXCEPT ![c][k] = IF s.exc THEN @ ELSE @ \o Chunks(s)]
  /\ rd' = [rd EXCEPT ![c][r].st =
              IF ReadResult(s) = "more" THEN "go" ELSE ReadResult(s)]
  /\ early' = IF ReadResult(s) = "end" /\ ~s.done
              THEN [early EXCEPT ![c] = @ \cup {r}] ELSE early
  /\ UNCHANGED <<open, setting, layout, next, chain, buffer, fed, pc, response,
                 post, output, wire, pendings>>

ReadAtOnce(c, r) == rd[c][r].st = "go" /\ Ready(in[c][rd[c][r].arg]) /\ Reading(c, r)

ReadWhenWoken(c, r) ==
  rd[c][r].st = "wait" /\ r \in in[c][rd[c][r].arg].woken /\ Reading(c, r)

ReadWaits(c, r) ==
  /\ rd[c][r].st = "go" /\ ~Ready(in[c][rd[c][r].arg])
  /\ in' = [in EXCEPT ![c][rd[c][r].arg] = Wait(@, r)]
  /\ rd' = [rd EXCEPT ![c][r].st = "wait"]
  /\ UNCHANGED <<open, setting, layout, next, chain, buffer, fed, got, early, pc,
                 response, post, output, wire, pendings>>

-----------------------------------------------------------------------------
(* The response: what the handler does to it.                              *)

CloseIfOpen(s) == IF s.done THEN s ELSE CloseStream(s)

\* write_header and write_body raise after flush, and on a closed stream.
CanWrite(c, k) == ~flushed[c] /\ Writable(out[c][k])

\* Writing to the header closes arg1, writing to the body the header as well.
WriteArg(o, k, chunk) ==
  [j \in Arg |-> IF j = k THEN Write(o[j], chunk)
                 ELSE IF j < k THEN CloseIfOpen(o[j]) ELSE o[j]]

\* flush(), and close_argstreams: the streams close by themselves.
CloseArgStreams(o) == [k \in Arg |-> CloseStream(o[k])]

\* Mutant of FailArgStreams: the streams are closed, as by a normal end.
FailArgStreamsQuietly(o) == CloseArgStreams(o)

\* set_exception: sets it and closes each stream once more.
FailArgStreams(o) == [k \in Arg |-> CloseStream(SetException(o[k]))]

\* The end of handle_call.  A TChannelError is only reported: the streams of
\* the response stay as they are, and post_response waits on.
Ends(c, how, o) ==
  /\ pc' = [pc EXCEPT ![c] = IF how = "no" THEN "ended" ELSE how]
  /\ CASE how = "no" ->
            out' = [out EXCEPT ![c] = CloseArgStreams(o)] /\ UNCHANGED <<buffer, output>>
       [] how = "tchannel" ->
            /\ out' = [out EXCEPT ![c] = o]
            /\ SendError(c, "error") /\ UNCHANGED buffer
       [] how = "other" ->
            /\ out' = [out EXCEPT ![c] = FailArgStreams(o)]
            /\ buffer' = buffer \ {c}
            /\ SendError(c, "unexpected")

HandlerFrame ==
  UNCHANGED <<open, setting, layout, next, chain, in, fed, got, early, post, wire,
              pendings>>

\* A handler's result is written in one go: its code, the header, and the body
\* unless it is None.
WriteAll(c, h) ==
  LET hdr == WriteArg(out[c], 2, IF HeaderIsEmpty(proc[c]) THEN Empty ELSE 1) IN
  /\ code' = [code EXCEPT ![c] = h.status]
  /\ wrote' = [wrote EXCEPT ![c][2] = IF HeaderIsEmpty(proc[c]) THEN @ ELSE 1,
                            ![c][3] = IF h.body = "none" THEN @ ELSE 1]
  /\ Ends(c, "no", IF h.body = "none" THEN hdr ELSE WriteArg(hdr, 3, 1))

\* serialize_body raises after the header has been written.
SerializeFails(c, h) ==
  /\ h.body # "none" /\ proc[c].scheme # "raw"
  /\ code' = [code EXCEPT ![c] = h.status]
  /\ wrote' = [wrote EXCEPT ![c][2] = IF HeaderIsEmpty(proc[c]) THEN @ ELSE 1]
  /\ Ends(c, "other", WriteArg(out[c], 2, IF HeaderIsEmpty(proc[c]) THEN Empty ELSE 1))

\* What becomes of the response or the exception a wrapped function ends with.
Conclude(c, h) ==
  \/ h.raises = "no" /\ WriteAll(c, h)
  \/ h.raises = "no" /\ SerializeFails(c, h)
  \/ h.raises # "no" /\ Ends(c, h.raises, out[c]) /\ UNCHANGED <<code, wrote>>

-----------------------------------------------------------------------------
(* handle_call.                                                            *)

\* chunk.decode('utf8') raises for one of the chunks of the name that have been read.
DecodeFails(c) ==
  target[c] = "garbled" /\ got[c][1] # <<>> /\ rd[c]["main"].st \in {"go", "end"}

\* The endpoint name is complete and before_receive_request is fired, or reading or
\* decoding it raised, which ends handle_call and is in the future that
\* handle_pre_call drops: nothing is sent.
NameRead(c) ==
  /\ pc[c] = "name"
  /\ \/ /\ rd[c]["main"].st = "end" /\ ~DecodeFails(c)
        /\ pc' = [pc EXCEPT ![c] = "hook"]
     \/ /\ rd[c]["main"].st = "failed" \/ DecodeFails(c)
        /\ pc' = [pc EXCEPT ![c] = "dead"]
  /\ HandlerFrame /\ UNCHANGED <<buffer, rd, response, output>>

\* get_endpoint and the check of the 'as' header.  The fallback, not_found, is
\* called like any other handler.
GetEndpoint(c) == target[c]

\* The hooks have run.  Unless the scheme is wrong, post_response is started,
\* and then the handler, or the reading of what it is to be given.
Dispatch(c) ==
  /\ pc[c] = "hook"
  /\ IF GetEndpoint(c) = "mismatch"
     THEN /\ pc' = [pc EXCEPT ![c] = "refused"]
          /\ SendError(c, "error")
          /\ UNCHANGED <<post, pendings, rd>>
     ELSE /\ post' = [post EXCEPT ![c].st = "go"]
          /\ pendings' = pendings + 1
          /\ pc' = [pc EXCEPT ![c] = IF returns THEN "body" ELSE "run"]
          /\ rd' = IF returns
                   THEN [rd EXCEPT ![c]["main"] = [arg |-> 3, st |-> "go"]]
                   ELSE [rd EXCEPT ![c]["main"].st = "off"]
          /\ UNCHANGED output
  /\ UNCHANGED <<open, setting, request, got, early, response, wire>>

\* get_body and then get_header, each deserialized; both may raise.
ArgRead(c) ==
  /\ pc[c] \in {"body", "header"}
  /\ \/ /\ rd[c]["main"].st = "end"
        /\ pc' = [pc EXCEPT ![c] = IF @ = "body" THEN "header" ELSE "run"]
        /\ rd' = IF pc[c] = "body"
                 THEN [rd EXCEPT ![c]["main"] = [arg |-> 2, st |-> "go"]] ELSE rd
        /\ UNCHANGED <<out, buffer, output>>
     \/ /\ rd[c]["main"].st = "end" /\ target[c] # "unknown" /\ proc[c].scheme # "raw"
        /\ Ends(c, "other", out[c]) /\ UNCHANGED rd
     \/ /\ rd[c]["main"].st = "failed"
        /\ Ends(c, "tchannel", out[c]) /\ UNCHANGED rd
  /\ HandlerFrame /\ UNCHANGED <<wrote, flushed, code, result>>

\* not_found: the fallback raises BadRequestError.
NotFound(c) ==
  /\ pc[c] = "run" /\ target[c] = "unknown"
  /\ Ends(c, "tchannel", out[c])
  /\ HandlerFrame /\ UNCHANGED <<rd, wrote, flushed, code, result>>

Runs(c) == pc[c] = "run" /\ target[c] # "unknown"

\* A handler of the new style returns a response.
Returned(c) ==
  /\ Runs(c) /\ returns
  /\ \E res \in Results :
       /\ CanEnd(proc[c], res)
       /\ result' = [result EXCEPT ![c] = res]
       /\ Conclude(c, Handle(proc[c], res))
  /\ HandlerFrame /\ UNCHANGED <<rd, flushed>>

\* A handler of the old style may read the request, in several coroutines...
StartRead(c, r) ==
  /\ Runs(c) /\ ~returns /\ r \in work[c].readers
  /\ \E k \in {2, 3} :
       /\ rd[c][r].st = "off" \/ (rd[c][r] = [arg |-> 2, st |-> "end"] /\ k = 3)
       /\ r = "extra" => k = 3
       /\ rd' = [rd EXCEPT ![c][r] = [arg |-> k, st |-> "go"]]
  /\ HandlerFrame /\ UNCHANGED <<pc, buffer, response, output>>

\* ...write the response piece by piece (a write that raises ends it)...
WritePiece(c, k) ==
  /\ Runs(c) /\ ~returns /\ k \in {2, 3}
  /\ wrote[c][2] + wrote[c][3] < work[c].writes
  /\ IF CanWrite(c, k)
     THEN /\ wrote' = [wrote EXCEPT ![c][k] = @ + 1]
          /\ out' = [out EXCEPT ![c] = WriteArg(@, k, wrote[c][k] + 1)]
          /\ UNCHANGED <<pc, buffer, output>>
     ELSE Ends(c, "tchannel", out[c]) /\ UNCHANGED wrote
  /\ HandlerFrame /\ UNCHANGED <<rd, flushed, code, result>>

\* ...flush it...
Flush(c) ==
  /\ Runs(c) /\ ~returns /\ ~flushed[c] /\ work[c].writes > 0
  /\ flushed' = [flushed EXCEPT ![c] = TRUE]
  /\ out' = [out EXCEPT ![c] = CloseArgStreams(@)]
  /\ HandlerFrame /\ UNCHANGED <<pc, buffer, rd, wrote, code, result, output>>

\* ...and end, well or not.
Leaves(c) ==
  /\ Runs(c) /\ ~returns
  /\ \E how \in {"no", "tchannel", "other"} : Ends(c, how, out[c])
  /\ HandlerFrame /\ UNCHANGED <<rd, wrote, flushed, code, result>>

\* A Thrift handler of the old style: the header and the body have been read,
\* and its response is written at its end.
DeprecatedReturned(c) ==
  /\ Runs(c) /\ ~returns /\ ~flushed[c] /\ wrote[c] = [k \in Arg |-> 0]
  /\ proc[c].scheme = "thrift" /\ rd[c]["main"] = [arg |-> 3, st |-> "end"]
  /\ \E res \in Results, w \in {"none", "value"} :
       /\ CanEnd(proc[c], res)
       /\ result' = [result EXCEPT ![c] = IF res = "none" THEN w ELSE res]
       /\ Conclude(c, DeprecatedHandle(proc[c], w, res))
  /\ HandlerFrame /\ UNCHANGED <<rd, flushed>>

-----------------------------------------------------------------------------
(* post_response and _stream.                                              *)

PostFrame ==
  UNCHANGED <<open, setting, request, reading, pc, wrote, flushed, code, result,
              wire>>

\* Mutant of NextArgs: the list is not emptied after a frame.
NextArgsKept(p, chunk) == Append(p.args, chunk)

\* The arguments of the frame after the one that has just been put together.
NextArgs(p, chunk) == <<chunk>>

\* What _stream does with the answer to a read: the first chunk of an argument
\* joins the frame being put together, a later one completes that frame and
\* starts the next.  The end of arg3 makes the frame the last one.
Streamed(c, answer, chunk) ==
  LET p == post[c] IN
  \/ /\ answer = "failed"
     /\ post' = [post EXCEPT ![c].st = "stopped"] /\ UNCHANGED output
  \/ /\ answer # "failed" /\ p.first
     /\ post' = [post EXCEPT ![c].args = Append(@, chunk), ![c].first = FALSE,
                             ![c].st = "go", ![c].hand = <<>>]
     /\ UNCHANGED output
  \/ /\ answer = "more" /\ ~p.first
     /\ PutResponse(c, "part", p.args)
     /\ post' = [post EXCEPT ![c].args = NextArgs(p, chunk), ![c].st = "write",
                             ![c].hand = <<>>]
  \/ /\ answer = "end" /\ ~p.first /\ p.arg < 3
     /\ post' = [post EXCEPT ![c].arg = @ + 1, ![c].first = TRUE, ![c].st = "go"]
     /\ UNCHANGED output
  \/ /\ answer = "end" /\ ~p.first /\ p.arg = 3
     /\ PutResponse(c, "last", p.args)
     /\ post' = [post EXCEPT ![c].st = "final"]

PostReadsAtOnce(c) ==
  LET k == post[c].arg
      s == out[c][k] IN
  /\ post[c].st = "go" /\ Ready(s)
  /\ out' = [out EXCEPT ![c][k] = Rest(s, "post")]
  /\ Streamed(c, ReadResult(s), Chunks(s))
  /\ PostFrame /\ UNCHANGED pendings

PostWaits(c) ==
  /\ post[c].st = "go" /\ ~Ready(out[c][post[c].arg])
  /\ out' = [out EXCEPT ![c][post[c].arg] = Wait(@, "post")]
  /\ post' = [post EXCEPT ![c].st = "wait"]
  /\ PostFrame /\ UNCHANGED <<output, pendings>>

\* The wait is over: read_chunk answers in one turn of the event loop...
PostWoken(c) ==
  LET k == post[c].arg
      s == out[c][k] IN
  /\ post[c].st = "wait" /\ "post" \in s.woken
  /\ out' = [out EXCEPT ![c][k] = Rest(s, "post")]
  /\ post' = [post EXCEPT ![c].st = ReadResult(s),
                          ![c].hand = IF s.exc THEN <<>> ELSE Chunks(s)]
  /\ PostFrame /\ UNCHANGED <<output, pendings>>

\* ...and _stream goes on with the answer in a later one.
PostResumes(c) ==
  /\ post[c].st \in {"more", "end", "failed"}
  /\ Streamed(c, post[c].st, post[c].hand)
  /\ PostFrame /\ UNCHANGED <<out, pendings>>

\* Mutant of PostEnds: only a response that was sent is taken off the count.
PostEndsIfSent(c) ==
  /\ post[c].st = "done"
  /\ post' = [post EXCEPT ![c].st = "finished"]
  /\ pendings' = pendings - 1
  /\ out' = [out EXCEPT ![c] = CloseArgStreams(@)]
  /\ PostFrame /\ UNCHANGED output

\* The end of post_response, well or not.
PostEnds(c) ==
  /\ post[c].st \in {"done", "stopped"}
  /\ post' = [post EXCEPT ![c].st = "finished"]
  /\ pendings' = pendings - 1
  /\ out' = [out EXCEPT ![c] = CloseArgStreams(@)]
  /\ PostFrame /\ UNCHANGED output

-----------------------------------------------------------------------------

\* Nothing reads any more for a handle_call that an exception ended.
ReaderStep(c) ==
  /\ pc[c] # "dead"
  /\ \E r \in Readers : ReadAtOnce(c, r) \/ ReadWhenWoken(c, r) \/ ReadWaits(c, r)

\* What ends a handler; the model assumes that handlers end.
HandlerEnds(c) == Returned(c) \/ Leaves(c) \/ DeprecatedReturned(c) \/ NotFound(c)

PostStep(c) ==
  PostReadsAtOnce(c) \/ PostWaits(c) \/ PostWoken(c) \/ PostResumes(c) \/ PostEnds(c)

Next ==
  \/ NextWrite \/ OnMessage \/ Close
  \/ \E c \in Calls :
       \/ CallReq(c) \/ CallReqContinue(c)
       \/ ReaderStep(c)
       \/ NameRead(c) \/ Dispatch(c) \/ ArgRead(c)
       \/ HandlerEnds(c)
       \/ \E r \in Readers : StartRead(c, r)
       \/ \E k \in Arg : WritePiece(c, k)
       \/ Flush(c)
       \/ PostStep(c)

\* The event loop runs what is scheduled, the Writer drains its queue, and
\* handlers end.  Frames need not arrive and the stream need not stay open.
Fairness ==
  /\ WF_vars(NextWrite) /\ WF_vars(OnMessage)
  /\ \A c \in Calls :
       /\ WF_vars(ReaderStep(c)) /\ WF_vars(NameRead(c)) /\ WF_vars(Dispatch(c))
       /\ WF_vars(ArgRead(c)) /\ WF_vars(HandlerEnds(c)) /\ WF_vars(PostStep(c))

Spec == Init /\ [][Next]_vars /\ Fairness

-----------------------------------------------------------------------------
(* Properties.                                                             *)

Kinds(s) == {s[i] : i \in DOMAIN s}
Upto(n) == [i \in 1 .. n |-> i]
Rivals(c, k) == \A r \in Readers : rd[c][r].arg = k /\ rd[c][r].st # "off"

\* Each chunk of a request argument is read once, in the order it arrived, by
\* whichever coroutine reads it.
ReadInOrder ==
  \A c \in Calls, k \in Arg : got[c][k] \o in[c][k].buf = Upto(fed[c][k])

\* A coroutine that is the only reader of an argument is never given the empty
\* chunk that stands for the end while more is to come.  (With a second reader
\* it is: the one that is woken may find the chunk gone.)
AloneSeesTheEnd ==
  \A c \in Calls, r \in Readers :
    r \in early[c] => Rivals(c, rd[c][r].arg)

\* No wake-up is lost: a reader does not wait on a stream that has something for
\* it or is closed, unless another reader of the same stream got the wake-up.
NoLostWakeup ==
  \A c \in Calls, k \in Arg :
    /\ \A r \in Readers :
         (\E i \in DOMAIN in[c][k].waiting : in[c][k].waiting[i] = r)
           => ~Ready(in[c][k]) \/ Rivals(c, k)
    /\ out[c][k].waiting # <<>> => ~Ready(out[c][k])

\* A response that is marked complete carries everything the handler wrote, in
\* order, in the arguments it wrote it to, with the code the handler set.
CompleteIsWhole ==
  \A c \in Calls : "last" \in Kinds(frames[c]) =>
    /\ \A k \in Arg : seen[c].args[k] = Upto(wrote[c][k])
    /\ seen[c].code = code[c]

\* A caller is told that its call succeeded or that it failed, not both, unless
\* the handler flushed the response before it failed, or the request itself was
\* found to be damaged or incomplete after it had been dispatched.
NotBothEnds ==
  \A c \in Calls :
    /\ "last" \in Kinds(frames[c])
    /\ Kinds(frames[c]) \cap {"error", "unexpected"} # {}
    => flushed[c] \/ ~chain[c]

\* The last frame of a response is sent once, and no frame of it follows.
NothingAfterTheLast ==
  \A c \in Calls : \A i, j \in DOMAIN frames[c] :
    frames[c][i] = "last" /\ i < j => frames[c][j] \in {"error", "unexpected"}

\* What the caller makes of a complete response is what the function did: its
\* value, its declared exception, or the lack of a value, and nothing else,
\* whichever client interface reads it.
CallerSeesResult ==
  \A c \in Calls :
    "last" \in Kinds(frames[c]) /\ result[c] # "pending" =>
      LET h == IF returns THEN Handle(proc[c], result[c])
               ELSE DeprecatedHandle(proc[c], "none", result[c]) IN
      /\ Read(proc[c], h.body) \subseteq Expected(proc[c], result[c])
      /\ seen[c].code = FAILED <=> Read(proc[c], h.body) = {"raised"}

\* Every call whose frames have arrived is answered with a complete response or
\* an error, as long as the caller stays connected, unless its endpoint name was not
\* UTF-8: that call is given up, and its caller is left to its timeout.
Answered ==
  \A c \in Calls :
    next[c] > Len(layout[c])
      ~> \/ Kinds(wire[c]) \cap {"last", "error", "unexpected"} # {} \/ ~open
         \/ target[c] = "garbled" /\ pc[c] = "dead"

\* post_response ends, and the call leaves total_outbound_pendings, once the
\* handler has returned or failed, as long as the caller stays connected.  (A
\* TChannelError is no such end: the response is then waited for forever.)
PostSettles ==
  \A c \in Calls :
    pc[c] \in {"ended", "other"} /\ open ~> (post[c].st = "finished" \/ ~open)

\* The streams of a call deliver what is written to them: once, in order, to a reader that
\* is woken for it, and the end when it is the end.
StreamsDeliver == TypeOK /\ ReadInOrder /\ AloneSeesTheEnd /\ NoLostWakeup

\* The response that a caller takes as complete is the whole of it: nothing is missing
\* from what was sent up to the last frame, and nothing follows it.
ResponseIsWhole == CompleteIsWhole /\ NothingAfterTheLast
=============================================================================
