---------------------------- MODULE Fragmentation ---------------------------
(***************************************************************************)
(* The three arguments of a call on their way through the frames:          *)
(* StreamConnection._stream reads them chunk by chunk into messages,       *)
(* MessageFactory.fragment cuts each message into frames that fit, and     *)
(* MessageFactory.build puts the pieces of each frame into the argument    *)
(* streams of the other side.                                              *)
(*                                                                         *)
(* A frame does not say which argument its first piece belongs to: the     *)
(* receiver takes the first stream that is not complete.  A piece is named *)
(* by its argument and the range of its bytes, so that a misplaced one     *)
(* shows; the receiver only looks at how long it is.                       *)
(***************************************************************************)
EXTENDS Integers, Sequences

CONSTANTS
  ChunkSizes,  \* sizes of the chunks an argument is read in
  MaxChunks,   \* chunks in an argument
  FirstSpace,  \* bytes that the first frame of a call leaves to the arguments
  NextSpace    \* bytes that a continuation frame leaves to them

key_length == 2   \* bytes for the size of a piece
max_args_num == 3

\* The transport headers of a call and its checksum are far shorter than a frame.
ASSUME FragmentationAssumption ==
  /\ ChunkSizes \subseteq Nat \ {0} /\ MaxChunks \in Nat \ {0}
  /\ FirstSpace \in Nat /\ FirstSpace >= key_length
  /\ NextSpace \in Nat /\ NextSpace >= key_length

Arguments == 1 .. max_args_num
NoMessage == [args |-> <<>>, first |-> FALSE, last |-> FALSE]

VARIABLES
  cur,       \* the argument being read; one more than there are when all are read
  read,      \* chunks of it read so far, and 0 before the first read
  length,    \* length[a]: bytes of argument a read so far
  args,      \* pieces read and not yet in a message
  state,     \* state of the request: "init" until its first message is built
  out,       \* the message being fragmented, or NoMessage
  wire,      \* frames on their way
  streams,   \* argument streams of the receiver: chunks and whether it is completed
  outcome,   \* "ok", or the exception that ended the receiver
  exact      \* a piece ended key_length bytes before the end of its frame, and was not
             \* the last of its message

fragVars == <<cur, read, length, args, state, out, wire, streams, outcome, exact>>

\* The bytes of argument a after the first i, up to the j-th.
Piece(a, i, j) == [a |-> a, from |-> i, to |-> j]
Size(piece) == piece.to - piece.from

FragInit ==
  /\ cur = 1 /\ read = 0 /\ length = [a \in Arguments |-> 0]
  /\ args = <<>> /\ state = "init" /\ out = NoMessage /\ wire = <<>>
  /\ streams = [a \in Arguments |-> [chunks |-> <<>>, completed |-> FALSE]]
  /\ outcome = "ok" /\ exact = FALSE

-----------------------------------------------------------------------------
(* The sender.                                                             *)

\* build_raw_request_message and build_raw_response_message
RawMessage(pieces, is_completed) ==
  [args |-> pieces, first |-> state = "init", last |-> is_completed]

\* InMemStream.read: the n bytes of the argument that come next, none at its end.
ReadChunk(n) == Piece(cur, length[cur], length[cur] + n)

\* _stream: the first read of an argument goes into the message being collected.
StreamFirst(n) ==
  /\ out = NoMessage /\ cur \in Arguments /\ read = 0
  /\ args' = Append(args, ReadChunk(n))
  /\ length' = [length EXCEPT ![cur] = @ + n]
  /\ read' = 1
  /\ UNCHANGED <<cur, state, out, wire, streams, outcome, exact>>

\* What is collected for the next message once the last one was sent.
Collected(chunk) == <<chunk>>

\* _stream: a further chunk of an argument sends what was collected.
StreamMore(n) ==
  /\ out = NoMessage /\ cur \in Arguments
  /\ read > 0 /\ length[cur] > 0 /\ read < MaxChunks
  /\ out' = RawMessage(args, FALSE) /\ state' = "streaming"
  /\ args' = Collected(ReadChunk(n))
  /\ length' = [length EXCEPT ![cur] = @ + n]
  /\ read' = read + 1
  /\ UNCHANGED <<cur, wire, streams, outcome, exact>>

\* _stream: the end of an argument sends nothing.
StreamNext ==
  /\ out = NoMessage /\ cur \in Arguments /\ read > 0
  /\ cur' = cur + 1 /\ read' = 0
  /\ UNCHANGED <<length, args, state, out, wire, streams, outcome, exact>>

\* _stream: the last piece.
StreamLast ==
  /\ out = NoMessage /\ cur \notin Arguments /\ args # <<>>
  /\ out' = RawMessage(args, TRUE) /\ state' = "completed" /\ args' = <<>>
  /\ UNCHANGED <<cur, read, length, wire, streams, outcome, exact>>

\* Mutant of Boundary: an empty piece never follows an argument.
BoundaryNever(space_left) == FALSE

\* boundary for arg
Boundary(space_left) == space_left <= key_length

\* Mutant of Room: the two bytes of the size are not counted.
RoomUncounted(space_left) == space_left

Room(space_left) == space_left - key_length

\* CallContinueMessage.fragment, one argument: it stays in the frame, is cut at its
\* end, or goes to the next frame.
SplitArg(s, arg) ==
  LET room == Room(s.space)
      after == room - Size(arg)
      cut == arg.from + room
      overrun == s.exact \/ s.rest # <<>>
  IN  IF s.space < key_length
      THEN [s EXCEPT !.rest = Append(@, arg)]
      ELSE IF room < Size(arg)
      THEN [kept |-> Append(s.kept, [arg EXCEPT !.to = cut]),
            rest |-> Append(s.rest, [arg EXCEPT !.from = cut]),
            space |-> 0, exact |-> overrun]
      ELSE [kept |-> Append(s.kept, arg),
            rest |-> IF Boundary(after) THEN Append(s.rest, [arg EXCEPT !.from = arg.to])
                     ELSE s.rest,
            space |-> after, exact |-> overrun]

\* The loop over the arguments of a message, of which there are one to three.
Split(pieces, space_left) ==
  LET step(s, i) == IF i <= Len(pieces) THEN SplitArg(s, pieces[i]) ELSE s
      start == [kept |-> <<>>, rest |-> <<>>, space |-> space_left, exact |-> FALSE]
  IN  step(step(step(start, 1), 2), 3)

\* What length_no_args leaves of a frame.
Space(first) == IF first THEN FirstSpace ELSE NextSpace

\* MessageFactory.fragment: one frame is written, the rest becomes the next message.
SendFragment ==
  /\ out # NoMessage
  /\ LET s == Split(out.args, Space(out.first))
         fragmented == s.rest # <<>>
     IN  /\ wire' = Append(wire, [args |-> s.kept, first |-> out.first,
                                  last |-> out.last /\ ~fragmented])
         /\ out' = IF fragmented THEN [args |-> s.rest, first |-> FALSE, last |-> out.last]
                   ELSE NoMessage
         /\ exact' = (exact \/ s.exact)
  /\ UNCHANGED <<cur, read, length, args, state, streams, outcome>>

-----------------------------------------------------------------------------
(* The receiver.                                                           *)

\* The first stream that is not completed, or the first one.
Incomplete ==
  IF \A a \in Arguments : streams[a].completed THEN 1
  ELSE CHOOSE a \in Arguments :
         ~streams[a].completed /\ \A b \in 1 .. a - 1 : streams[b].completed

\* close_argstream: the streams before the last one written are complete, and that
\* one too when the message is.
Close(s, dst, frame) ==
  [a \in Arguments |-> [s[a] EXCEPT !.completed = @ \/ a < dst \/ (frame.last /\ a = dst)]]

\* InMemStream.write: an empty chunk is no chunk.
Write(stream, piece) ==
  IF Size(piece) = 0 THEN stream ELSE [stream EXCEPT !.chunks = Append(@, piece)]

\* The pieces of a frame go to the streams from dst on.
Written(frame, dst) ==
  [a \in Arguments |->
    IF a \in dst .. dst + Len(frame.args) - 1
    THEN Write(streams[a], frame.args[a - dst + 1]) ELSE streams[a]]

\* MessageFactory.build: a stream beyond the third is an IndexError, a write to a
\* completed one an UnexpectedError.
Build ==
  /\ wire # <<>> /\ outcome = "ok"
  /\ LET frame == Head(wire)
         dst == IF frame.first THEN 1 ELSE Incomplete
         end == dst + Len(frame.args) - 1
     IN  IF streams[dst].completed
         THEN outcome' = "UnexpectedError" /\ UNCHANGED streams
         ELSE IF end > max_args_num
         THEN outcome' = "IndexError" /\ streams' = Written(frame, dst)
         ELSE streams' = Close(Written(frame, dst), end, frame) /\ UNCHANGED outcome
  /\ wire' = Tail(wire)
  /\ UNCHANGED <<cur, read, length, args, state, out, exact>>

FragNext ==
  \/ \E n \in ChunkSizes \cup {0} : StreamFirst(n)
  \/ \E n \in ChunkSizes : StreamMore(n)
  \/ StreamNext \/ StreamLast \/ SendFragment \/ Build

FragSpec == FragInit /\ [][FragNext]_fragVars

-----------------------------------------------------------------------------
(* Properties.                                                             *)

Pieces == {p \in [a : Arguments, from : Nat, to : Nat] : p.from <= p.to}
\* What a frame or a message holds: one to three pieces.
Frames ==
  {f \in [args : Seq(Pieces), first : BOOLEAN, last : BOOLEAN] :
     Len(f.args) \in 1 .. max_args_num}

\* Messages and frames are built of one to three pieces, and every stream holds pieces.
FragTypeOK ==
  /\ cur \in 1 .. max_args_num + 1 /\ read \in Nat /\ length \in [Arguments -> Nat]
  /\ args \in Seq(Pieces) /\ Len(args) <= max_args_num
  /\ state \in {"init", "streaming", "completed"}
  /\ out \in Frames \cup {NoMessage} /\ wire \in Seq(Frames)
  /\ streams \in [Arguments -> [chunks : Seq(Pieces), completed : BOOLEAN]]
  /\ outcome \in {"ok", "IndexError", "UnexpectedError"} /\ exact \in BOOLEAN

\* The bytes that up to three pieces take in a frame.
Used(pieces) ==
  LET n(i) == IF i <= Len(pieces) THEN key_length + Size(pieces[i]) ELSE 0
  IN  n(1) + n(2) + n(3)

\* "list of messages whose sizes <= max payload size": every frame fits.
FramesFit == \A k \in DOMAIN wire : Used(wire[k].args) <= Space(wire[k].first)

\* The chunks follow each other from the first byte of argument a on.
Consecutive(chunks, a) ==
  \A i \in 1 .. Len(chunks) :
    /\ chunks[i].a = a
    /\ chunks[i].from = IF i = 1 THEN 0 ELSE chunks[i - 1].to

\* The bytes a stream has received.
Received(chunks) == IF chunks = <<>> THEN 0 ELSE chunks[Len(chunks)].to

\* Each stream of the receiver has received the beginning of its own argument, the whole
\* of it when it is completed, and nothing else; no frame is an error.
EachInItsStream ==
  /\ outcome = "ok"
  /\ \A a \in Arguments :
       /\ Consecutive(streams[a].chunks, a) /\ Received(streams[a].chunks) <= length[a]
       /\ streams[a].completed => a < cur /\ Received(streams[a].chunks) = length[a]

\* However the arguments are chunked and cut, they arrive in their streams, as long as
\* no argument ends exactly key_length bytes before the end of a frame.
ArriveUnlessExact == ~exact => EachInItsStream

\* Nothing is left to do: every stream is completed.
Sent == cur \notin Arguments /\ args = <<>> /\ out = NoMessage /\ wire = <<>>
AllArriveUnlessExact ==
  Sent /\ ~exact => \A a \in Arguments : streams[a].completed

\* The frames that are cut are within their limits.
FramesAreSound == FragTypeOK /\ FramesFit

\* However the arguments are chunked and cut, each arrives, whole and in its own stream,
\* as long as none ends exactly key_length bytes before the end of a frame.
ArgumentsArrive == ArriveUnlessExact /\ AllArriveUnlessExact
=============================================================================
