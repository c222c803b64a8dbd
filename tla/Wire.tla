-------------------------------- MODULE Wire --------------------------------
(***************************************************************************)
(* Messages on a connection as the bytes they are: Writer._enqueue and the *)
(* checksums of MessageFactory on one side, read_message, Reader and the   *)
(* receive loop on the other.                                              *)
(*                                                                         *)
(* The sender interleaves the frames of several calls with other messages. *)
(* A frame may be damaged on its way or made by a faulty peer: cut short,  *)
(* with a length that agrees; of an unknown type; or with a wrong byte.    *)
(* The stream is reliable until it is closed, which loses its end.         *)
(*                                                                         *)
(* How a message is encoded is a parameter, for which Codec is put in.     *)
(***************************************************************************)
EXTENDS Messages

CONSTANTS
  Fits(_),     \* the message and its frame can be encoded
  BodyOf(_),   \* the bytes of its frame that follow the size
  Planned(_),  \* the length MessageFactory.fragment reckons with
  BodyRead(_), \* what the bytes that follow the size are read as
  Calls,       \* Calls[id]: the messages of a call, in order, before their checksums
  Others,      \* messages that are no part of a call
  MaxOthers,   \* how many of them are sent
  Cuts,        \* how many bytes a cut frame may miss
  MaxFrames,   \* frames sent
  MaxDamaged   \* of those, damaged

VARIABLES
  part,          \* part[id]: the message of the call to be sent next, 0 if it was given up
  sent,          \* the frames: the message, the bytes after the size, whether they were
                 \* damaged, the length the frame was planned to have, and whether the
                 \* bytes are read as they should be
  out_checksum, in_checksum,   \* of the two MessageFactorys
  stream,        \* bytes not yet read
  broken,        \* the stream is closed
  size,          \* size of the frame being read, 0 before it is known
  filling,       \* Reader.filling
  reading,       \* a read_message is under way
  queue,         \* Reader.queue
  waiting,       \* the receive loop waits for Reader.get
  got            \* what the loop got: the results of read_message and of verify_message

wireVars == <<part, sent, out_checksum, in_checksum, stream, broken, size, filling, reading, queue,
              waiting, got>>

Ids == DOMAIN Calls

\* The messages of a call carry its id and a checksum, and the last one says so; other
\* messages carry no checksum.
ASSUME CallsAssumption ==
  /\ MaxFrames \in Nat
  /\ \A id \in Ids :
       /\ Len(Calls[id]) \in Nat
       /\ \A k \in 1 .. Len(Calls[id]) :
            LET m == Calls[id][k] IN
            /\ m = Message(m.type, id, m.body) /\ m.type \in CHECKSUM_MSG_TYPES
            /\ m.body = [a \in DOMAIN m.body |-> m.body[a]]
            /\ {"flags", "checksum", "args"} \subseteq DOMAIN m.body
            /\ m.body.flags = 0 <=> k = Len(Calls[id])
            /\ \A a \in DOMAIN m.body.args : AsBytes(m.body.args[a]) \in Seq(Bytes)
  /\ \A m \in Others : m.type \notin CHECKSUM_MSG_TYPES

StreamClosed == Fail("StreamClosedError")
Ended == got # <<>> /\ Last(got).err = "StreamClosedError"

WireInit ==
  /\ part = [id \in Ids |-> 1]
  /\ sent = <<>> /\ out_checksum = <<>> /\ in_checksum = <<>>
  /\ stream = <<>> /\ broken = FALSE
  /\ size = 0 /\ filling = FALSE /\ reading = FALSE /\ queue = <<>> /\ waiting = FALSE /\ got = <<>>

-----------------------------------------------------------------------------
(* The sender.                                                             *)

\* dict.get(id, 0), with sums as in Messages.
SumOf(sums, id) == IF id \in DOMAIN sums THEN sums[id] ELSE <<0>>
Without(sums, id) == [i \in DOMAIN sums \ {id} |-> sums[i]]
With(sums, id, csum) == [i \in DOMAIN sums \cup {id} |-> IF i = id THEN csum ELSE sums[i]]

\* Both factories keep the sum until the last message of the call.
After(sums, m) ==
  IF m.body.flags = 0 THEN Without(sums, m.id) ELSE With(sums, m.id, m.body.checksum[2])

\* What may happen to a frame: the bytes after its size.
Harm(body, cuts) ==
  {[body EXCEPT ![1] = 77], [body EXCEPT ![Len(body)] = 65]}
    \cup {SubSeq(body, 1, Len(body) - n) : n \in {c \in cuts : c <= Len(body)}}

Damaged == {i \in DOMAIN sent : sent[i].damaged}

\* FrameReadWriter: the size of a frame, in two bytes, counts itself.
size_width == 2
MaxSize == 65535
WriteSize(n) == <<n \div 256, n % 256>>
SizeOf(bytes) == 256 * bytes[1] + bytes[2]
Frame(body) == WriteSize(size_width + Len(body)) \o body

\* A frame consists of bytes that fit its size, read as the message it was made of, whole
\* (AsRead); a damaged one is read as an error or as a message of the same type and id.
ReadsBack(m, body, damaged) ==
  LET r == BodyRead(body)
  IN  /\ body \in Seq(Bytes) /\ size_width + Len(body) <= MaxSize
      /\ r.err # StreamClosed.err
      /\ ~damaged => r.err = Ok /\ r.value = AsRead(m)
      /\ r.err = Ok => r.value.type = m.type /\ r.value.id = m.id

\* _enqueue: the frame goes out.
SendFrame(m, planned, body, damaged) ==
  /\ stream' = stream \o Frame(body)
  /\ sent' = Append(sent, [message |-> m, body |-> body, damaged |-> damaged,
                           planned |-> planned, sound |-> ReadsBack(m, body, damaged)])

Enqueue(m, planned) ==
  LET whole == BodyOf(m) IN
  \/ SendFrame(m, planned, whole, FALSE)
  \/ /\ Cardinality(Damaged) < MaxDamaged
     /\ \E body \in Harm(whole, Cuts) \ {whole} : SendFrame(m, planned, body, TRUE)

\* The next message of a call, with its checksum (MessageFactory.generate_checksum).  A
\* message that does not fit its fields is not sent, and the rest of the call with it.
SendCall(id) ==
  /\ ~broken /\ Len(sent) < MaxFrames /\ part[id] \in 1 .. Len(Calls[id])
  /\ LET m == generate_checksum(Calls[id][part[id]], SumOf(out_checksum, id)) IN
     /\ out_checksum' = After(out_checksum, m)
     /\ \/ /\ Fits(m) /\ Enqueue(m, Planned(Calls[id][part[id]]))
           /\ part' = [part EXCEPT ![id] = @ + 1]
        \/ ~Fits(m) /\ part' = [part EXCEPT ![id] = 0] /\ UNCHANGED <<stream, sent>>
  /\ UNCHANGED <<in_checksum, broken, size, filling, reading, queue, waiting, got>>

SendOther(m) ==
  /\ ~broken /\ Len(sent) < MaxFrames /\ Fits(m)
  /\ Cardinality({i \in DOMAIN sent : sent[i].message.type \notin CHECKSUM_MSG_TYPES})
       < MaxOthers
  /\ Enqueue(m, Planned(m))
  /\ UNCHANGED <<part, out_checksum, in_checksum, broken, size, filling, reading, queue,
                 waiting, got>>

\* The stream is closed; of the bytes on their way, some are lost.
StreamCloses ==
  /\ ~broken /\ broken' = TRUE
  /\ \E n \in {0, 1, 17, Len(stream) - 1, Len(stream)} \cap (0 .. Len(stream)) :
       stream' = SubSeq(stream, 1, n)
  /\ UNCHANGED <<part, sent, out_checksum, in_checksum, size, filling, reading, queue,
                 waiting, got>>

-----------------------------------------------------------------------------
(* read_message and Reader.                                                *)

\* on_read_size
ReadSize ==
  /\ reading /\ size = 0 /\ Len(stream) >= size_width
  /\ size' = SizeOf(stream)
  /\ stream' = SubSeq(stream, size_width + 1, Len(stream))
  /\ UNCHANGED <<part, sent, out_checksum, in_checksum, broken, filling, reading, queue, waiting,
                 got>>

BodySize == size - size_width


\* keep_reading: an error ends the filling, until somebody asks for a message again.
Filling(item) == item.err = Ok

\* The bytes of a frame are there.
OnBody == reading /\ size # 0 /\ Len(stream) >= BodySize /\ size' = 0

\* on_body, then keep_reading: the message or its error is queued.
ReadMessage ==
  /\ OnBody
  /\ LET item == BodyRead(SubSeq(stream, 1, BodySize)) IN
     queue' = Append(queue, item) /\ filling' = Filling(item) /\ reading' = (item.err = Ok)
  /\ stream' = SubSeq(stream, BodySize + 1, Len(stream))
  /\ UNCHANGED <<part, sent, out_checksum, in_checksum, broken, waiting, got>>

\* The stream is closed before the bytes are there.
ReadFails ==
  /\ reading /\ broken
  /\ Len(stream) < IF size = 0 THEN size_width ELSE BodySize
  /\ queue' = Append(queue, StreamClosed)
  /\ filling' = FALSE /\ reading' = FALSE
  /\ UNCHANGED <<part, sent, out_checksum, in_checksum, stream, broken, size, waiting, got>>

\* Reader.get, which starts to fill the queue when nobody does; _step of the loop.
ReaderGet ==
  /\ ~waiting /\ ~Ended
  /\ waiting' = TRUE /\ filling' = TRUE /\ reading' = (reading \/ ~filling)
  /\ UNCHANGED <<part, sent, out_checksum, in_checksum, stream, broken, size, queue, got>>

\* The future of Reader.get has its result.
OnItem == waiting /\ queue # <<>> /\ waiting' = FALSE

\* _on_message: the first of the queue; MessageFactory.verify_message for calls.
OnMessage ==
  /\ OnItem
  /\ LET item == Head(queue)
         m == item.value
         ofCall == item.err = Ok /\ m.type \in CHECKSUM_MSG_TYPES
         verified == verify_checksum(m, SumOf(in_checksum, m.id))
     IN  /\ got' = Append(got, IF ofCall /\ ~verified THEN Fail("InvalidChecksumError")
                               ELSE [err |-> item.err, value |-> m, rest |-> None])
         /\ in_checksum' = IF ~ofCall THEN in_checksum
                           ELSE IF verified THEN After(in_checksum, m)
                           ELSE Without(in_checksum, m.id)
  /\ queue' = Tail(queue)
  /\ UNCHANGED <<part, sent, out_checksum, stream, broken, size, filling, reading>>

WireNext ==
  \/ \E id \in Ids : SendCall(id)
  \/ \E m \in Others : SendOther(m)
  \/ StreamCloses \/ ReadSize \/ ReadMessage \/ ReadFails \/ ReaderGet \/ OnMessage

\* The event loop runs what is ready: the callbacks of the reader and the receive loop.
WireFairness ==
  WF_wireVars(ReadSize) /\ WF_size(OnBody) /\ WF_wireVars(ReadFails) /\ WF_wireVars(ReaderGet)
    /\ WF_waiting(OnItem)

WireSpec == WireInit /\ [][WireNext]_wireVars /\ WireFairness

-----------------------------------------------------------------------------
(* Properties.                                                             *)

\* Bytes are bytes; the reader is at the size or in the body of a frame.
WireTypeOK ==
  /\ \A i \in DOMAIN stream : stream[i] \in Bytes
  /\ size \in 0 .. MaxSize /\ {broken, filling, reading, waiting} \subseteq BOOLEAN
  /\ DOMAIN in_checksum \subseteq Ids /\ DOMAIN out_checksum \subseteq Ids
  /\ Len(sent) \in 0 .. MaxFrames

\* The frames that make up the same call as frame i, up to it.
Before(i) ==
  {j \in 1 .. i : /\ sent[j].message.type \in CHECKSUM_MSG_TYPES
                  /\ sent[j].message.id = sent[i].message.id}
\* The bytes of a frame.
FrameLength(i) == size_width + Len(sent[i].body)
Results == IF Ended THEN Front(got) ELSE got

\* Each frame gives one result, in the order in which they were sent: a frame that was
\* not damaged gives its message, whole but for what becomes of empty texts (AsRead),
\* whatever the frames before it were; a part of a call may only be refused for damage to an
\* earlier part.
OneForEachInOrder ==
  /\ Len(Results) <= Len(sent)
  /\ \A i \in DOMAIN Results :
       ~sent[i].damaged =>
         \/ Results[i].err = Ok /\ Results[i].value = AsRead(sent[i].message)
         \/ Results[i].err = "InvalidChecksumError" /\ Before(i) \cap Damaged # {}

\* A part of a call that has a checksum is accepted only if its arguments, and those of
\* all the parts before it, are those that were sent.
DamageIsNoticed ==
  \A i \in DOMAIN Results :
    LET m == sent[i].message IN
    /\ m.type \in CHECKSUM_MSG_TYPES /\ Results[i].err = Ok
    /\ Results[i].value.type = m.type /\ m.body.checksum[1] # 0
    => \A j \in Before(i) :
         /\ Results[j].err = Ok
         /\ Results[j].value.body.args = ArgsAsBytes(sent[j].message.body.args)

\* length_no_args, which is asked before the checksum is known, and length count the
\* bytes that are written: a message that is cut to fit a frame fits it.
LengthIsWritten ==
  \A i \in DOMAIN sent : ~sent[i].damaged => FrameLength(i) = sent[i].planned

\* The codec reads back every frame that was sent, and takes a damaged one for nothing else.
CodecIsSound == \A i \in DOMAIN sent : sent[i].sound

\* What the codec writes has the length it was planned to have, and is read back.
CodecIsRight == LengthIsWritten /\ CodecIsSound

\* A call that was sent to its end and received undamaged leaves no checksum behind, on either side.
NoSumLeaks ==
  \A id \in Ids : part[id] > Len(Calls[id]) =>
    /\ id \notin DOMAIN out_checksum
    /\ /\ Len(Results) = Len(sent)
       /\ \A i \in DOMAIN sent : sent[i].message.id = id => ~sent[i].damaged
       => id \notin DOMAIN in_checksum

\* When the stream ended, every frame that arrived whole gave its result.
WholeFramesArrive ==
  Ended => Len(Results) = Len(sent) \/ Len(stream) < FrameLength(Len(Results) + 1)


\* Every frame gives the result it should, in its turn, to the end of the stream, and its
\* checksum is forgotten with the call.
FramesArrive == WireTypeOK /\ OneForEachInOrder /\ WholeFramesArrive /\ NoSumLeaks
=============================================================================
