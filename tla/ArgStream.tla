------------------------------ MODULE ArgStream ------------------------------
(***************************************************************************)
(* InMemStream of tornado/stream.py: the buffer between the party that     *)
(* writes an argument of a call and the coroutines that read it.           *)
(*                                                                         *)
(* A reader that finds an open stream empty waits on a Condition.  Each    *)
(* write, close and set_exception wakes one waiting reader, the one that   *)
(* waits longest; a woken reader reads in a later turn of the event loop,  *)
(* and takes whatever is there by then.                                    *)
(***************************************************************************)
LOCAL INSTANCE Naturals
LOCAL INSTANCE Sequences

CONSTANT MaxChunk   \* MAX_PAYLOAD_SIZE: a read stops once it holds this much

\* A chunk of length 0 (b"" or None) against one worth queueing.
Empty == 0

\* The states of a stream whose readers are in R.
Streams(R) ==
  [buf : Seq(Nat), done : BOOLEAN, exc : BOOLEAN,
   waiting : Seq(R), woken : SUBSET R]

\* InMemStream(): buf is _stream, done is state == completed.
NewStream ==
  [buf |-> <<>>, done |-> FALSE, exc |-> FALSE, waiting |-> <<>>, woken |-> {}]

\* _condition.notify().
Notify(s) ==
  IF s.waiting = <<>> THEN s
  ELSE [s EXCEPT !.waiting = Tail(@), !.woken = @ \cup {Head(s.waiting)}]

\* write raises when the stream is closed or has failed.
Writable(s) == ~s.exc /\ ~s.done

\* Mutant of Write: the waiting reader is not told.
WriteSilently(s, chunk) ==
  IF chunk = Empty THEN s ELSE [s EXCEPT !.buf = Append(@, chunk)]

Write(s, chunk) ==
  IF chunk = Empty THEN s ELSE Notify([s EXCEPT !.buf = Append(@, chunk)])

CloseStream(s) == Notify([s EXCEPT !.done = TRUE])

SetException(s) == CloseStream([s EXCEPT !.exc = TRUE])

\* read() answers at once.
Ready(s) == s.done \/ s.buf # <<>>

\* What read_chunk answers with: "failed", "end" (b"") or "more".
ReadResult(s) ==
  IF s.exc THEN "failed" ELSE IF s.buf = <<>> THEN "end" ELSE "more"

\* The chunks read_chunk joins, and the stream it leaves.
Chunks(s) ==
  SubSeq(s.buf, 1, IF Len(s.buf) < MaxChunk THEN Len(s.buf) ELSE MaxChunk)

Rest(s, r) ==
  [s EXCEPT !.buf = IF s.exc THEN @ ELSE SubSeq(@, Len(Chunks(s)) + 1, Len(@)),
            !.woken = @ \ {r}]

Wait(s, r) == [s EXCEPT !.waiting = Append(@, r)]

==============================================================================
