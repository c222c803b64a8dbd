------------------------------- MODULE MCWire -------------------------------
(* Instances of Wire for TLC.                                              *)
EXTENDS Wire, Codec

tracing == [span_id |-> 1, parent_id |-> 0, trace_id |-> 258, traceflags |-> 1]
crc32c == <<3, <<0>>>>

Part(type, id, flags, checksum, arguments) ==
  Message(type, id, [flags |-> flags, checksum |-> checksum, args |-> arguments])

\* A request in three frames, with headers that are not ASCII or empty, and the empty text
\* that marks the end of an argument; a response without a checksum; a request whose
\* service is too long for its field, though it has fewer characters than that.
MCCalls ==
  <<
    << Message("CALL_REQ", 1,
         [flags |-> 1, ttl |-> 300, tracing |-> tracing, service |-> <<115, 233>>,
          headers |-> (<<97, 115>> :> <<106>> @@ <<233>> :> <<>>),
          checksum |-> crc32c, args |-> << <<1>>, <<2, 3>> >>]),
       Part("CALL_REQ_CONTINUE", 1, 1, crc32c, << Odd(<<>>), <<4>> >>),
       Part("CALL_REQ_CONTINUE", 1, 0, crc32c, << <<5>> >>) >>,
    << Message("CALL_RES", 2,
         [flags |-> 1, code |-> 1, tracing |-> tracing, headers |-> <<>>,
          checksum |-> <<0, None>>, args |-> << <<1>>, <<>>, <<2>> >>]),
       Part("CALL_RES_CONTINUE", 2, 0, <<0, None>>, << <<3>> >>) >>,
    << Message("CALL_REQ", 3,
         [flags |-> 1, ttl |-> 1, tracing |-> tracing, service |-> [i \in 1 .. 128 |-> 233],
          headers |-> <<>>, checksum |-> crc32c, args |-> << <<>>, <<>> >>]),
       Part("CALL_REQ_CONTINUE", 3, 0, crc32c, << <<>>, <<6>> >>) >>
  >>

MCOthers ==
  { Message("INIT_REQ", 7,
      [version |-> 2, headers |-> (<<104>> :> <<49>> @@ <<112>> :> <<233>>)]),
    Message("ERROR", 2, [code |-> 255, tracing |-> tracing, description |-> <<98, 233>>]),
    Message("CANCEL", 2, [ttl |-> 1, tracing |-> tracing, why |-> <<>>]),
    Message("CLAIM", 9, [ttl |-> 70000, tracing |-> tracing]),
    Message("PING_RES", 8, <<>>) }
=============================================================================
