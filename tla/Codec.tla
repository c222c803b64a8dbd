-------------------------------- MODULE Codec -------------------------------
(***************************************************************************)
(* What the bytes of a frame are: the ReadWriters of rw.py, the formats of *)
(* the messages (messages) and frame.py.                                   *)
(*                                                                         *)
(* A ReadWriter is a record that describes a format; Write, Read, Length   *)
(* and Width say what its four methods do.  A byte is a number below 256,  *)
(* a blob a sequence of bytes, a text a sequence of code points (below     *)
(* 2048), None the empty sequence, an instance a function on the names of  *)
(* its attributes.  Bytes and texts are those of Python 3 (see Odd in      *)
(* Messages): on Python 2 nobody tells b'' from ''.  TLC's integers are    *)
(* shorter than the numbers of 4 and 8 bytes, so that only the numbers of  *)
(* 1 and 2 bytes meet their limits.                                        *)
(***************************************************************************)
EXTENDS Messages, Functions

skip == "_"

-----------------------------------------------------------------------------
(* The ReadWriters.                                                        *)

number(width) == [kind |-> "number", width |-> width]
none == [kind |-> "none"]
constant(rw, value) == [kind |-> "constant", rw |-> rw, value |-> value]
len_prefixed_string(length, is_binary) ==
  [kind |-> "blob", length |-> length, is_binary |-> is_binary]
args(length) == [kind |-> "args", rw |-> len_prefixed_string(length, TRUE), num |-> 3]
chain(links) == [kind |-> "chain", links |-> links]
instance(cls, pairs) == [kind |-> "instance", cls |-> cls, pairs |-> pairs]
headers(length, key, value) ==
  [kind |-> "headers", length |-> length, pair |-> chain(<<key, value>>)]
switch(rw, cases) == [kind |-> "switch", rw |-> rw, cases |-> cases]

\* struct.pack and back, big endian.
NumberBytes(n, width) ==
  [i \in 1 .. width |-> IF width - i > 3 THEN 0 ELSE (n \div 256 ^ (width - i)) % 256]
NumberOf(bytes) == FoldLeft(LAMBDA n, b : 256 * n + b, 0, bytes)
NumberFits(n, width) == n >= 0 /\ (width <= 2 => n < 256 ^ width)

\* bytes.decode('utf-8')
Leads(bytes) == {i \in DOMAIN bytes : bytes[i] < 128 \/ bytes[i] >= 192}
CanDecode(bytes) ==
  \A i \in DOMAIN bytes :
    /\ bytes[i] >= 192 <=> i + 1 \in DOMAIN bytes /\ i + 1 \notin Leads(bytes)
    /\ i = 1 => i \in Leads(bytes)

\* Mutant of Decode: a byte is taken for a character.
DecodeBytes(bytes) == bytes

Decode(bytes) ==
  LET at == SetToSortSeq(Leads(bytes), <)
  IN  [k \in DOMAIN at |->
         IF bytes[at[k]] < 128 THEN bytes[at[k]]
         ELSE (bytes[at[k]] - 192) * 64 + bytes[at[k] + 1] - 128]

\* What LengthPrefixedBlobReadWriter writes after the length.
Raw(rw, s) ==
  IF rw.is_binary THEN AsBytes(s) ELSE IF IsOdd(s) THEN Plain(s) ELSE Encode(s)

\* Its length takes a text that is given for bytes as it is, and counts characters.
RawLength(rw, s) == Len(IF rw.is_binary THEN Plain(s) ELSE Raw(rw, s))

\* The ReadWriter and the value of each part of a compound.
Parts(rw, obj) ==
  CASE rw.kind = "args" -> [i \in DOMAIN obj |-> <<rw.rw, obj[i]>>]
    [] rw.kind = "chain" -> [i \in DOMAIN rw.links |-> <<rw.links[i], obj[i]>>]
    [] rw.kind = "instance" ->
         [i \in DOMAIN rw.pairs |->
            <<rw.pairs[i][2], IF rw.pairs[i][1] = skip THEN None ELSE obj[rw.pairs[i][1]]>>]
    [] rw.kind = "headers" ->
         LET keys == SetToSeq(DOMAIN obj)
         IN  [i \in DOMAIN keys |-> <<rw.pair, <<keys[i], obj[keys[i]]>>>>]

\* Mutant of HasCase: a value that is zero counts as none.
HasCaseTruthy(rw, item) == item[2] \notin {None, <<0>>} /\ item[1] \in DOMAIN rw.cases

\* SwitchReadWriter: item is <<k, v>>, with v None or <<value>>.
HasCase(rw, item) == item[2] # None /\ item[1] \in DOMAIN rw.cases

Sum(seq) == FoldLeft(LAMBDA a, b : a + b, 0, seq)

RECURSIVE Width(_)
Width(rw) ==
  CASE rw.kind = "number" -> rw.width
    [] rw.kind = "none" -> 0
    [] rw.kind \in {"constant", "switch"} -> Width(rw.rw)
    [] rw.kind \in {"blob", "headers"} -> Width(rw.length)
    [] rw.kind = "args" -> rw.num * Width(rw.rw)
    [] rw.kind = "chain" -> Sum([i \in DOMAIN rw.links |-> Width(rw.links[i])])
    [] rw.kind = "instance" -> Sum([i \in DOMAIN rw.pairs |-> Width(rw.pairs[i][2])])

RECURSIVE Length(_, _)
Length(rw, obj) ==
  CASE rw.kind \in {"number", "none", "constant"} -> Width(rw)
    [] rw.kind = "blob" -> RawLength(rw, obj) + Width(rw.length)
    [] rw.kind = "switch" ->
         Width(rw.rw) + IF HasCase(rw, obj) THEN Length(rw.cases[obj[1]], obj[2][1]) ELSE 0
    [] OTHER ->
         LET parts == Parts(rw, obj)
         IN  (IF rw.kind = "headers" THEN Width(rw) ELSE 0)
               + Sum([i \in DOMAIN parts |-> Length(parts[i][1], parts[i][2])])

\* InstanceReadWriter.length_no_args
length_no_args(rw, obj) ==
  Length([rw EXCEPT !.pairs = SelectSeq(@, LAMBDA p : p[1] # "args")], obj)

RECURSIVE Write(_, _)
Write(rw, obj) ==
  CASE rw.kind = "number" -> NumberBytes(obj, rw.width)
    [] rw.kind = "none" -> <<>>
    [] rw.kind = "constant" -> Write(rw.rw, rw.value)
    [] rw.kind = "blob" -> Write(rw.length, Len(Raw(rw, obj))) \o Raw(rw, obj)
    [] rw.kind = "switch" ->
         Write(rw.rw, obj[1])
           \o IF HasCase(rw, obj) THEN Write(rw.cases[obj[1]], obj[2][1]) ELSE <<>>
    [] OTHER ->
         LET parts == Parts(rw, obj)
         IN  (IF rw.kind = "headers" THEN Write(rw.length, Len(parts)) ELSE <<>>)
               \o FlattenSeq([i \in DOMAIN parts |-> Write(parts[i][1], parts[i][2])])

\* struct.pack raises struct.error for a number that does not fit.
RECURSIVE CanWrite(_, _)
CanWrite(rw, obj) ==
  CASE rw.kind = "number" -> NumberFits(obj, rw.width)
    [] rw.kind \in {"none", "constant"} -> TRUE
    [] rw.kind = "blob" -> CanWrite(rw.length, Len(Raw(rw, obj)))
    [] rw.kind = "switch" ->
         /\ CanWrite(rw.rw, obj[1])
         /\ HasCase(rw, obj) => CanWrite(rw.cases[obj[1]], obj[2][1])
    [] OTHER ->
         LET parts == Parts(rw, obj)
         IN  /\ rw.kind = "headers" => CanWrite(rw.length, Len(parts))
             /\ \A i \in DOMAIN parts : CanWrite(parts[i][1], parts[i][2])

-----------------------------------------------------------------------------
(* Reading.  The result is what was read and the rest of the input, or an  *)
(* error.                                                                  *)

\* ReadWriter.take
Take(s, num) ==
  IF Len(s) < num THEN Fail("ReadError")
  ELSE Got(SubSeq(s, 1, num), SubSeq(s, num + 1, Len(s)))

\* The constructors of the messages: what they make of missing or empty attributes.
Construct(cls, kw) ==
  LET or(attr, default, empty) == IF kw[attr] = empty THEN default ELSE kw[attr]
      default(attr) ==
        CASE attr = "args" /\ cls \in {"CallRequestMessage", "CallResponseMessage"} ->
               or(attr, << <<>>, <<>>, <<>> >>, <<>>)
          [] attr \in {"service", "why", "description"} -> or(attr, <<>>, Odd(<<>>))
          [] attr = "code" /\ cls = "ErrorMessage" -> or(attr, 5, 0)
          [] attr = "version" -> or(attr, 2, 0)
          [] OTHER -> kw[attr]
  IN  [attr \in DOMAIN kw |-> default(attr)]

\* dict(headers): the last of equal keys.
Dict(pairs) ==
  [k \in {pairs[i][1] : i \in DOMAIN pairs} |->
     LET at == {i \in DOMAIN pairs : pairs[i][1] = k}
     IN  pairs[CHOOSE i \in at : \A j \in at : j <= i][2]]

RECURSIVE Read(_, _), ReadLinks(_, _)

\* The links one after the other; on an error, what had been read by then.
ReadLinks(links, s) ==
  IF links = <<>> THEN Got(<<>>, s)
  ELSE LET r == Read(Head(links), s)
           rest == ReadLinks(Tail(links), r.rest)
       IN  IF r.err # Ok THEN [r EXCEPT !.value = <<>>]
           ELSE [rest EXCEPT !.value = <<r.value>> \o @]

ReadNumber(rw, s) ==
  LET r == Take(s, rw.width) IN [r EXCEPT !.value = NumberOf(r.value)]

ReadBlob(rw, s) ==
  LET n == Read(rw.length, s)
      r == IF n.err = Ok THEN Take(n.rest, n.value) ELSE n
  IN  IF r.err # Ok \/ rw.is_binary THEN r
      ELSE IF n.value = 0 THEN [r EXCEPT !.value = Odd(<<>>)]
      ELSE IF CanDecode(r.value) THEN [r EXCEPT !.value = Decode(@)]
      ELSE Fail("UnicodeDecodeError")

\* Arguments that are not there are left out.
ReadArgs(rw, s) ==
  LET r == ReadLinks([i \in 1 .. rw.num |-> rw.rw], s)
  IN  [r EXCEPT !.err = IF @ = "ReadError" THEN Ok ELSE @]

ReadHeaders(rw, s) ==
  LET n == Read(rw.length, s)
      r == ReadLinks([i \in 1 .. n.value |-> rw.pair], n.rest)
  IN  IF n.err # Ok THEN n ELSE [r EXCEPT !.value = Dict(@)]

ReadSwitch(rw, s) ==
  LET k == Read(rw.rw, s)
      r == Read(rw.cases[k.value], k.rest)
  IN  IF k.err # Ok THEN k
      ELSE IF k.value \notin DOMAIN rw.cases THEN Got(<<k.value, None>>, k.rest)
      ELSE [r EXCEPT !.value = <<k.value, IF rw.cases[k.value] = none THEN None ELSE <<@>>>>]

ReadInstance(rw, s) ==
  LET r == ReadLinks([i \in DOMAIN rw.pairs |-> rw.pairs[i][2]], s)
      at(name) == CHOOSE i \in DOMAIN rw.pairs : rw.pairs[i][1] = name
      names == {rw.pairs[i][1] : i \in DOMAIN rw.pairs} \ {skip}
  IN  IF r.err # Ok THEN r
      ELSE [r EXCEPT !.value = Construct(rw.cls, [n \in names |-> r.value[at(n)]])]

Read(rw, s) ==
  CASE rw.kind = "number" -> ReadNumber(rw, s)
    [] rw.kind = "none" -> Got(None, s)
    [] rw.kind = "constant" -> [Read(rw.rw, s) EXCEPT !.value = rw.value]
    [] rw.kind = "blob" -> ReadBlob(rw, s)
    [] rw.kind = "args" -> ReadArgs(rw, s)
    [] rw.kind = "chain" -> ReadLinks(rw.links, s)
    [] rw.kind = "headers" -> ReadHeaders(rw, s)
    [] rw.kind = "switch" -> ReadSwitch(rw, s)
    [] rw.kind = "instance" -> ReadInstance(rw, s)

-----------------------------------------------------------------------------
(* The formats of frames and messages.                                     *)

size_rw == number(2)
header_rw ==
  instance("FrameHeader",
    << <<"message_type", number(1)>>, <<skip, constant(number(1), 0)>>,
       <<"message_id", number(4)>>, <<skip, constant(number(8), 0)>> >>)

\* FrameReadWriter.write, but for the size.
WriteFrame(header, payload) == Write(header_rw, header) \o payload

tracing_rw ==
  instance("Tracing",
    << <<"span_id", number(8)>>, <<"parent_id", number(8)>>, <<"trace_id", number(8)>>,
       <<"traceflags", number(1)>> >>)

\* none: 0, crc32: 1, farm32: 2, crc32c: 3
checksum_rw ==
  switch(number(1), [t \in 0 .. 3 |-> IF t = 0 THEN none ELSE number(4)])

string(width) == len_prefixed_string(number(width), FALSE)

call_req_rw ==
  instance("CallRequestMessage",
    << <<"flags", number(1)>>, <<"ttl", number(4)>>, <<"tracing", tracing_rw>>,
       <<"service", string(1)>>, <<"headers", headers(number(1), string(1), string(1))>>,
       <<"checksum", checksum_rw>>, <<"args", args(number(2))>> >>)

call_res_rw ==
  instance("CallResponseMessage",
    << <<"flags", number(1)>>, <<"code", number(1)>>, <<"tracing", tracing_rw>>,
       <<"headers", headers(number(1), string(1), string(1))>>,
       <<"checksum", checksum_rw>>, <<"args", args(number(2))>> >>)

call_c_rw(cls) ==
  instance(cls,
    << <<"flags", number(1)>>, <<"checksum", checksum_rw>>, <<"args", args(number(2))>> >>)

cancel_rw ==
  instance("CancelMessage",
    << <<"ttl", number(4)>>, <<"tracing", tracing_rw>>, <<"why", string(2)>> >>)

claim_rw == instance("ClaimMessage", << <<"ttl", number(4)>>, <<"tracing", tracing_rw>> >>)

error_rw ==
  instance("ErrorMessage",
    << <<"code", number(1)>>, <<"tracing", tracing_rw>>, <<"description", string(2)>> >>)

init_rw(cls) ==
  instance(cls,
    << <<"version", number(2)>>, <<"headers", headers(number(2), string(2), string(2))>> >>)

ping_rw(cls) == instance(cls, <<>>)

Types ==
  [INIT_REQ |-> 1, INIT_RES |-> 2, CALL_REQ |-> 3, CALL_RES |-> 4,
   CALL_REQ_CONTINUE |-> 19, CALL_RES_CONTINUE |-> 20, CANCEL |-> 192, CLAIM |-> 193,
   PING_REQ |-> 208, PING_RES |-> 209, ERROR |-> 255]

RW ==
  [INIT_REQ |-> init_rw("InitRequestMessage"), INIT_RES |-> init_rw("InitResponseMessage"),
   CALL_REQ |-> call_req_rw, CALL_RES |-> call_res_rw,
   CALL_REQ_CONTINUE |-> call_c_rw("CallRequestContinueMessage"),
   CALL_RES_CONTINUE |-> call_c_rw("CallResponseContinueMessage"),
   CANCEL |-> cancel_rw, CLAIM |-> claim_rw,
   PING_REQ |-> ping_rw("PingRequestMessage"), PING_RES |-> ping_rw("PingResponseMessage"),
   ERROR |-> error_rw]

\* The frame of a message, as Writer._enqueue makes it, without its size.
FrameOf(m) ==
  WriteFrame([message_type |-> Types[m.type], message_id |-> m.id], Write(RW[m.type], m.body))

\* Neither the message nor the size of the frame raises struct.error.
FrameFits(m) ==
  CanWrite(RW[m.type], m.body) /\ CanWrite(size_rw, Width(size_rw) + Len(FrameOf(m)))

\* What MessageFactory.fragment reckons with: length_no_args, before there is a
\* checksum, and the arguments.
PlannedLength(m) ==
  Width(size_rw) + Width(header_rw)
    + IF m.type \notin CHECKSUM_MSG_TYPES THEN Length(RW[m.type], m.body)
      ELSE length_no_args(RW[m.type], m.body)
             + Sum([a \in DOMAIN m.body.args |-> 2 + Len(Plain(m.body.args[a]))])

\* read_message, on_body: the message in the bytes that follow the size of a frame.
ReadBody(body) ==
  LET header == Read(header_rw, body)
      types == {t \in DOMAIN Types : Types[t] = header.value.message_type}
      type == CHOOSE t \in types : TRUE
      r == Read(RW[type], header.rest)
  IN  IF header.err # Ok THEN Fail(header.err)
      ELSE IF types = {} THEN Fail("FatalProtocolError")
      ELSE [r EXCEPT !.value = Message(type, header.value.message_id, @)]

=============================================================================
