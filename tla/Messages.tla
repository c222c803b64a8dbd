------------------------------ MODULE Messages ------------------------------
(***************************************************************************)
(* What a message is, how it comes to be read on Python 3, and the         *)
(* checksums of messages/common.py.                                        *)
(***************************************************************************)
EXTENDS Integers, Sequences, FiniteSets, SequencesExt

None == <<>>
Bytes == 0 .. 255

\* A message: the name of its type, its id and its attributes.
Message(type, id, body) == [type |-> type, id |-> id, body |-> body]

\* What a read gives: the value and the rest of the input, or an error.
Ok == "ok"
Got(value, rest) == [err |-> Ok, value |-> value, rest |-> rest]
Fail(err) == [err |-> err, value |-> None, rest |-> <<>>]

-----------------------------------------------------------------------------
(* Texts and bytes.                                                        *)

\* str.encode('utf-8') for code points of up to two bytes.
EncodeChar(c) == IF c < 128 THEN <<c>> ELSE <<192 + (c \div 64), 128 + (c % 64)>>
Encode(text) == FlattenSeq([i \in DOMAIN text |-> EncodeChar(text[i])])

\* On Python 3, bytes where a text belongs, and a text where bytes do.
Odd(s) == <<-1>> \o s
IsOdd(s) == s # <<>> /\ s[1] = -1
Plain(s) == IF IsOdd(s) THEN Tail(s) ELSE s

\* What is made of an argument, or a piece of one: the bytes of a text.
AsBytes(arg) == IF IsOdd(arg) THEN Encode(Plain(arg)) ELSE arg
ArgsAsBytes(arguments) == [i \in DOMAIN arguments |-> AsBytes(arguments[i])]

\* A text is read as it was written, but for the empty one, which becomes b''.
AsText(text) == IF text = <<>> THEN Odd(<<>>) ELSE text
HeadersAsText(headers) ==
  [k \in {AsText(x) : x \in DOMAIN headers} |->
     AsText(headers[CHOOSE x \in DOMAIN headers : AsText(x) = k])]

\* What a message is read as: nothing changes but the keys and values of headers that are
\* empty texts (the constructors make '' of other attributes that are b''), and arguments
\* that are texts, such as the empty ones that fragment leaves.
AsRead(m) ==
  Message(m.type, m.id,
          [a \in DOMAIN m.body |->
             CASE a = "headers" -> HeadersAsText(m.body[a])
               [] a = "args" -> ArgsAsBytes(m.body[a])
               [] OTHER -> m.body[a]])

-----------------------------------------------------------------------------
(* Checksums.                                                              *)

CHECKSUM_MSG_TYPES == {"CALL_REQ", "CALL_REQ_CONTINUE", "CALL_RES", "CALL_RES_CONTINUE"}

\* crc32 and crc32c of some bytes, continued from a sum.  All that matters is that the
\* sum of a sequence is that of its second part continued from that of its first.
Crc(bytes, csum) == FoldLeft(LAMBDA c, b : (7 * c + b + 1) % 251, csum, bytes)

\* Mutant of compute_checksum: the sum does not go on from the previous one.
compute_checksum_anew(type, arguments, csum) ==
  IF type = 0 THEN None ELSE <<Crc(FlattenSeq(ArgsAsBytes(arguments)), 0)>>

\* compute_checksum, for the types it implements.  A sum is None or <<number>>.
compute_checksum(type, arguments, csum) ==
  IF type = 0 THEN None
  ELSE <<Crc(FlattenSeq(ArgsAsBytes(arguments)), IF csum = None THEN 0 ELSE csum[1])>>

\* generate_checksum
generate_checksum(m, previous) ==
  IF m.type \notin CHECKSUM_MSG_TYPES THEN m
  ELSE [m EXCEPT !.body.checksum =
          <<@[1], compute_checksum(@[1], m.body.args, previous)>>]

\* verify_checksum
verify_checksum(m, previous) ==
  m.type \in CHECKSUM_MSG_TYPES =>
    m.body.checksum[2] = compute_checksum(m.body.checksum[1], m.body.args, previous)
=============================================================================
