------------------------------- MODULE Schemes -------------------------------
(***************************************************************************)
(* What the argument schemes do to the result of a handler on its way to   *)
(* the caller: the handler wrappers of thrift/rw.py and thrift/server.py,  *)
(* the serializers, and what the caller's interfaces make of the body.     *)
(*                                                                         *)
(* A procedure is [scheme, void, throws]: "rw" is Thrift through thriftrw, *)
(* "thrift" is Apache Thrift; throws says whether its IDL declares an      *)
(* exception.                                                              *)
(***************************************************************************)
LOCAL INSTANCE Naturals

Procedures ==
  {p \in [scheme : {"raw", "json", "rw", "thrift"}, void : BOOLEAN,
          throws : BOOLEAN] :
     p.scheme \in {"raw", "json"} => ~p.void /\ ~p.throws}

\* What the user's function can do: return a value or None, raise an exception
\* of its IDL, a TChannelError, or any other exception.
Results == {"value", "none", "declared", "tchannel", "other"}

CanEnd(p, result) == result = "declared" => p.throws

OK == 0
FAILED == 1

\* A tchannel.Response, or the exception that leaves the wrapper.  body is what
\* the response carries: nothing, the value itself, or a result union with its
\* success field, its exception field or no field set.
Response(status, body) == [raises |-> "no", status |-> status, body |-> body]
Raise(e) == [raises |-> e, status |-> OK, body |-> "none"]

\* response_from_mixed: None is an empty Response, anything else its body.
ResponseFromMixed(result) == Response(OK, result)

\* Mutant of HandleRW: a declared exception leaves the status as it is.
HandleRWStatus(p, result) ==
  CASE result \in {"value", "none"} ->
         IF p.void THEN Response(OK, "unset")
         ELSE IF ResponseFromMixed(result).body = "none" THEN Raise("other")
         ELSE Response(OK, "success")
    [] result = "declared" -> Response(OK, "exception")
    [] OTHER -> Raise(result)

\* build_handler of thrift/rw.py.  A procedure that must return something and
\* does not trips an assertion.
HandleRW(p, result) ==
  CASE result \in {"value", "none"} ->
         IF p.void THEN Response(OK, "unset")
         ELSE IF ResponseFromMixed(result).body = "none" THEN Raise("other")
         ELSE Response(OK, "success")
    [] result = "declared" -> Response(FAILED, "exception")
    [] OTHER -> Raise(result)

\* write_result of ThriftResponse: thrift_spec is empty for a void procedure
\* that declares nothing, and the value is dropped; its first element is None
\* for one that does, and the assertion fails.
WriteResult(p, result) ==
  CASE p.void /\ ~p.throws -> Response(OK, "unset")
    [] result = "none" -> Response(OK, "unset")
    [] OTHER -> IF p.void THEN Raise("other") ELSE Response(OK, "success")

\* write_exc_info: an exception of the IDL is the result, others are reraised.
WriteExcInfo(p, result) ==
  IF result = "declared" THEN Response(FAILED, "exception") ELSE Raise(result)

\* build_handler of thrift/server.py.
HandleThrift(p, result) ==
  IF result \in {"value", "none"} THEN WriteResult(p, ResponseFromMixed(result).body)
  ELSE WriteExcInfo(p, result)

\* What handler.endpoint and response_from_mixed give handle_call.
Handle(p, result) ==
  CASE p.scheme = "rw" -> HandleRW(p, result)
    [] p.scheme = "thrift" -> HandleThrift(p, result)
    [] OTHER -> IF result \in {"value", "none"} THEN ResponseFromMixed(result)
                ELSE Raise(result)

\* deprecated_build_handler: the function is given a response to write to, and
\* its own result counts only if it wrote none (wrote is what it wrote).
DeprecatedHandle(p, wrote, result) ==
  CASE wrote # "none" /\ result = "declared" -> Raise("other")
    [] wrote # "none" /\ result \in {"value", "none"} -> WriteResult(p, wrote)
    [] wrote = "none" /\ result = "none" -> Response(OK, "unset")
    [] OTHER -> HandleThrift(p, result)

\* serialize_header of the scheme for a response without headers: whether any
\* byte is written.  serialize_body is called for a body that is not None.
HeaderIsEmpty(p) == p.scheme = "raw"

\* deserialize_body of the plain schemes: what the caller is given for the bytes of
\* this body.
DeserializeBody(body) == IF body = "none" THEN "nothing" ELSE "value"

\* read_body of thrift/rw.py; "missing" is a ValueExpectedError.
ReadBodyRW(p, body) ==
  IF body = "exception" THEN "raised"
  ELSE IF p.void THEN "nothing"
  ELSE IF body = "success" THEN "value" ELSE "missing"

\* read_body of thrift/module.py: thrift_spec is empty, or starts with None, for a
\* procedure that is void.
ReadBodyThrift(p, body) ==
  IF p.throws /\ body = "exception" THEN "raised"
  ELSE IF p.void THEN "nothing"
  ELSE IF body = "success" THEN "value" ELSE "missing"

\* The methods that client_for generates: "missing" is a TApplicationException.
CallResult(p, body) ==
  CASE p.void /\ ~p.throws -> "nothing"
    [] p.throws /\ body = "exception" -> "raised"
    [] ~p.void /\ body = "success" -> "value"
    [] OTHER -> IF p.void THEN "nothing" ELSE "missing"

\* What the caller is given, by each of the interfaces it may use.
Read(p, body) ==
  CASE p.scheme = "rw" -> {ReadBodyRW(p, body)}
    [] p.scheme = "thrift" -> {ReadBodyThrift(p, body), CallResult(p, body)}
    [] OTHER -> {DeserializeBody(body)}

\* What a caller may expect of the result.
Expected(p, result) ==
  CASE result = "declared" -> {"raised"}
    [] result = "value" /\ ~p.void -> {"value"}
    [] result = "value" /\ p.void -> {"nothing"}
    [] result = "none" /\ (p.void \/ p.scheme \in {"raw", "json"}) -> {"nothing"}
    [] result = "none" /\ ~(p.void \/ p.scheme \in {"raw", "json"}) -> {"missing"}
    [] OTHER -> {}

==============================================================================
