------------------------------ MODULE MCServer ------------------------------
EXTENDS Server

P(s, v, t) == [scheme |-> s, void |-> v, throws |-> t]
Case(r, t, p, l) ==
  [returns |-> r, target |-> t, proc |-> p, layout |-> l,
   readers |-> {"main"}, writes |-> 0]

\* One frame; arg1 in a frame of its own; an argument that ends with its frame,
\* so that the next one starts with an empty chunk, and a body in two parts; a
\* body with an empty chunk between its parts.
Whole == << <<1, 1, 1>> >>
Cut == << <<1>>, <<1, 1, 1>> >>
Pieces == << <<1, 1>>, <<0, 1>>, <<1>> >>
Gap == << <<1, 1, 1>>, <<0>>, <<1>> >>

MCCases ==
  {Case(TRUE, "known", P("raw", FALSE, FALSE), Pieces),
   Case(TRUE, "known", P("json", FALSE, FALSE), Cut),
   Case(TRUE, "mismatch", P("json", FALSE, FALSE), Whole),
   Case(TRUE, "unknown", P("raw", FALSE, FALSE), Cut),
   Case(FALSE, "known", P("raw", FALSE, FALSE), Gap),
   [Case(FALSE, "known", P("raw", FALSE, FALSE), Gap)
      EXCEPT !.readers = {"main", "extra"}],
   [Case(FALSE, "known", P("raw", FALSE, FALSE), Cut)
      EXCEPT !.readers = {}, !.writes = 3],
   Case(FALSE, "unknown", P("raw", FALSE, FALSE), Whole),
   Case(TRUE, "garbled", P("raw", FALSE, FALSE), Whole),
   Case(FALSE, "garbled", P("raw", FALSE, FALSE), Cut)}
  \cup {Case(TRUE, "known", P(s, v, t), Whole) :
           s \in {"rw", "thrift"}, v, t \in BOOLEAN}
  \cup {Case(FALSE, "known", P("thrift", v, TRUE), Whole) : v \in BOOLEAN}
=============================================================================
