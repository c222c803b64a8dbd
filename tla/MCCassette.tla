----------------------------- MODULE MCCassette -----------------------------
EXTENDS Cassette

\* Two JSON requests that differ in their tracing headers only, and a raw one.
MCRequests ==
  {[key |-> "k", scheme |-> "json", trace |-> 1],
   [key |-> "k", scheme |-> "json", trace |-> 2],
   [key |-> "k", scheme |-> "raw", trace |-> 1]}
=============================================================================
