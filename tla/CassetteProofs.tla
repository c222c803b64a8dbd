--------------------------- MODULE CassetteProofs ---------------------------
(***************************************************************************)
(* What Cassette promises for any requests, record modes, number of calls  *)
(* and of sessions.                                                        *)
(***************************************************************************)
EXTENDS Cassette, FunctionTheorems, WellFoundedInduction, TLAPS

-----------------------------------------------------------------------------
(* Tapes.                                                                  *)

\* The elements of two sequences put together.
LEMMA ConcatFacts ==
  ASSUME NEW S, NEW u \in Seq(S), NEW v \in Seq(S)
  PROVE  /\ u \o v \in Seq(S) /\ Len(u \o v) = Len(u) + Len(v)
         /\ DOMAIN (u \o v) = 1 .. Len(u) + Len(v)
         /\ \A k \in 1 .. Len(u) + Len(v) :
              (u \o v)[k] = IF k <= Len(u) THEN u[k] ELSE v[k - Len(u)]
  OBVIOUS

\* What is left of a sequence without its element at i.
LEMMA RemoveAtFacts ==
  ASSUME NEW S, NEW s \in Seq(S), NEW i \in DOMAIN s
  PROVE  /\ RemoveAt(s, i) \in Seq(S)
         /\ Len(RemoveAt(s, i)) = Len(s) - 1
         /\ \A k \in 1 .. Len(s) - 1 : RemoveAt(s, i)[k] = IF k < i THEN s[k] ELSE s[k + 1]
<1>1. i \in 1 .. Len(s) /\ Len(s) \in Nat
  OBVIOUS
<1>2. /\ SubSeq(s, 1, i - 1) \in Seq(S) /\ Len(SubSeq(s, 1, i - 1)) = i - 1
      /\ \A k \in 1 .. i - 1 : SubSeq(s, 1, i - 1)[k] = s[k]
  BY <1>1
<1>3. /\ SubSeq(s, i + 1, Len(s)) \in Seq(S) /\ Len(SubSeq(s, i + 1, Len(s))) = Len(s) - i
      /\ \A k \in 1 .. Len(s) - i : SubSeq(s, i + 1, Len(s))[k] = s[i + k]
  BY <1>1
<1> DEFINE u == SubSeq(s, 1, i - 1)
           v == SubSeq(s, i + 1, Len(s))
<1>4. RemoveAt(s, i) = u \o v
  BY DEF RemoveAt
<1> HIDE DEF u, v
<1>5. /\ u \in Seq(S) /\ Len(u) = i - 1 /\ \A k \in 1 .. i - 1 : u[k] = s[k]
      /\ v \in Seq(S) /\ Len(v) = Len(s) - i /\ \A k \in 1 .. Len(s) - i : v[k] = s[i + k]
  BY <1>2, <1>3 DEF u, v
<1>6. /\ u \o v \in Seq(S) /\ Len(u \o v) = Len(u) + Len(v)
      /\ \A k \in 1 .. Len(u) + Len(v) :
           (u \o v)[k] = IF k <= Len(u) THEN u[k] ELSE v[k - Len(u)]
  BY <1>5, ConcatFacts
<1>7. ASSUME NEW k \in 1 .. Len(s) - 1
      PROVE  (u \o v)[k] = IF k < i THEN s[k] ELSE s[k + 1]
  <2>0. k \in 1 .. Len(u) + Len(v) /\ (k <= Len(u) <=> k < i)
    BY <1>1, <1>5
  <2>1. CASE k < i
    <3>1. u[k] = s[k]
      BY <1>1, <1>5, <2>1
    <3>2. (u \o v)[k] = u[k]
      BY <1>6, <2>0, <2>1
    <3> QED
      BY <2>1, <3>1, <3>2
  <2>2. CASE ~(k < i)
    <3>1. k - (i - 1) \in 1 .. Len(s) - i /\ i + (k - (i - 1)) = k + 1
      BY <1>1, <2>2
    <3>2. v[k - (i - 1)] = s[k + 1]
      BY <1>5, <3>1
    <3> QED
      BY <1>5, <1>6, <2>0, <2>2, <3>2
  <2> QED
    BY <2>1, <2>2
<1>8. Len(u) + Len(v) = Len(s) - 1
  BY <1>1, <1>5
<1> QED
  BY <1>4, <1>6, <1>7, <1>8

\* Whether requests match is an equivalence.
LEMMA MatchFacts ==
  ASSUME NEW a, NEW b, NEW c, Match(a, b), Match(a, c)
  PROVE  Match(b, c) /\ Match(c, b)
  BY DEF Match, HeadersMatch

\* The i-th interaction of v goes to the end of u: nothing before it in v matches it.
LEMMA ReplayKeepsOrder ==
  ASSUME NEW u \in Seq(Interactions), NEW v \in Seq(Interactions),
         NEW t \in Seq(Interactions), NEW i \in DOMAIN v,
         SameInOrder(u \o v, t),
         \A j \in DOMAIN v : j < i => ~Match(v[i].request, v[j].request)
  PROVE  SameInOrder(Append(u, v[i]) \o RemoveAt(v, i), t)
<1> DEFINE s == u \o v
           r == Append(u, v[i]) \o RemoveAt(v, i)
           n == Len(u)
           D == 1 .. (Len(u) + Len(v))
           from(k) == IF k = n + 1 THEN n + i
                      ELSE IF k > n + 1 /\ k <= n + i THEN k - 1 ELSE k
           back(k) == IF k = n + i THEN n + 1
                      ELSE IF k > n /\ k < n + i THEN k + 1 ELSE k
<1>1. n \in Nat /\ Len(v) \in Nat /\ i \in Nat /\ 1 <= i /\ i <= Len(v)
  OBVIOUS
<1>2. /\ DOMAIN s = D
      /\ \A k \in D : s[k] = IF k <= n THEN u[k] ELSE v[k - n]
  OBVIOUS
<1>3. /\ DOMAIN r = D
      /\ \A k \in D : r[k] = s[from(k)]
  <2>1. /\ RemoveAt(v, i) \in Seq(Interactions) /\ Len(RemoveAt(v, i)) = Len(v) - 1
        /\ \A k \in 1 .. Len(v) - 1 : RemoveAt(v, i)[k] = IF k < i THEN v[k] ELSE v[k + 1]
    BY RemoveAtFacts
  <2> DEFINE x == Append(u, v[i])
             y == RemoveAt(v, i)
  <2>2. /\ x \in Seq(Interactions) /\ Len(x) = n + 1 /\ x[n + 1] = v[i]
        /\ \A k \in 1 .. n : x[k] = u[k]
    OBVIOUS
  <2>3. y \in Seq(Interactions) /\ Len(y) = Len(v) - 1
    BY <2>1
  <2> HIDE DEF x, y, n
  <2>4. /\ DOMAIN (x \o y) = 1 .. Len(x) + Len(y)
        /\ \A k \in 1 .. Len(x) + Len(y) :
             (x \o y)[k] = IF k <= Len(x) THEN x[k] ELSE y[k - Len(x)]
    BY <2>2, <2>3, ConcatFacts
  <2>5. Len(x) + Len(y) = n + Len(v)
    BY <1>1, <2>2, <2>3
  <2>6. ASSUME NEW k \in D PROVE (x \o y)[k] = s[from(k)]
    <3>0. k \in 1 .. Len(x) + Len(y) /\ k \in Nat
      BY <1>1, <2>5 DEF n
    <3>1. CASE k <= n
      BY <1>1, <1>2, <2>2, <2>4, <3>0, <3>1
    <3>2. CASE k = n + 1
      <4>1. n + i \in D /\ ~(n + i <= n) /\ (n + i) - n = i
        BY <1>1 DEF n
      <4> QED
        BY <1>1, <1>2, <2>2, <2>4, <3>0, <3>2, <4>1
    <3>3. CASE k > n + 1
      <4>1. k - (n + 1) \in 1 .. Len(v) - 1
        BY <1>1, <2>5, <3>0, <3>3
      <4>2. (x \o y)[k] = IF k - (n + 1) < i THEN v[k - (n + 1)] ELSE v[k - n]
        <5>1. (x \o y)[k] = y[k - (n + 1)]
          BY <1>1, <2>2, <2>4, <3>0, <3>3
        <5>2. (k - (n + 1)) + 1 = k - n
          BY <1>1, <3>0
        <5> QED
          BY <2>1, <4>1, <5>1, <5>2 DEF y
      <4>3. CASE k <= n + i
        <5>1. from(k) = k - 1 /\ k - 1 \in D /\ ~(k - 1 <= n) /\ (k - 1) - n = k - (n + 1)
              /\ k - (n + 1) < i
          BY <1>1, <3>0, <3>3, <4>3 DEF n
        <5> QED
          BY <1>2, <4>2, <5>1
      <4>4. CASE ~(k <= n + i)
        BY <1>1, <1>2, <3>0, <3>3, <4>2, <4>4
      <4> QED
        BY <4>3, <4>4
    <3> QED
      <4>1. k <= n \/ k = n + 1 \/ k > n + 1
        BY <1>1, <3>0
      <4> QED
        BY <3>1, <3>2, <3>3, <4>1
  <2> QED
    BY <2>4, <2>5, <2>6 DEF x, y, n
<1>4. /\ \A k \in D : from(k) \in D /\ back(k) \in D /\ from(back(k)) = k /\ back(from(k)) = k
      /\ \A k, l \in D : k < l /\ ~(k = n + 1 /\ l <= n + i) => from(k) < from(l)
  <2> HIDE DEF n
  <2>1. D = 1 .. n + Len(v)
    BY DEF n
  <2>2. ASSUME NEW k \in D
        PROVE  from(k) \in D /\ back(k) \in D /\ from(back(k)) = k /\ back(from(k)) = k
    BY <1>1, <2>1
  <2>3. ASSUME NEW k \in D, NEW l \in D, k < l, ~(k = n + 1 /\ l <= n + i)
        PROVE  from(k) < from(l)
    BY <1>1, <2>1, <2>3
  <2> QED
    BY <2>2, <2>3
<1>5. PICK p \in Bijection(DOMAIN s, DOMAIN t) :
        /\ \A k \in DOMAIN s : s[k] = t[p[k]]
        /\ \A k, l \in DOMAIN s : k < l /\ Match(s[k].request, s[l].request) => p[k] < p[l]
  BY DEF SameInOrder
<1>6. /\ p \in [D -> DOMAIN t]
      /\ \A k, l \in D : p[k] = p[l] => k = l
      /\ \A m \in DOMAIN t : \E k \in D : p[k] = m
  BY <1>2, <1>5, Fun_BijectionProperties
\* What changes places with the replayed interaction does not match it.
<1>7. ASSUME NEW k \in D, NEW l \in D, k = n + 1, k < l, l <= n + i
      PROVE  ~Match(r[k].request, r[l].request)
  <2>1. from(k) = n + i /\ from(l) = l - 1 /\ n + i \in D /\ l - 1 \in D
    BY <1>1, <1>7
  <2>2. /\ ~(n + i <= n) /\ ~(l - 1 <= n) /\ (n + i) - n = i
        /\ (l - 1) - n \in DOMAIN v /\ (l - 1) - n < i
    BY <1>1, <1>7
  <2>3. r[k] = v[i] /\ r[l] = v[(l - 1) - n]
    BY <1>2, <1>3, <2>1, <2>2
  <2> QED
    BY <2>2, <2>3
<1> HIDE DEF s, r, n, D, from, back
<1> DEFINE q == [k \in D |-> p[from(k)]]
<1>8. q \in Bijection(D, DOMAIN t)
  <2>1. q \in [D -> DOMAIN t]
    BY <1>4, <1>6
  <2>2. \A k, l \in D : q[k] = q[l] => k = l
    <3> SUFFICES ASSUME NEW k \in D, NEW l \in D, q[k] = q[l] PROVE k = l
      OBVIOUS
    <3>1. from(k) = from(l)
      BY <1>4, <1>6
    <3> QED
      BY <1>4, <3>1
  <2>3. \A m \in DOMAIN t : \E k \in D : q[k] = m
    <3> SUFFICES ASSUME NEW m \in DOMAIN t PROVE \E k \in D : q[k] = m
      OBVIOUS
    <3>1. PICK k \in D : p[k] = m
      BY <1>6
    <3>2. back(k) \in D /\ q[back(k)] = m
      BY <1>4, <3>1
    <3> QED
      BY <3>2
  <2> HIDE DEF q
  <2> QED
    BY <2>1, <2>2, <2>3, Fun_IsBij
<1>9. \A k \in D : r[k] = t[q[k]]
  BY <1>2, <1>3, <1>4, <1>5
<1>10. ASSUME NEW k \in D, NEW l \in D, k < l, Match(r[k].request, r[l].request)
       PROVE  q[k] < q[l]
  <2>1. from(k) < from(l)
    BY <1>4, <1>7, <1>10
  <2>2. from(k) \in D /\ from(l) \in D /\ r[k] = s[from(k)] /\ r[l] = s[from(l)]
    BY <1>3, <1>4
  <2> QED
    BY <1>2, <1>5, <1>10, <2>1, <2>2
<1> HIDE DEF q
<1>11. SameInOrder(r, t)
  BY <1>3, <1>8, <1>9, <1>10 DEF SameInOrder
<1> QED
  BY <1>11 DEF r

\* A tape is in its own order, and nothing is on it that is not on the other.
LEMMA OrderFacts ==
  ASSUME NEW u \in Seq(Interactions), NEW t \in Seq(Interactions)
  PROVE  /\ SameInOrder(<<>> \o t, t)
         /\ SameInOrder(u, t) => ToSet(u) = ToSet(t)
<1>1. SameInOrder(<<>> \o t, t)
  <2> DEFINE D == DOMAIN t
             p == [k \in D |-> k]
  <2>1. <<>> \o t = t /\ D \subseteq Nat
    OBVIOUS
  <2>2. p \in [D -> D] /\ \A k \in D : p[k] = k
    OBVIOUS
  <2> HIDE DEF p, D
  <2>3. p \in Bijection(D, D)
    BY <2>2, Fun_IsBij
  <2>4. \A k, l \in D : k < l => p[k] < p[l]
    BY <2>2
  <2> QED
    BY <2>1, <2>2, <2>3, <2>4 DEF SameInOrder, D
<1>2. ASSUME SameInOrder(u, t) PROVE ToSet(u) = ToSet(t)
  <2>1. PICK p \in Bijection(DOMAIN u, DOMAIN t) : \A k \in DOMAIN u : u[k] = t[p[k]]
    BY <1>2 DEF SameInOrder
  <2>2. /\ p \in [DOMAIN u -> DOMAIN t]
        /\ \A m \in DOMAIN t : \E k \in DOMAIN u : p[k] = m
    BY <2>1, Fun_BijectionProperties
  <2> QED
    BY <2>1, <2>2 DEF ToSet
<1> QED
  BY <1>1, <1>2

\* What two tapes hold together.
LEMMA ConcatSet ==
  ASSUME NEW u \in Seq(Interactions), NEW v \in Seq(Interactions)
  PROVE  u \o v \in Seq(Interactions) /\ ToSet(u \o v) = ToSet(u) \cup ToSet(v)
<1>1. /\ u \o v \in Seq(Interactions) /\ DOMAIN (u \o v) = 1 .. Len(u) + Len(v)
      /\ \A k \in 1 .. Len(u) + Len(v) :
           (u \o v)[k] = IF k <= Len(u) THEN u[k] ELSE v[k - Len(u)]
  BY ConcatFacts
<1>2. ASSUME NEW k \in DOMAIN u PROVE k \in DOMAIN (u \o v) /\ (u \o v)[k] = u[k]
  BY <1>1
<1>3. ASSUME NEW k \in DOMAIN v
      PROVE  Len(u) + k \in DOMAIN (u \o v) /\ (u \o v)[Len(u) + k] = v[k]
  <2>1. Len(u) + k \in 1 .. Len(u) + Len(v) /\ ~(Len(u) + k <= Len(u)) /\ (Len(u) + k) - Len(u) = k
    OBVIOUS
  <2> QED
    BY <1>1, <2>1
<1>4. ASSUME NEW k \in DOMAIN (u \o v)
      PROVE  \/ k \in DOMAIN u /\ (u \o v)[k] = u[k]
             \/ k - Len(u) \in DOMAIN v /\ (u \o v)[k] = v[k - Len(u)]
  BY <1>1
<1>5. ToSet(u \o v) \subseteq ToSet(u) \cup ToSet(v)
  BY <1>4 DEF ToSet
<1>6. ToSet(u) \subseteq ToSet(u \o v) /\ ToSet(v) \subseteq ToSet(u \o v)
  BY <1>2, <1>3 DEF ToSet
<1> QED
  BY <1>1, <1>5, <1>6

-----------------------------------------------------------------------------
(* Steps of a call.                                                        *)

CallStates == [req : Requests, at : At, kind : Answers, response : Nat]

\* g is f but for the call c, which has these fields.
Updated(f, g, c, q, a, k, n) ==
  /\ g \in [Calls -> CallStates]
  /\ g[c].req = q /\ g[c].at = a /\ g[c].kind = k /\ g[c].response = n
  /\ \A d \in Calls : d # c => g[d] = f[d]

LEMMA UpdateFacts ==
  ASSUME NEW f \in [Calls -> CallStates], NEW c \in Calls, NEW q \in Requests,
         NEW a \in At, NEW k \in Answers, NEW n \in Nat
  PROVE  /\ Updated(f, [f EXCEPT ![c].at = a], c, f[c].req, a, f[c].kind, f[c].response)
         /\ Updated(f, [f EXCEPT ![c].at = a, ![c].kind = k],
                    c, f[c].req, a, k, f[c].response)
         /\ Updated(f, [f EXCEPT ![c].at = a, ![c].kind = k, ![c].response = n],
                    c, f[c].req, a, k, n)
         /\ Updated(f, [f EXCEPT ![c].req = q, ![c].at = a, ![c].kind = k],
                    c, q, a, k, f[c].response)
<1>1. Updated(f, [f EXCEPT ![c].at = a], c, f[c].req, a, f[c].kind, f[c].response)
  BY DEF Updated, CallStates
<1>2. Updated(f, [f EXCEPT ![c].at = a, ![c].kind = k], c, f[c].req, a, k, f[c].response)
  BY DEF Updated, CallStates
<1>3. Updated(f, [f EXCEPT ![c].at = a, ![c].kind = k, ![c].response = n], c, f[c].req, a, k, n)
  BY DEF Updated, CallStates
<1>4. Updated(f, [f EXCEPT ![c].req = q, ![c].at = a, ![c].kind = k],
              c, q, a, k, f[c].response)
  BY DEF Updated, CallStates
<1> QED
  BY <1>1, <1>2, <1>3, <1>4

\* The lists of the cassette, and everything about a session but the calls.
deck == <<file, bare, cache, session, cassette, savedPatch>>

\* The steps of a call that leave the cassette alone: where the call was, where it goes,
\* and what is known of it then.
Moves(c, q, a, k, n) ==
  \/ /\ Create(c) /\ call[c].at = "unmade" /\ session.on
     /\ \/ attr = "patched" /\ a = "created" /\ k = call[c].kind
        \/ attr # "patched" /\ a = "over" /\ k = "bypass"
     /\ n = call[c].response
  \/ /\ ClientResets(c) /\ call[c].at = "created" /\ a = "reset"
     /\ q = call[c].req /\ k = call[c].kind /\ n = call[c].response
  \/ /\ ClientCalls(c) /\ call[c].at = "reset" /\ a = "called"
     /\ k = (IF attr = "original" THEN call[c].kind ELSE "wrapped")
     /\ q = call[c].req /\ n = call[c].response
  \/ /\ ClientRestores(c) /\ call[c].at = "called"
     /\ a = (IF call[c].kind = "wrapped" THEN "over" ELSE "sent")
     /\ q = call[c].req /\ k = call[c].kind /\ n = call[c].response
  \/ /\ Refuse(c) /\ call[c].at = "sent" /\ session.on /\ a = "over" /\ k = "failed"
     /\ q = call[c].req /\ n = 0
  \/ /\ ServerResets(c) /\ call[c].at = "sent" /\ session.on /\ a = "s_reset"
     /\ CanRecord(mode, existed)
     /\ q = call[c].req /\ k = call[c].kind /\ n = call[c].response
  \/ /\ ServerCalls(c) /\ call[c].at = "s_reset" /\ a = "s_called"
     /\ k = (IF attr = "original" THEN call[c].kind ELSE "wrapped")
     /\ q = call[c].req /\ n = call[c].response
  \/ /\ ServerRestores(c) /\ call[c].at = "s_called"
     /\ a = (IF call[c].kind = "wrapped" \/ ~session.on THEN "over" ELSE "asking")
     /\ q = call[c].req /\ k = call[c].kind /\ n = call[c].response
  \/ /\ RemoteServiceError(c) /\ call[c].at = "asking" /\ session.on /\ a = "over"
     /\ k = "failed" /\ q = call[c].req /\ n = 0

Quiet(c) ==
  \/ Create(c) \/ ClientResets(c) \/ ClientCalls(c) \/ ClientRestores(c) \/ Refuse(c)
  \/ ServerResets(c) \/ ServerCalls(c) \/ ServerRestores(c) \/ RemoteServiceError(c)

LEMMA QuietFacts ==
  ASSUME call \in [Calls -> CallStates], NEW c \in Calls, Quiet(c)
  PROVE  \E q \in Requests, a \in At, k \in Answers, n \in Nat :
           Moves(c, q, a, k, n) /\ Updated(call, call', c, q, a, k, n) /\ UNCHANGED deck
<1>0. call[c].req \in Requests /\ call[c].kind \in Answers /\ call[c].response \in Nat
  BY DEF CallStates
<1>1. CASE Create(c)
  <2>1. PICK q \in Requests :
          call' = [call EXCEPT ![c].req = q,
                               ![c].at = IF attr = "patched" THEN "created" ELSE "over",
                               ![c].kind = IF attr = "patched" THEN @ ELSE "bypass"]
    BY <1>1 DEF Create
  <2> DEFINE a == IF attr = "patched" THEN "created" ELSE "over"
             k == IF attr = "patched" THEN call[c].kind ELSE "bypass"
  <2>2. a \in At /\ k \in Answers /\ UNCHANGED deck
    BY <1>0, <1>1 DEF At, Answers, Create, deck, patches
  <2>3. call' = [call EXCEPT ![c].req = q, ![c].at = a, ![c].kind = k]
    BY <2>1 DEF CallStates
  <2>4. Moves(c, q, a, k, call[c].response)
    BY <1>1 DEF Moves, Create
  <2> HIDE DEF a, k
  <2>5. Updated(call, call', c, q, a, k, call[c].response)
    BY <1>0, <2>2, <2>3, UpdateFacts
  <2> QED
    BY <1>0, <2>2, <2>4, <2>5
\* The steps that move the call.
<1>2. ASSUME NEW a \in At, call' = [call EXCEPT ![c].at = a], UNCHANGED deck,
             Moves(c, call[c].req, a, call[c].kind, call[c].response)
      PROVE  \E q \in Requests, b \in At, k \in Answers, n \in Nat :
               Moves(c, q, b, k, n) /\ Updated(call, call', c, q, b, k, n) /\ UNCHANGED deck
  BY <1>0, <1>2, UpdateFacts
<1>3. CASE ClientResets(c)
  BY <1>2, <1>3 DEF ClientResets, Move, At, Moves, deck
<1>4. CASE ClientRestores(c)
  <2> DEFINE a == IF call[c].kind = "wrapped" THEN "over" ELSE "sent"
  <2>1. a \in At /\ call' = [call EXCEPT ![c].at = a] /\ UNCHANGED deck
    BY <1>4 DEF ClientRestores, Move, At, deck
  <2>2. Moves(c, call[c].req, a, call[c].kind, call[c].response)
    BY <1>4 DEF ClientRestores, Moves
  <2> QED
    BY <1>2, <2>1, <2>2
<1>5. CASE ServerResets(c)
  BY <1>2, <1>5 DEF ServerResets, Move, At, Moves, WriteProtected, deck
<1>6. CASE ServerRestores(c)
  <2> DEFINE a == IF call[c].kind = "wrapped" \/ ~session.on THEN "over" ELSE "asking"
  <2>1. a \in At /\ call' = [call EXCEPT ![c].at = a] /\ UNCHANGED deck
    BY <1>6 DEF ServerRestores, Move, At, deck
  <2>2. Moves(c, call[c].req, a, call[c].kind, call[c].response)
    BY <1>6 DEF ServerRestores, Moves
  <2> QED
    BY <1>2, <2>1, <2>2
\* The steps that find the patch, or not.
<1>7. CASE ClientCalls(c) \/ ServerCalls(c)
  <2> DEFINE a == IF ClientCalls(c) THEN "called" ELSE "s_called"
             k == IF attr = "original" THEN call[c].kind ELSE "wrapped"
  <2>1. a \in At /\ k \in Answers /\ UNCHANGED deck
    BY <1>0, <1>7 DEF ClientCalls, ServerCalls, At, Answers, deck, patches
  <2>2. call' = [call EXCEPT ![c].at = a, ![c].kind = k]
    BY <1>7 DEF ClientCalls, ServerCalls, CallStates
  <2>3. Moves(c, call[c].req, a, k, call[c].response)
    BY <1>7 DEF ClientCalls, ServerCalls, Moves
  <2> HIDE DEF a, k
  <2>4. Updated(call, call', c, call[c].req, a, k, call[c].response)
    BY <1>0, <2>1, <2>2, UpdateFacts
  <2> QED
    BY <1>0, <2>1, <2>3, <2>4
\* The steps that fail the call.
<1>8. CASE Refuse(c) \/ RemoteServiceError(c)
  <2>1. "over" \in At /\ "failed" \in Answers /\ 0 \in Nat /\ UNCHANGED deck
    BY <1>8 DEF Refuse, RemoteServiceError, At, Answers, deck, patches
  <2>2. call' = [call EXCEPT ![c].at = "over", ![c].kind = "failed", ![c].response = 0]
    BY <1>8 DEF Refuse, RemoteServiceError, Over
  <2>3. Moves(c, call[c].req, "over", "failed", 0)
    BY <1>8 DEF Refuse, RemoteServiceError, Moves
  <2>4. Updated(call, call', c, call[c].req, "over", "failed", 0)
    BY <1>0, <2>1, <2>2, UpdateFacts
  <2> QED
    BY <1>0, <2>1, <2>3, <2>4
<1> QED
  BY <1>1, <1>3, <1>4, <1>5, <1>6, <1>7, <1>8 DEF Quiet

-----------------------------------------------------------------------------
(* The inductive invariant.                                                *)

\* The remote service gave this response, to this request.
Genuine(f, x) ==
  /\ x.response \in Calls
  /\ f[x.response].at = "over" /\ f[x.response].kind = "real"
  /\ f[x.response].req = x.request

AllGenuine(f, s) == \A x \in ToSet(s) : Genuine(f, x)

\* What is on the tapes was recorded once; a session started with what is on file.
TapeInv ==
  /\ AllGenuine(call, file.tape) /\ AllGenuine(call, available)
  /\ AllGenuine(call, played) /\ AllGenuine(call, recorded)
  /\ \A e \in cache : e[1] = e[2]
  /\ file.kind # "tape" => file.tape = <<>>
  /\ session.on => loaded = file.tape /\ existed = (file.kind # "missing")

\* A call that has its answer is over; without a session nothing waits for one; real
\* calls are only made in a mode that may record them.
CallInv ==
  /\ \A c \in Calls : call[c].kind \in {"replayed", "real"} => call[c].at = "over"
  /\ ~session.on => \A c \in Calls : call[c].at \in {"unmade", "over", "s_reset", "s_called"}
  /\ session.on /\ recorded # <<>> => CanRecord(mode, existed)
  /\ \A c \in Calls : session.on /\ call[c].at \in {"s_reset", "s_called", "asking"}
                        => CanRecord(mode, existed)

Inv == TypeOK /\ TapeInv /\ CallInv /\ ReplayInOrder /\ AnswersAreGenuine

\* Calls that are over stay as they are.
Grows(f, g) == \A d \in Calls : f[d].at = "over" => g[d] = f[d]

LEMMA GrowsFacts ==
  ASSUME NEW f, NEW g, Grows(f, g), NEW s, AllGenuine(f, s)
  PROVE  AllGenuine(g, s)
  BY DEF Grows, AllGenuine, Genuine

\* What is typed, and what is on the tapes.
LEMMA TypeFacts ==
  ASSUME TypeOK
  PROVE  /\ file.tape \in Seq(Interactions) /\ loaded \in Seq(Interactions)
         /\ available \in Seq(Interactions) /\ played \in Seq(Interactions)
         /\ recorded \in Seq(Interactions)
         /\ call \in [Calls -> CallStates] /\ Calls \subseteq Nat
  BY DEF TypeOK, CallStates, Calls

LEMMA InitInv == Init => Inv
<1> SUFFICES ASSUME Init PROVE Inv
  OBVIOUS
<1> USE CassetteAssumption
<1>0. (CHOOSE m \in Modes : TRUE) \in Modes /\ (CHOOSE q \in Requests : TRUE) \in Requests
  OBVIOUS
<1>1. <<>> \in Seq(Interactions) /\ ToSet(<<>>) = {}
  <2>1. <<>> \in Seq(Interactions) /\ DOMAIN <<>> = {}
    OBVIOUS
  <2> QED
    BY <2>1 DEF ToSet
<1>2. /\ \A c \in Calls : call[c].at = "unmade" /\ call[c].kind = "none"
      /\ call \in [Calls -> [req : Requests, at : At, kind : Answers, response : Nat]]
  BY <1>0 DEF Init, At, Answers
<1>3. file \in [kind : {"missing", "empty", "version", "tape"}, tape : Seq(Interactions)]
      /\ file.tape = <<>>
  <2>1. PICK k \in {"missing", "empty", "version"} : file = [kind |-> k, tape |-> <<>>]
    BY DEF Init
  <2> QED
    BY <1>1, <2>1
<1>4. session \in [n : 0 .. MaxSessions, on : BOOLEAN] /\ ~session.on
  BY DEF Init
<1>5. TypeOK
  BY <1>0, <1>1, <1>2, <1>3, <1>4 DEF Init, TypeOK
<1>6. TapeInv
  BY <1>1, <1>3, <1>4 DEF Init, TapeInv, AllGenuine
<1> QED
  BY <1>2, <1>4, <1>5, <1>6 DEF Inv, CallInv, ReplayInOrder, AnswersAreGenuine

\* The patch is one of the two functions, and what is known of the test's calls is of its
\* type.
OtherTypes ==
  /\ {attr, savedPatch, savedMain, savedServer} \subseteq {"original", "patched"}
  /\ bare \in BOOLEAN /\ givenUp \subseteq Calls /\ concurrent \in BOOLEAN

\* So they are whatever the step.
LEMMA PatchTypes ==
  ASSUME TypeOK, [Next]_vars
  PROVE  OtherTypes'
<1> USE DEF TypeOK, OtherTypes
<1>1. CASE Enter \/ EnterRefused \/ Exit
  BY <1>1 DEF Enter, EnterRefused, Exit, patches, test
<1>2. ASSUME NEW c \in Calls, \/ Create(c) \/ ClientResets(c) \/ ClientCalls(c)
                               \/ ClientRestores(c) \/ ClientTimesOut(c)
      PROVE  OtherTypes'
  BY <1>2 DEF Create, ClientResets, ClientCalls, ClientRestores, ClientTimesOut, patches, test
<1>3. ASSUME NEW c \in Calls, Replay(c) \/ Refuse(c) \/ Record(c) \/ RemoteServiceError(c)
      PROVE  OtherTypes'
  BY <1>3 DEF Replay, Refuse, Record, RemoteServiceError, Over, patches
<1>4. ASSUME NEW c \in Calls, ServerResets(c) \/ ServerCalls(c) \/ ServerRestores(c)
      PROVE  OtherTypes'
  BY <1>4 DEF ServerResets, ServerCalls, ServerRestores, patches, test
<1>5. CASE UNCHANGED vars
  BY <1>5 DEF vars, patches, test
<1> QED
  BY <1>1, <1>2, <1>3, <1>4, <1>5 DEF Next

\* What every step of a call has in common: c was not over, and is what it says now.
LEMMA StepOfCall ==
  ASSUME Inv, NEW c \in Calls, call[c].at # "over",
         NEW q \in Requests, NEW a \in At, NEW k \in Answers, NEW n \in Nat,
         Updated(call, call', c, q, a, k, n),
         UNCHANGED <<file, cache, session, mode, existed, loaded>>
  PROVE  /\ Grows(call, call')
         /\ AllGenuine(call', file'.tape)
         /\ AllGenuine(call', available) /\ AllGenuine(call', played)
         /\ AllGenuine(call', recorded)
         /\ \A e \in cache' : e[1] = e[2]
         /\ file'.kind # "tape" => file'.tape = <<>>
         /\ session'.on => loaded' = file'.tape /\ existed' = (file'.kind # "missing")
<1>1. Grows(call, call')
  BY DEF Grows, Updated
<1> QED
  BY <1>1, GrowsFacts DEF Inv, TapeInv

LEMMA QuietInv ==
  ASSUME Inv, NEW c \in Calls, Quiet(c), [Next]_vars
  PROVE  Inv'
<1>0. call \in [Calls -> CallStates]
  BY TypeFacts DEF Inv
<1>1. PICK q \in Requests, a \in At, k \in Answers, n \in Nat :
        Moves(c, q, a, k, n) /\ Updated(call, call', c, q, a, k, n) /\ UNCHANGED deck
  BY <1>0, QuietFacts
<1>2. UNCHANGED <<file, cache, session, mode, existed, loaded, available, played, recorded>>
  BY <1>1 DEF deck, cassette
\* What is used of the step.
<1>3. /\ call[c].at # "over"
      /\ k \in {"replayed", "real"} => k = call[c].kind
      /\ ~session.on => \/ call[c].at = "s_reset" /\ a = "s_called"
                        \/ call[c].at = "s_called" /\ a = "over"
                        \/ call[c].at \in {"created", "reset", "called"}
      /\ a \in {"s_reset", "s_called", "asking"}
           => \/ CanRecord(mode, existed)
              \/ call[c].at \in {"s_reset", "s_called"}
  BY <1>1 DEF Moves
<1>4. TypeOK'
  <2>1. call' \in [Calls -> [req : Requests, at : At, kind : Answers, response : Nat]]
    BY <1>1 DEF Updated, CallStates
  <2>2. OtherTypes'
    BY PatchTypes DEF Inv
  <2> QED
    BY <1>2, <2>1, <2>2 DEF Inv, TypeOK, OtherTypes
<1>5. TapeInv'
  BY <1>1, <1>2, <1>3, StepOfCall DEF TapeInv
<1>6. CallInv'
  <2>1. k \notin {"replayed", "real"}
    BY <1>3 DEF Inv, CallInv
  <2>2. ~session.on => a \in {"s_called", "over"}
    BY <1>3 DEF Inv, CallInv
  <2>3. session.on /\ a \in {"s_reset", "s_called", "asking"} => CanRecord(mode, existed)
    BY <1>3 DEF Inv, CallInv
  <2>4. \A d \in Calls : call'[d].kind \in {"replayed", "real"} => call'[d].at = "over"
    BY <1>1, <2>1 DEF Inv, CallInv, Updated
  <2>5. ~session.on => \A d \in Calls : call'[d].at \in {"unmade", "over", "s_reset", "s_called"}
    BY <1>1, <2>2 DEF Inv, CallInv, Updated
  <2>6. \A d \in Calls : session.on /\ call'[d].at \in {"s_reset", "s_called", "asking"}
                           => CanRecord(mode, existed)
    BY <1>1, <2>3 DEF Inv, CallInv, Updated
  <2> QED
    BY <1>2, <2>4, <2>5, <2>6 DEF Inv, CallInv, CanRecord
<1>7. ReplayInOrder'
  <2>1. ReplayInOrder
    BY DEF Inv
  <2> QED
    BY <1>2, <2>1 DEF ReplayInOrder
<1>8. AnswersAreGenuine'
  <2> SUFFICES ASSUME NEW e \in Calls, call'[e].kind = "replayed"
               PROVE  LET d == call'[e].response IN
                      /\ d \in Calls /\ call'[d].kind = "real"
                      /\ call'[d].req.key = call'[e].req.key
                      /\ call'[d].req.scheme = call'[e].req.scheme
    BY DEF AnswersAreGenuine
  <2>1. e # c
    BY <1>1, <1>3 DEF Updated, Inv, CallInv
  <2>2. call'[e] = call[e]
    BY <1>1, <2>1 DEF Updated
  <2>3. call[e].response \in Calls /\ call[call[e].response].kind = "real"
    BY <2>2 DEF Inv, AnswersAreGenuine
  <2>4. call'[call[e].response] = call[call[e].response]
    BY <1>1, <1>3, <2>3 DEF Updated, Inv, CallInv
  <2> QED
    BY <2>2, <2>3, <2>4 DEF Inv, AnswersAreGenuine
<1> QED
  BY <1>4, <1>5, <1>6, <1>7, <1>8 DEF Inv

\* A set of positions has a first one.
LEMMA SmallestOf ==
  ASSUME NEW P, P \subseteq Nat, P # {}
  PROVE  \E m \in P : \A j \in P : m <= j
<1>1. PICK m \in P : \A j \in P : <<j, m>> \notin OpToRel(<, Nat)
  BY NatLessThanWellFounded, WFMin
<1>2. m \in P /\ \A j \in P : ~(j < m)
  BY <1>1, Zenon DEF OpToRel
<1> QED
  BY <1>2

LEMMA ReplayInv ==
  ASSUME Inv, NEW c \in Calls, Replay(c), [Next]_vars
  PROVE  Inv'
<1> DEFINE F == Found(call[c].req)
           i == CHOOSE x \in F : \A j \in F : x <= j
<1>0. /\ call \in [Calls -> CallStates] /\ available \in Seq(Interactions)
      /\ played \in Seq(Interactions) /\ loaded \in Seq(Interactions)
  BY TypeFacts DEF Inv
<1>1. /\ session.on /\ call[c].at = "sent"
      /\ UNCHANGED <<file, cache, session, mode, existed, loaded, recorded>>
  BY DEF Replay
\* The first one that matches.
<1>2. i \in F /\ \A j \in F : i <= j
  <2>1. F # {} /\ F \subseteq Nat
    BY <1>0 DEF Replay, CanReplay, Found
  <2>2. PICK m \in F : \A j \in F : m <= j
    <3> DEFINE P == {m \in Nat : m \in F}
    <3>1. P \subseteq Nat /\ P # {}
      BY <2>1
    <3> HIDE DEF F
    <3>2. \E m \in P : \A j \in P : m <= j
      BY <2>1, <3>1, SmallestOf
    <3> QED
      BY <2>1, <3>2
  <2> HIDE DEF F
  <2> QED
    BY <2>2
<1>3. /\ i \in DOMAIN available /\ Match(call[c].req, available[i].request)
      /\ \A j \in DOMAIN available : j < i => ~Match(call[c].req, available[j].request)
  <2>1. i \in DOMAIN available /\ Match(call[c].req, available[i].request)
    BY <1>2 DEF Found
  <2>2. ASSUME NEW j \in DOMAIN available, j < i, Match(call[c].req, available[j].request)
        PROVE  FALSE
    <3>1. j \in F
      BY <2>2 DEF Found
    <3>2. i <= j /\ i \in Nat /\ j \in Nat
      BY <1>0, <1>2, <2>1, <3>1
    <3> HIDE DEF i
    <3> QED
      BY <2>2, <3>2
  <2> QED
    BY <2>1, <2>2
<1>4. /\ available' = RemoveAt(available, i) /\ played' = Append(played, available[i])
      /\ call' = [call EXCEPT ![c].at = "over", ![c].kind = "replayed",
                              ![c].response = available[i].response]
  BY DEF Replay, Remaining, Taken, Over
<1> HIDE DEF F, i
<1>5. available[i] \in Interactions
  BY <1>0, <1>3
<1>6. available[i].response \in Nat /\ available[i].request \in Requests
  BY <1>5 DEF Interactions
<1>7. call[c].req \in Requests /\ "over" \in At /\ "replayed" \in Answers
  BY <1>0 DEF CallStates, At, Answers
<1>8. Updated(call, call', c, call[c].req, "over", "replayed", available[i].response)
  BY <1>0, <1>4, <1>6, <1>7, UpdateFacts
<1>9. /\ AllGenuine(call', available) /\ AllGenuine(call', played)
      /\ AllGenuine(call', recorded) /\ AllGenuine(call', file'.tape)
      /\ \A e \in cache' : e[1] = e[2]
      /\ file'.kind # "tape" => file'.tape = <<>>
      /\ session'.on => loaded' = file'.tape /\ existed' = (file'.kind # "missing")
  BY <1>1, <1>6, <1>7, <1>8, StepOfCall
<1>10. /\ available' \in Seq(Interactions) /\ played' \in Seq(Interactions)
       /\ ToSet(available') \subseteq ToSet(available)
       /\ ToSet(played') = ToSet(played) \cup {available[i]}
  <2>1. /\ RemoveAt(available, i) \in Seq(Interactions)
        /\ Len(RemoveAt(available, i)) = Len(available) - 1
        /\ \A x \in 1 .. Len(available) - 1 :
             RemoveAt(available, i)[x] = IF x < i THEN available[x] ELSE available[x + 1]
    BY <1>0, <1>3, RemoveAtFacts
  <2>2. ToSet(available') \subseteq ToSet(available)
    <3> SUFFICES ASSUME NEW x \in DOMAIN available' PROVE available'[x] \in ToSet(available)
      BY DEF ToSet
    <3>1. x \in 1 .. Len(available) - 1
      BY <1>4, <2>1
    <3>2. x \in DOMAIN available /\ x + 1 \in DOMAIN available
      BY <1>0, <3>1
    <3> QED
      BY <1>4, <2>1, <3>1, <3>2 DEF ToSet
  <2>3. /\ played' \in Seq(Interactions) /\ Len(played') = Len(played) + 1
        /\ \A x \in 1 .. Len(played) : played'[x] = played[x]
        /\ played'[Len(played) + 1] = available[i]
    BY <1>0, <1>4, <1>5
  <2>4. ToSet(played') = ToSet(played) \cup {available[i]}
    <3>1. DOMAIN played = 1 .. Len(played) /\ Len(played) \in Nat
      BY <1>0
    <3>2. DOMAIN played' = DOMAIN played \cup {Len(played) + 1}
      BY <2>3, <3>1
    <3> QED
      BY <2>3, <3>1, <3>2 DEF ToSet
  <2> QED
    BY <1>4, <2>1, <2>2, <2>3, <2>4
<1>11. Genuine(call, available[i]) /\ Genuine(call', available[i])
  BY <1>0, <1>3, <1>9 DEF AllGenuine, ToSet, Inv, TapeInv
<1>12. TypeOK'
  <2>1. call' \in [Calls -> [req : Requests, at : At, kind : Answers, response : Nat]]
    BY <1>8 DEF Updated, CallStates
  <2>2. OtherTypes'
    BY PatchTypes DEF Inv
  <2> QED
    BY <1>1, <1>10, <2>1, <2>2 DEF Inv, TypeOK, OtherTypes
<1>13. TapeInv'
  BY <1>1, <1>9, <1>10, <1>11 DEF TapeInv, AllGenuine
<1>14. CallInv'
  BY <1>1, <1>8 DEF Inv, CallInv, Updated, CanRecord
<1>15. ReplayInOrder'
  <2>1. \A j \in DOMAIN available : j < i => ~Match(available[i].request, available[j].request)
    <3> SUFFICES ASSUME NEW j \in DOMAIN available, j < i,
                        Match(available[i].request, available[j].request)
                 PROVE  FALSE
      OBVIOUS
    <3>1. Match(call[c].req, available[j].request)
      BY <1>3 DEF Match, HeadersMatch
    <3> QED
      BY <1>3, <3>1
  <2>2. SameInOrder(played \o available, loaded)
    BY <1>1 DEF Inv, ReplayInOrder
  <2>3. SameInOrder(Append(played, available[i]) \o RemoveAt(available, i), loaded)
    BY <1>0, <1>3, <2>1, <2>2, ReplayKeepsOrder
  <2> DEFINE u == Append(played, available[i]) \o RemoveAt(available, i)
  <2>4. played' \o available' = u /\ loaded' = loaded
    BY <1>1, <1>4
  <2>5. SameInOrder(u, loaded)
    BY <2>3
  <2> HIDE DEF u
  <2> QED
    BY <2>4, <2>5 DEF ReplayInOrder, SameInOrder
<1>16. AnswersAreGenuine'
  <2> SUFFICES ASSUME NEW e \in Calls, call'[e].kind = "replayed"
               PROVE  LET d == call'[e].response IN
                      /\ d \in Calls /\ call'[d].kind = "real"
                      /\ call'[d].req.key = call'[e].req.key
                      /\ call'[d].req.scheme = call'[e].req.scheme
    BY DEF AnswersAreGenuine
  <2>1. CASE e = c
    <3>1. call'[c].response = available[i].response /\ call'[c].req = call[c].req
      BY <1>8 DEF Updated
    <3>2. /\ call[c].req.key = available[i].request.key
          /\ call[c].req.scheme = available[i].request.scheme
      BY <1>3 DEF Match, HeadersMatch
    <3> QED
      BY <1>11, <2>1, <3>1, <3>2 DEF Genuine
  <2>2. CASE e # c
    <3>1. call'[e] = call[e]
      BY <1>8, <2>2 DEF Updated
    <3>2. call[e].response \in Calls /\ call[call[e].response].kind = "real"
      BY <3>1 DEF Inv, AnswersAreGenuine
    <3>3. call'[call[e].response] = call[call[e].response]
      BY <1>1, <1>8, <3>2 DEF Updated, Inv, CallInv
    <3> QED
      BY <3>1, <3>2, <3>3 DEF Inv, AnswersAreGenuine
  <2> QED
    BY <2>1, <2>2
<1> QED
  BY <1>12, <1>13, <1>14, <1>15, <1>16 DEF Inv

\* Answers that were genuine remain so where no new one is replayed.
LEMMA StayGenuine ==
  ASSUME Inv, Grows(call, call'),
         \A e \in Calls : call'[e].kind = "replayed" => call[e].kind = "replayed"
  PROVE  AnswersAreGenuine'
<1> SUFFICES ASSUME NEW e \in Calls, call'[e].kind = "replayed"
             PROVE  LET d == call'[e].response IN
                    /\ d \in Calls /\ call'[d].kind = "real"
                    /\ call'[d].req.key = call'[e].req.key
                    /\ call'[d].req.scheme = call'[e].req.scheme
  BY DEF AnswersAreGenuine
<1>1. call'[e] = call[e]
  BY DEF Inv, CallInv, Grows
<1>2. call[e].response \in Calls /\ call[call[e].response].kind = "real"
  BY <1>1 DEF Inv, AnswersAreGenuine
<1>3. call'[call[e].response] = call[call[e].response]
  BY <1>2 DEF Inv, CallInv, Grows
<1> QED
  BY <1>1, <1>2, <1>3 DEF Inv, AnswersAreGenuine

LEMMA RecordInv ==
  ASSUME Inv, NEW c \in Calls, Record(c), [Next]_vars
  PROVE  Inv'
<1> DEFINE x == [request |-> call[c].req, response |-> c]
<1>0. call \in [Calls -> CallStates] /\ recorded \in Seq(Interactions) /\ c \in Nat
  BY TypeFacts DEF Inv
<1>1. /\ session.on /\ call[c].at = "asking" /\ recorded' = Append(recorded, x)
      /\ UNCHANGED <<file, cache, session, mode, existed, loaded, available, played>>
      /\ call' = [call EXCEPT ![c].at = "over", ![c].kind = "real", ![c].response = c]
  BY DEF Record, Over
<1>2. call[c].req \in Requests /\ "over" \in At /\ "real" \in Answers
  BY <1>0 DEF CallStates, At, Answers
<1>3. Updated(call, call', c, call[c].req, "over", "real", c)
  BY <1>0, <1>1, <1>2, UpdateFacts
<1>4. /\ Grows(call, call')
      /\ AllGenuine(call', available) /\ AllGenuine(call', played)
      /\ AllGenuine(call', recorded) /\ AllGenuine(call', file'.tape)
      /\ \A e \in cache' : e[1] = e[2]
      /\ file'.kind # "tape" => file'.tape = <<>>
      /\ session'.on => loaded' = file'.tape /\ existed' = (file'.kind # "missing")
  BY <1>0, <1>1, <1>2, <1>3, StepOfCall
<1>5. x \in Interactions /\ Genuine(call', x)
  BY <1>0, <1>2, <1>3 DEF Interactions, Genuine, Updated
<1> HIDE DEF x
<1>6. /\ recorded' \in Seq(Interactions) /\ Len(recorded') = Len(recorded) + 1
      /\ \A k \in 1 .. Len(recorded) : recorded'[k] = recorded[k]
      /\ recorded'[Len(recorded) + 1] = x
  BY <1>0, <1>1, <1>5
<1>7. AllGenuine(call', recorded')
  <2> SUFFICES ASSUME NEW k \in DOMAIN recorded' PROVE Genuine(call', recorded'[k])
    BY DEF AllGenuine, ToSet
  <2>1. (k \in DOMAIN recorded /\ recorded'[k] = recorded[k]) \/ recorded'[k] = x
    BY <1>0, <1>6
  <2> QED
    BY <1>4, <1>5, <2>1 DEF AllGenuine, ToSet
<1>8. TypeOK'
  <2>1. call' \in [Calls -> [req : Requests, at : At, kind : Answers, response : Nat]]
    BY <1>3 DEF Updated, CallStates
  <2>2. OtherTypes'
    BY PatchTypes DEF Inv
  <2> QED
    BY <1>1, <1>6, <2>1, <2>2 DEF Inv, TypeOK, OtherTypes
<1>9. TapeInv'
  BY <1>1, <1>4, <1>7 DEF TapeInv
<1>10. CallInv'
  BY <1>1, <1>3 DEF Inv, CallInv, Updated, CanRecord
<1>11. ReplayInOrder'
  <2>1. UNCHANGED <<session, played, available, loaded>>
    BY <1>1
  <2> QED
    BY <2>1 DEF Inv, ReplayInOrder, SameInOrder
<1>12. AnswersAreGenuine'
  BY <1>3, <1>4, StayGenuine DEF Updated
<1> QED
  BY <1>8, <1>9, <1>10, <1>11, <1>12 DEF Inv

\* A session starts with the tape that is on file, whether or not it is known already.
LEMMA EnterInv ==
  ASSUME Inv, Enter, [Next]_vars
  PROVE  Inv'
<1>0. file.tape \in Seq(Interactions)
  BY TypeFacts DEF Inv
<1>1. /\ ~session.on /\ session.n < MaxSessions
      /\ session' = [n |-> session.n + 1, on |-> TRUE] /\ mode' \in Modes
      /\ Load /\ played' = <<>> /\ recorded' = <<>> /\ UNCHANGED <<file, call>>
      /\ \A c \in Calls : call[c].at \notin {"s_reset", "s_called"}
  BY DEF Enter, OnServer
<1>2. /\ available' = file.tape /\ loaded' = file.tape
      /\ existed' = (file.kind # "missing")
      /\ \A e \in cache' : e[1] = e[2]
      /\ cache' \subseteq cache \cup {<<file.tape, file.tape>>}
  <2>1. \A y \in Tapes(file.tape) : y = file.tape
    BY DEF Tapes, CacheKey, Inv, TapeInv
  <2>2. CASE Tapes(file.tape) = {}
    BY <1>1, <2>2 DEF Load, CacheKey, Inv, TapeInv
  <2>3. CASE Tapes(file.tape) # {}
    <3>1. (CHOOSE y \in Tapes(file.tape) : TRUE) = file.tape
      BY <2>1, <2>3
    <3> QED
      BY <1>1, <2>3, <3>1 DEF Load, Inv, TapeInv
  <2> QED
    BY <2>2, <2>3
<1>3. <<>> \in Seq(Interactions) /\ ToSet(<<>>) = {}
  <2>1. <<>> \in Seq(Interactions) /\ DOMAIN <<>> = {}
    OBVIOUS
  <2> QED
    BY <2>1 DEF ToSet
<1>4. TypeOK'
  <2>1. cache' \subseteq Seq(Interactions) \X Seq(Interactions)
    BY <1>0, <1>2 DEF Inv, TypeOK
  <2>2. session' \in [n : 0 .. MaxSessions, on : BOOLEAN]
    BY <1>1, CassetteAssumption DEF Inv, TypeOK
  <2>3. OtherTypes'
    BY PatchTypes DEF Inv
  <2>4. existed' \in BOOLEAN
    BY <1>2
  <2> QED
    BY <1>0, <1>1, <1>2, <1>3, <2>1, <2>2, <2>3, <2>4 DEF Inv, TypeOK, OtherTypes
<1>5. TapeInv'
  BY <1>1, <1>2, <1>3 DEF Inv, TapeInv, AllGenuine, Genuine
<1>6. CallInv'
  BY <1>1 DEF Inv, CallInv
<1>7. ReplayInOrder'
  <2>1. SameInOrder(<<>> \o file.tape, file.tape)
    BY <1>0, OrderFacts
  <2>2. played' \o available' = <<>> \o file.tape /\ loaded' = file.tape
    BY <1>1, <1>2
  <2> QED
    BY <2>1, <2>2 DEF ReplayInOrder, SameInOrder
<1>8. AnswersAreGenuine'
  BY <1>1 DEF Inv, AnswersAreGenuine
<1> QED
  BY <1>4, <1>5, <1>6, <1>7, <1>8 DEF Inv

LEMMA EnterRefusedInv ==
  ASSUME Inv, EnterRefused, [Next]_vars
  PROVE  Inv'
<1>1. /\ ~session.on /\ session' = [session EXCEPT !.n = @ + 1] /\ session.n < MaxSessions
      /\ UNCHANGED <<file, cache, mode, existed, loaded, available, played, recorded, call,
                     bare, attr, savedPatch, savedMain, savedServer, givenUp, concurrent>>
  BY DEF EnterRefused, cassette, patches, test
<1>2. session' \in [n : 0 .. MaxSessions, on : BOOLEAN] /\ ~session'.on
  <2>1. session \in [n : 0 .. MaxSessions, on : BOOLEAN] /\ MaxSessions \in Nat
    BY CassetteAssumption DEF Inv, TypeOK
  <2>2. session.n + 1 \in 0 .. MaxSessions
    BY <1>1, <2>1
  <2> QED
    BY <1>1, <2>1, <2>2
<1>3. TypeOK'
  BY <1>1, <1>2 DEF Inv, TypeOK
<1>4. TapeInv' /\ CallInv'
  BY <1>1, <1>2 DEF Inv, TapeInv, CallInv, AllGenuine, Genuine
<1>5. ReplayInOrder' /\ AnswersAreGenuine'
  BY <1>1, <1>2 DEF Inv, ReplayInOrder, AnswersAreGenuine
<1> QED
  BY <1>3, <1>4, <1>5 DEF Inv

\* What is saved is what was replayed, what was not, and what was recorded.
LEMMA SavedFacts ==
  ASSUME TypeOK
  PROVE  /\ Saved \in Seq(Interactions)
         /\ ToSet(Saved) \subseteq ToSet(played) \cup ToSet(available) \cup ToSet(recorded)
         /\ ToSet(played) \cup ToSet(recorded) \subseteq ToSet(Saved)
         /\ mode # "all" => ToSet(available) \subseteq ToSet(Saved)
<1>1. /\ available \in Seq(Interactions) /\ played \in Seq(Interactions)
      /\ recorded \in Seq(Interactions)
  BY TypeFacts
<1> DEFINE a == IF SaveUnplayed(mode) THEN available ELSE <<>>
<1>2. /\ a \in Seq(Interactions) /\ ToSet(a) \subseteq ToSet(available)
      /\ mode # "all" => a = available
  <2>1. <<>> \in Seq(Interactions) /\ DOMAIN <<>> = {}
    OBVIOUS
  <2>2. ToSet(<<>>) = {}
    BY <2>1 DEF ToSet
  <2> QED
    BY <1>1, <2>1, <2>2 DEF SaveUnplayed
<1>3. Saved = (played \o a) \o recorded
  BY DEF Saved
<1> HIDE DEF a
<1>4. played \o a \in Seq(Interactions) /\ ToSet(played \o a) = ToSet(played) \cup ToSet(a)
  BY <1>1, <1>2, ConcatSet
<1>5. /\ (played \o a) \o recorded \in Seq(Interactions)
      /\ ToSet((played \o a) \o recorded) = ToSet(played \o a) \cup ToSet(recorded)
  BY <1>1, <1>4, ConcatSet
<1> QED
  BY <1>2, <1>3, <1>4, <1>5

LEMMA ExitInv ==
  ASSUME Inv, Exit, [Next]_vars
  PROVE  Inv'
<1>0. call \in [Calls -> CallStates] /\ TypeOK
  BY TypeFacts DEF Inv
<1>1. /\ session.on /\ session' = [session EXCEPT !.on = FALSE]
      /\ \A c \in Calls : call[c].at \notin {"created", "reset", "called"}
      /\ file' = IF Writes THEN [kind |-> "tape", tape |-> Saved] ELSE file
      /\ available' = IF Writes THEN Saved ELSE available
      /\ played' = IF Writes THEN <<>> ELSE played
      /\ recorded' = <<>>
      /\ call' = Stopped
      /\ UNCHANGED <<cache, mode, existed, loaded>>
  BY DEF Exit, OnMain
<1>2. session' \in [n : 0 .. MaxSessions, on : BOOLEAN] /\ ~session'.on
  BY <1>0, <1>1 DEF TypeOK
<1>3. /\ call' \in [Calls -> CallStates]
      /\ \A d \in Calls : /\ call'[d].kind = call[d].kind
                          /\ \/ call[d].at \in {"sent", "asking"} /\ call'[d].at = "over"
                             \/ call[d].at \notin {"sent", "asking"} /\ call'[d] = call[d]
  BY <1>0, <1>1 DEF Stopped, CallStates, At
<1>4. Grows(call, call')
  BY <1>3 DEF Grows
<1>5. /\ AllGenuine(call', file.tape) /\ AllGenuine(call', available)
      /\ AllGenuine(call', played) /\ AllGenuine(call', recorded)
  BY <1>4, GrowsFacts DEF Inv, TapeInv
<1>6. Saved \in Seq(Interactions) /\ AllGenuine(call', Saved)
  BY <1>0, <1>5, SavedFacts DEF AllGenuine
<1>7. <<>> \in Seq(Interactions) /\ ToSet(<<>>) = {}
  <2>1. <<>> \in Seq(Interactions) /\ DOMAIN <<>> = {}
    OBVIOUS
  <2> QED
    BY <2>1 DEF ToSet
<1>8. /\ file' \in [kind : {"missing", "empty", "version", "tape"}, tape : Seq(Interactions)]
      /\ available' \in Seq(Interactions) /\ played' \in Seq(Interactions)
      /\ AllGenuine(call', file'.tape) /\ AllGenuine(call', available')
      /\ AllGenuine(call', played') /\ AllGenuine(call', recorded')
      /\ file'.kind # "tape" => file'.tape = <<>>
  <2>1. CASE ~Writes
    BY <1>0, <1>1, <1>5, <1>7, <2>1 DEF TypeOK, Inv, TapeInv, AllGenuine
  <2>2. CASE Writes
    BY <1>1, <1>6, <1>7, <2>2 DEF AllGenuine
  <2> QED
    BY <2>1, <2>2
<1>9. TypeOK'
  <2>1. OtherTypes'
    BY PatchTypes DEF Inv
  <2> QED
    BY <1>0, <1>1, <1>2, <1>3, <1>7, <1>8, <2>1 DEF TypeOK, CallStates, OtherTypes
<1>10. TapeInv'
  BY <1>1, <1>2, <1>8 DEF TapeInv, Inv
<1>11. CallInv'
  <2>1. \A d \in Calls : call'[d].kind \in {"replayed", "real"} => call'[d].at = "over"
    BY <1>3 DEF Inv, CallInv
  <2>2. \A d \in Calls : call'[d].at \in {"unmade", "over", "s_reset", "s_called"}
    <3> SUFFICES ASSUME NEW d \in Calls
                 PROVE  call'[d].at \in {"unmade", "over", "s_reset", "s_called"}
      OBVIOUS
    <3>1. call[d].at \in At
      BY <1>0 DEF CallStates
    <3> QED
      BY <1>1, <1>3, <3>1 DEF At
  <2> QED
    BY <1>2, <2>1, <2>2 DEF CallInv
<1>12. ReplayInOrder'
  BY <1>2 DEF ReplayInOrder
<1>13. AnswersAreGenuine'
  BY <1>3, <1>4, StayGenuine
<1> QED
  BY <1>9, <1>10, <1>11, <1>12, <1>13 DEF Inv

LEMMA NextInv == Inv /\ [Next]_vars => Inv'
<1> SUFFICES ASSUME Inv, [Next]_vars PROVE Inv'
  OBVIOUS
<1>1. CASE Enter \/ EnterRefused \/ Exit
  BY <1>1, EnterInv, EnterRefusedInv, ExitInv
<1>2. CASE \E c \in Calls : Quiet(c)
  BY <1>2, QuietInv
<1>3. CASE \E c \in Calls : Replay(c) \/ Record(c)
  BY <1>3, ReplayInv, RecordInv
\* A call that times out for the test changes nothing but that.
<1>4. CASE UNCHANGED vars \/ \E c \in Calls : ClientTimesOut(c)
  <2>1. UNCHANGED <<file, cache, session, mode, existed, loaded, available, played, recorded,
                    call>>
    BY <1>4 DEF vars, cassette, ClientTimesOut
  <2>2. TypeOK'
    BY <2>1, PatchTypes DEF Inv, TypeOK, OtherTypes
  <2>3. TapeInv'
    BY <2>1 DEF Inv, TapeInv, AllGenuine, Genuine
  <2>4. CallInv'
    BY <2>1 DEF Inv, CallInv
  <2>5. ReplayInOrder' /\ AnswersAreGenuine'
    BY <2>1 DEF Inv, ReplayInOrder, SameInOrder, AnswersAreGenuine
  <2> QED
    BY <2>2, <2>3, <2>4, <2>5 DEF Inv
<1> QED
  BY <1>1, <1>2, <1>3, <1>4 DEF Next, Quiet

\* A test that replays gets answers the remote service gave, to requests that differ from
\* its own in their tracing headers at most, in the order in which they were recorded and
\* each recording once a session (Cassette.replay, VCRProxyService.send): for any requests,
\* modes, calls and sessions, and however the two threads interleave.
THEOREM RecordedIsReplayed == Spec => []ReplayIsFaithful
<1>1. Inv => ReplayIsFaithful
  BY DEF Inv, ReplayIsFaithful
<1> QED
  BY <1>1, InitInv, NextInv, PTL DEF Spec

-----------------------------------------------------------------------------
(* The file.                                                               *)

\* During a session the tape on file is what was replayed and what was not.
LEMMA FileFacts ==
  ASSUME Inv, session.on
  PROVE  ToSet(file.tape) = ToSet(played) \cup ToSet(available)
<1>1. /\ available \in Seq(Interactions) /\ played \in Seq(Interactions)
      /\ loaded \in Seq(Interactions) /\ loaded = file.tape
  BY TypeFacts DEF Inv, TapeInv
<1>2. SameInOrder(played \o available, loaded)
  BY DEF Inv, ReplayInOrder
<1>3. /\ played \o available \in Seq(Interactions)
      /\ ToSet(played \o available) = ToSet(played) \cup ToSet(available)
  BY <1>1, ConcatSet
<1>4. ToSet(played \o available) = ToSet(loaded)
  BY <1>1, <1>2, <1>3, OrderFacts
<1> QED
  BY <1>1, <1>3, <1>4

\* Only the end of a session that recorded something writes the file, and only there a
\* session ends.
LEMMA ExitFacts ==
  ASSUME Inv, [Next]_vars
  PROVE  /\ file' # file => Exit /\ Writes
         /\ session.on /\ ~session'.on => Exit
<1>1. CASE Enter \/ EnterRefused
  BY <1>1 DEF Enter, EnterRefused
<1>2. CASE Exit
  BY <1>2 DEF Exit
<1>3. ASSUME NEW c \in Calls, \/ Create(c) \/ ClientResets(c) \/ ClientCalls(c)
                               \/ ClientRestores(c) \/ ClientTimesOut(c)
      PROVE  UNCHANGED <<file, session>>
  BY <1>3 DEF Create, ClientResets, ClientCalls, ClientRestores, ClientTimesOut
<1>4. ASSUME NEW c \in Calls, Replay(c) \/ Refuse(c) \/ Record(c) \/ RemoteServiceError(c)
      PROVE  UNCHANGED <<file, session>>
  BY <1>4 DEF Replay, Refuse, Record, RemoteServiceError
<1>5. ASSUME NEW c \in Calls, ServerResets(c) \/ ServerCalls(c) \/ ServerRestores(c)
      PROVE  UNCHANGED <<file, session>>
  BY <1>5 DEF ServerResets, ServerCalls, ServerRestores
<1>6. CASE UNCHANGED vars
  BY <1>6 DEF vars
<1> QED
  BY <1>1, <1>2, <1>3, <1>4, <1>5, <1>6 DEF Next

\* Saving a cassette (Cassette.save, on leaving use_cassette) forgets nothing that was on
\* file unless the mode is to record all anew, writes nothing in a mode that only replays,
\* and leaves every answer the session gave on file, or, where the path has no directory
\* part, the file as it was: for any requests, modes, calls and sessions, with calls that
\* time out for the test and calls under way when the session ends.
THEOREM SessionsKeepTheFile == Spec => FileIsKept
<1>1. ASSUME Inv, [Next]_vars, file' # file, file.kind = "tape", mode # "all"
      PROVE  ToSet(file.tape) \subseteq ToSet(file'.tape)
  <2>1. Exit /\ Writes
    BY <1>1, ExitFacts
  <2>2. session.on /\ file'.tape = Saved
    BY <2>1 DEF Exit
  <2>3. ToSet(file.tape) = ToSet(played) \cup ToSet(available)
    BY <1>1, <2>2, FileFacts
  <2>4. ToSet(played) \cup ToSet(available) \subseteq ToSet(Saved)
    BY <1>1, SavedFacts DEF Inv
  <2> QED
    BY <2>2, <2>3, <2>4
<1>2. ASSUME Inv, [Next]_vars, file' # file
      PROVE  mode \in {"new_episodes", "all"} \/ file.kind = "missing"
  <2>1. Exit /\ Writes
    BY <1>2, ExitFacts
  <2>2. session.on
    BY <2>1 DEF Exit
  <2>3. CanRecord(mode, existed) /\ existed = (file.kind # "missing")
    BY <1>2, <2>1, <2>2 DEF Inv, CallInv, TapeInv, Writes
  <2> QED
    BY <2>3 DEF CanRecord
<1>3. ASSUME Inv, [Next]_vars, session.on, ~session'.on
      PROVE  /\ \A i \in DOMAIN played : Contains(file'.tape, played[i])
             /\ \A i \in DOMAIN recorded : bare \/ Contains(file'.tape, recorded[i])
             /\ bare => file' = file
  <2>1. Exit
    BY <1>3, ExitFacts
  <2>2. /\ ~Writes => file' = file
        /\ Writes => file'.tape = Saved
    BY <2>1 DEF Exit
  <2>3. file'.tape \in Seq(Interactions)
    <3>1. TypeOK'
      BY <1>3, NextInv DEF Inv
    <3> QED
      BY <3>1 DEF TypeOK
  <2>4. /\ ToSet(played) \subseteq ToSet(file'.tape)
        /\ bare \/ ToSet(recorded) \subseteq ToSet(file'.tape)
    <3>1. CASE ~Writes
      <4>1. ToSet(played) \subseteq ToSet(file'.tape)
        BY <1>3, <2>2, <3>1, FileFacts
      <4>2. CASE bare
        BY <4>1, <4>2
      <4>3. CASE recorded = <<>>
        <5>1. DOMAIN recorded = {}
          BY <4>3
        <5>2. ToSet(recorded) = {}
          BY <5>1 DEF ToSet
        <5> QED
          BY <4>1, <5>2
      <4> QED
        BY <3>1, <4>2, <4>3 DEF Writes
    <3>2. CASE Writes
      BY <1>3, <2>2, <3>2, SavedFacts DEF Inv
    <3> QED
      BY <3>1, <3>2
  <2>5. \A y \in ToSet(file'.tape) : Contains(file'.tape, y)
    BY <2>3 DEF ToSet, Contains
  <2>6. bare => file' = file
    BY <2>2 DEF Writes
  <2> QED
    BY <2>4, <2>5, <2>6 DEF ToSet
<1>4. Inv /\ [Next]_vars =>
        [file.kind = "tape" /\ mode # "all" => ToSet(file.tape) \subseteq ToSet(file'.tape)]_file
  BY <1>1
<1>5. Inv /\ [Next]_vars =>
        [file' # file => mode \in {"new_episodes", "all"} \/ file.kind = "missing"]_file
  BY <1>2
<1>6. Inv /\ [Next]_vars =>
        [session.on /\ ~session'.on =>
           /\ \A i \in DOMAIN played : Contains(file'.tape, played[i])
           /\ \A i \in DOMAIN recorded : bare \/ Contains(file'.tape, recorded[i])
           /\ bare => file' = file]_vars
  BY <1>3
<1> QED
  BY <1>4, <1>5, <1>6, InitInv, NextInv, PTL
     DEF Spec, FileIsKept, NothingIsForgotten, ReplayLeavesFile, AnsweredIsSaved

-----------------------------------------------------------------------------
(* The patch.                                                              *)

\* While the test makes one call after the other, whichever thread is in force_reset is
\* there alone, and will put the patch back.
PatchInv ==
  ~concurrent =>
    /\ \A c, d \in Calls : /\ call[c].at \notin {"unmade", "over"}
                           /\ call[d].at \notin {"unmade", "over"}
                           => c = d
    /\ \A c \in Calls : call[c].at \notin {"unmade", "over"} => session.on
    /\ session.on => savedPatch = "original"
    /\ \A c \in Calls : call[c].kind \notin {"bypass", "wrapped"}
    /\ \A c \in Calls : call[c].at \in {"reset", "called"}
                          => attr = "original" /\ savedMain = "patched"
    /\ \A c \in Calls : call[c].at \in {"s_reset", "s_called"}
                          => attr = "original" /\ savedServer = "patched"
    /\ (\A c \in Calls : call[c].at \notin {"reset", "called", "s_reset", "s_called"})
         => attr = IF session.on THEN "patched" ELSE "original"

\* A step of the only call under way.
LEMMA PatchStep ==
  ASSUME NEW c \in Calls, NEW q, NEW a, NEW k, NEW n,
         Updated(call, call', c, q, a, k, n),
         \A d \in Calls : d # c => call[d].at \in {"unmade", "over"},
         \A d \in Calls : call[d].kind \notin {"bypass", "wrapped"},
         k \notin {"bypass", "wrapped"}, session.on, session' = session,
         savedPatch' = "original",
         a \in {"reset", "called"} => attr' = "original" /\ savedMain' = "patched",
         a \in {"s_reset", "s_called"} => attr' = "original" /\ savedServer' = "patched",
         a \notin {"reset", "called", "s_reset", "s_called"} => attr' = "patched"
  PROVE  PatchInv'
<1>1. /\ call'[c].at = a /\ call'[c].kind = k
      /\ \A d \in Calls : d # c => call'[d] = call[d] /\ call'[d].at \in {"unmade", "over"}
  BY DEF Updated
<1>2. \A d \in Calls : call'[d].at \notin {"unmade", "over"} => d = c
  BY <1>1
<1>3. \A d \in Calls : call'[d].kind \notin {"bypass", "wrapped"}
  BY <1>1
<1>4. \A d \in Calls : call'[d].at \in {"reset", "called"}
                         => attr' = "original" /\ savedMain' = "patched"
  BY <1>1
<1>5. \A d \in Calls : call'[d].at \in {"s_reset", "s_called"}
                         => attr' = "original" /\ savedServer' = "patched"
  BY <1>1
<1>6. (\A d \in Calls : call'[d].at \notin {"reset", "called", "s_reset", "s_called"})
         => attr' = "patched"
  BY <1>1
<1> QED
  BY <1>2, <1>3, <1>4, <1>5, <1>6 DEF PatchInv

\* What PatchInv says of a call under way.
LEMMA AloneFacts ==
  ASSUME PatchInv, ~concurrent, NEW c \in Calls, call[c].at \notin {"unmade", "over"}
  PROVE  /\ \A d \in Calls : d # c => call[d].at \in {"unmade", "over"}
         /\ \A d \in Calls : call[d].kind \notin {"bypass", "wrapped"}
         /\ session.on /\ savedPatch = "original"
         /\ call[c].at \in {"reset", "called"} => attr = "original" /\ savedMain = "patched"
         /\ call[c].at \in {"s_reset", "s_called"}
              => attr = "original" /\ savedServer = "patched"
         /\ call[c].at \notin {"reset", "called", "s_reset", "s_called"} => attr = "patched"
<1>1. \A d \in Calls : d # c => call[d].at \in {"unmade", "over"}
  BY DEF PatchInv
<1>2. session.on /\ savedPatch = "original"
  BY DEF PatchInv
<1>3. call[c].at \notin {"reset", "called", "s_reset", "s_called"} => attr = "patched"
  BY <1>1, <1>2 DEF PatchInv
<1> QED
  BY <1>1, <1>2, <1>3 DEF PatchInv

LEMMA QuietPatch ==
  ASSUME Inv, PatchInv, NEW c \in Calls, Quiet(c)
  PROVE  PatchInv'
<1> SUFFICES ASSUME ~concurrent' PROVE PatchInv'
  BY DEF PatchInv
<1>0. call \in [Calls -> CallStates]
  BY TypeFacts DEF Inv
<1>1. PICK q \in Requests, a \in At, k \in Answers, n \in Nat :
        Moves(c, q, a, k, n) /\ Updated(call, call', c, q, a, k, n) /\ UNCHANGED deck
  BY <1>0, QuietFacts
<1>2. session' = session /\ savedPatch' = savedPatch
  BY <1>1 DEF deck
<1>3. ~concurrent
  <2>1. CASE Create(c)
    BY <2>1 DEF Create
  <2>2. CASE ClientResets(c) \/ ClientCalls(c) \/ ClientRestores(c) \/ Refuse(c)
    BY <2>2 DEF ClientResets, ClientCalls, ClientRestores, Refuse, Over, test
  <2>3. CASE ServerResets(c) \/ ServerCalls(c) \/ ServerRestores(c) \/ RemoteServiceError(c)
    BY <2>3 DEF ServerResets, ServerCalls, ServerRestores, RemoteServiceError, Over, test
  <2> QED
    BY <2>1, <2>2, <2>3 DEF Quiet
<1>4. CASE call[c].at = "unmade"
  <2>1. /\ Create(c) /\ session.on
        /\ \/ attr = "patched" /\ a = "created" /\ k = call[c].kind
           \/ attr # "patched" /\ a = "over" /\ k = "bypass"
    BY <1>1, <1>4 DEF Moves
  <2>2. \A d \in Calls : call[d].at \in {"unmade", "over"}
    BY <2>1 DEF Create, UnderWay
  <2>3. attr = "patched" /\ attr' = attr
    BY <1>3, <2>1, <2>2 DEF PatchInv, Create, patches
  <2>4. /\ \A d \in Calls : call[d].kind \notin {"bypass", "wrapped"}
        /\ savedPatch = "original"
    BY <1>3, <2>1 DEF PatchInv
  <2> QED
    BY <1>1, <1>2, <2>1, <2>2, <2>3, <2>4, PatchStep
<1>5. CASE call[c].at # "unmade"
  <2>1. call[c].at \notin {"unmade", "over"}
    BY <1>1, <1>5 DEF Moves
  <2>2. /\ \A d \in Calls : d # c => call[d].at \in {"unmade", "over"}
        /\ \A d \in Calls : call[d].kind \notin {"bypass", "wrapped"}
        /\ session.on /\ savedPatch = "original"
        /\ call[c].at \in {"reset", "called"} => attr = "original" /\ savedMain = "patched"
        /\ call[c].at \in {"s_reset", "s_called"}
             => attr = "original" /\ savedServer = "patched"
        /\ call[c].at \notin {"reset", "called", "s_reset", "s_called"} => attr = "patched"
    BY <1>3, <2>1, AloneFacts
  <2>3. k \notin {"bypass", "wrapped"}
    BY <1>1, <1>5, <2>2 DEF Moves
  <2>4. a \in {"reset", "called"} => attr' = "original" /\ savedMain' = "patched"
    <3>1. CASE ClientResets(c) \/ ClientCalls(c)
      BY <2>2, <3>1 DEF ClientResets, ClientCalls, patches
    <3>2. CASE ~(ClientResets(c) \/ ClientCalls(c))
      BY <1>1, <1>5, <3>2 DEF Moves
    <3> QED
      BY <3>1, <3>2
  <2>5. a \in {"s_reset", "s_called"} => attr' = "original" /\ savedServer' = "patched"
    <3>1. CASE ServerResets(c) \/ ServerCalls(c)
      BY <2>2, <3>1 DEF ServerResets, ServerCalls, patches
    <3>2. CASE ~(ServerResets(c) \/ ServerCalls(c))
      BY <1>1, <1>5, <3>2 DEF Moves
    <3> QED
      BY <3>1, <3>2
  <2>6. a \notin {"reset", "called", "s_reset", "s_called"} => attr' = "patched"
    <3>1. CASE ClientRestores(c) \/ ServerRestores(c)
      BY <2>2, <3>1 DEF ClientRestores, ServerRestores
    <3>2. CASE Refuse(c) \/ RemoteServiceError(c)
      BY <2>2, <3>2 DEF Refuse, RemoteServiceError, patches
    <3>3. CASE ~(ClientRestores(c) \/ ServerRestores(c) \/ Refuse(c) \/ RemoteServiceError(c))
      BY <1>1, <1>5, <3>3 DEF Moves
    <3> QED
      BY <3>1, <3>2, <3>3
  <2> QED
    BY <1>1, <1>2, <2>2, <2>3, <2>4, <2>5, <2>6, PatchStep
<1> QED
  BY <1>4, <1>5

\* A replayed and a recorded answer end the call, with the patch in place.
LEMMA AnswerPatch ==
  ASSUME Inv, PatchInv, NEW c \in Calls, Replay(c) \/ Record(c)
  PROVE  PatchInv'
<1> SUFFICES ASSUME ~concurrent' PROVE PatchInv'
  BY DEF PatchInv
<1>0. call \in [Calls -> CallStates]
  BY TypeFacts DEF Inv
<1>1. /\ ~concurrent /\ session' = session /\ attr' = attr /\ session.on
      /\ call[c].at \in {"sent", "asking"} /\ savedPatch' = savedPatch
  BY DEF Replay, Record, Over, patches
<1>02. PICK k \in {"replayed", "real"} :
         \E n : call' = [call EXCEPT ![c].at = "over", ![c].kind = k, ![c].response = n]
  BY DEF Replay, Record, Over
<1>2. PICK n : call' = [call EXCEPT ![c].at = "over", ![c].kind = k, ![c].response = n]
  BY <1>02
<1>3. call'[c].kind = k /\ call'[c].at = "over" /\ \A d \in Calls : d # c => call'[d] = call[d]
  BY <1>0, <1>2 DEF CallStates
<1>4. /\ \A d \in Calls : d # c => call[d].at \in {"unmade", "over"}
      /\ \A d \in Calls : call[d].kind \notin {"bypass", "wrapped"}
      /\ attr = "patched" /\ savedPatch = "original"
  BY <1>1, AloneFacts
<1>5. /\ \A d \in Calls : call'[d].at \in {"unmade", "over"}
      /\ \A d \in Calls : call'[d].kind \notin {"bypass", "wrapped"}
  BY <1>3, <1>4
<1> QED
  BY <1>1, <1>4, <1>5 DEF PatchInv

LEMMA SessionPatch ==
  ASSUME Inv, PatchInv, Enter \/ EnterRefused \/ Exit
  PROVE  PatchInv'
<1> SUFFICES ASSUME ~concurrent' PROVE PatchInv'
  BY DEF PatchInv
<1>0. call \in [Calls -> CallStates]
  BY TypeFacts DEF Inv
<1>1. CASE Enter
  <2>1. /\ ~concurrent /\ ~session.on /\ call' = call /\ session'.on
        /\ attr' = "patched" /\ savedPatch' = attr
    BY <1>1 DEF Enter, test
  <2>2. /\ \A c \in Calls : call[c].at \in {"unmade", "over"}
        /\ \A c \in Calls : call[c].kind \notin {"bypass", "wrapped"}
    BY <2>1 DEF PatchInv
  <2>3. attr = "original"
    BY <2>1, <2>2 DEF PatchInv
  <2> QED
    BY <2>1, <2>2, <2>3 DEF PatchInv
<1>2. CASE EnterRefused
  <2>1. ~concurrent /\ ~session.on /\ UNCHANGED <<call, attr, savedMain, savedServer>>
    BY <1>2 DEF EnterRefused, patches, test
  <2>2. session'.on = session.on
    BY <1>2 DEF EnterRefused, Inv, TypeOK
  <2> QED
    BY <2>1, <2>2 DEF PatchInv
<1>3. CASE Exit
  <2>1. /\ ~concurrent /\ attr' = "original" /\ call' = Stopped
        /\ \A c \in Calls : call[c].at \in {"unmade", "over"}
    BY <1>3 DEF Exit, UnderWay, PatchInv
  <2>2. ~session'.on
    BY <1>3 DEF Exit, Inv, TypeOK
  <2>3. \A c \in Calls : call'[c] = call[c]
    BY <2>1 DEF Stopped
  <2>4. \A c \in Calls : call[c].kind \notin {"bypass", "wrapped"}
    BY <2>1 DEF PatchInv
  <2> QED
    BY <2>1, <2>2, <2>3, <2>4 DEF PatchInv
<1> QED
  BY <1>1, <1>2, <1>3

\* A test that makes one call after the other, and waits for the last one before it leaves,
\* has every call go through the cassette, and finds TChannel.request as it was (patch,
\* force_reset), as long as none that timed out is still worked on by the service when the
\* next is made or the session ends: for any number of calls and sessions, and whatever the
\* service's thread does meanwhile.
THEOREM PatchIsKept == Spec => []PatchHolds
<1>1. Init => PatchInv
  BY DEF Init, PatchInv
<1>2. ASSUME Inv, PatchInv, [Next]_vars PROVE PatchInv'
  <2>1. CASE Enter \/ EnterRefused \/ Exit
    BY <1>2, <2>1, SessionPatch
  <2>2. CASE \E c \in Calls : Quiet(c)
    BY <1>2, <2>2, QuietPatch
  <2>3. CASE \E c \in Calls : Replay(c) \/ Record(c)
    BY <1>2, <2>3, AnswerPatch
  <2>4. CASE UNCHANGED vars \/ \E c \in Calls : ClientTimesOut(c)
    BY <1>2, <2>4 DEF vars, patches, test, ClientTimesOut, PatchInv
  <2> QED
    BY <1>2, <2>1, <2>2, <2>3, <2>4 DEF Next, Quiet
<1>3. ASSUME Inv, PatchInv PROVE PatchHolds
  <2>0. \A c \in Calls : call[c].at \in At
    BY <1>3, TypeFacts DEF Inv, CallStates
  <2> SUFFICES ASSUME ~concurrent
               PROVE  /\ \A c \in Calls : call[c].kind \notin {"bypass", "wrapped"}
                      /\ attr = "patched" => session.on
                      /\ session.on /\ OnMain = {} /\ OnServer = {} => attr = "patched"
    BY DEF PatchHolds
  <2>1. \A c \in Calls : call[c].kind \notin {"bypass", "wrapped"}
    BY <1>3 DEF PatchInv
  <2>2. ASSUME ~session.on PROVE attr = "original"
    <3>1. \A c \in Calls : call[c].at \in {"unmade", "over"}
      BY <1>3, <2>2 DEF PatchInv
    <3> QED
      BY <1>3, <2>2, <3>1 DEF PatchInv
  <2>3. ASSUME session.on, OnMain = {}, OnServer = {} PROVE attr = "patched"
    <3>1. \A c \in Calls : call[c].at \notin {"reset", "called", "s_reset", "s_called"}
      BY <2>3 DEF OnMain, OnServer
    <3> QED
      BY <1>3, <2>3, <3>1 DEF PatchInv
  <2> QED
    BY <2>1, <2>2, <2>3
<1> QED
  BY <1>1, <1>2, <1>3, InitInv, NextInv, PTL DEF Spec

=============================================================================
