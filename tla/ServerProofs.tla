---------------------------- MODULE ServerProofs ----------------------------
(***************************************************************************)
(* What Server promises for any calls, requests, handlers and chunk size.  *)
(***************************************************************************)
EXTENDS Server, FiniteSetTheorems, SequenceTheorems, TLAPS

-----------------------------------------------------------------------------
(* Streams: what each operation does to the fields.                        *)

LEMMA NotifyFacts ==
  ASSUME NEW R, NEW s \in Streams(R)
  PROVE  /\ Notify(s) \in Streams(R)
         /\ Notify(s).buf = s.buf /\ Notify(s).done = s.done /\ Notify(s).exc = s.exc
         /\ s.waiting = <<>> => Notify(s) = s
         /\ s.waiting # <<>> => /\ Notify(s).waiting = Tail(s.waiting)
                                /\ Notify(s).woken = s.woken \cup {Head(s.waiting)}
<1>1. CASE s.waiting = <<>>
  BY <1>1 DEF Notify
<1>2. CASE s.waiting # <<>>
  <2>1. s.waiting \in Seq(R)
    BY DEF Streams
  <2>2. Tail(s.waiting) \in Seq(R) /\ Head(s.waiting) \in R
    BY <1>2, <2>1
  <2>3. Notify(s) = [s EXCEPT !.waiting = Tail(s.waiting), !.woken = s.woken \cup {Head(s.waiting)}]
    BY <1>2 DEF Notify, Streams
  <2> QED
    BY <1>2, <2>2, <2>3 DEF Streams
<1> QED
  BY <1>1, <1>2

\* t is s with the reader that waits longest woken, if there is one.
Told(s, t) ==
  /\ s.waiting = <<>> => t.waiting = <<>> /\ t.woken = s.woken
  /\ s.waiting # <<>> => /\ t.waiting = Tail(s.waiting)
                         /\ t.woken = s.woken \cup {Head(s.waiting)}

LEMMA WriteFacts ==
  ASSUME NEW R, NEW s \in Streams(R), NEW x \in Nat \ {0}
  PROVE  /\ Write(s, x) \in Streams(R) /\ Told(s, Write(s, x))
         /\ Write(s, x).buf = Append(s.buf, x)
         /\ Write(s, x).done = s.done /\ Write(s, x).exc = s.exc
         /\ Write(s, Empty) = s
<1> DEFINE t == [s EXCEPT !.buf = Append(@, x)]
<1>0. s.buf \in Seq(Nat) /\ Append(s.buf, x) \in Seq(Nat)
  BY DEF Streams
<1>1. /\ t \in Streams(R) /\ t.buf = Append(s.buf, x) /\ t.done = s.done /\ t.exc = s.exc
      /\ t.waiting = s.waiting /\ t.woken = s.woken
  BY <1>0 DEF Streams
<1>2. Write(s, x) = Notify(t) /\ Write(s, Empty) = s
  BY DEF Write, Empty
<1> HIDE DEF t
<1> QED
  BY <1>1, <1>2, NotifyFacts DEF Told

LEMMA CloseFacts ==
  ASSUME NEW R, NEW s \in Streams(R)
  PROVE  /\ CloseStream(s) \in Streams(R) /\ Told(s, CloseStream(s))
         /\ CloseStream(s).buf = s.buf
         /\ CloseStream(s).done = TRUE /\ CloseStream(s).exc = s.exc
<1> DEFINE t == [s EXCEPT !.done = TRUE]
<1>1. /\ t \in Streams(R) /\ t.buf = s.buf /\ t.done = TRUE /\ t.exc = s.exc
      /\ t.waiting = s.waiting /\ t.woken = s.woken
  BY DEF Streams
<1>2. CloseStream(s) = Notify(t)
  BY DEF CloseStream
<1> HIDE DEF t
<1> QED
  BY <1>1, <1>2, NotifyFacts DEF Told

LEMMA FailFacts ==
  ASSUME NEW R, NEW s \in Streams(R)
  PROVE  /\ SetException(s) \in Streams(R) /\ Told(s, SetException(s))
         /\ SetException(s).buf = s.buf
         /\ SetException(s).done = TRUE /\ SetException(s).exc = TRUE
<1> DEFINE t == [s EXCEPT !.exc = TRUE]
<1>1. /\ t \in Streams(R) /\ t.buf = s.buf /\ t.exc = TRUE
      /\ t.waiting = s.waiting /\ t.woken = s.woken
  BY DEF Streams
<1>2. SetException(s) = CloseStream(t)
  BY DEF SetException
<1> HIDE DEF t
<1>3. /\ CloseStream(t) \in Streams(R) /\ Told(t, CloseStream(t)) /\ CloseStream(t).buf = t.buf
      /\ CloseStream(t).done = TRUE /\ CloseStream(t).exc = t.exc
  BY <1>1, CloseFacts
<1> QED
  BY <1>1, <1>2, <1>3 DEF Told

LEMMA RestFacts ==
  ASSUME NEW R, NEW s \in Streams(R), NEW r \in R
  PROVE  /\ Rest(s, r) \in Streams(R)
         /\ Chunks(s) \in Seq(Nat)
         /\ ~s.exc => Chunks(s) \o Rest(s, r).buf = s.buf
         /\ s.exc => Rest(s, r).buf = s.buf
         /\ s.buf = <<>> => Chunks(s) = <<>> /\ Rest(s, r).buf = <<>>
         /\ Rest(s, r).done = s.done /\ Rest(s, r).exc = s.exc
         /\ Rest(s, r).waiting = s.waiting /\ Rest(s, r).woken = s.woken \ {r}
<1> DEFINE m == IF Len(s.buf) < MaxChunk THEN Len(s.buf) ELSE MaxChunk
           b == SubSeq(s.buf, m + 1, Len(s.buf))
<1>1. s.buf \in Seq(Nat) /\ MaxChunk \in Nat \ {0}
  BY ServerAssumption DEF Streams
<1>2. m \in Nat /\ m <= Len(s.buf) /\ Len(s.buf) \in Nat
  BY <1>1
<1>3. Chunks(s) = SubSeq(s.buf, 1, m)
  BY DEF Chunks
<1> HIDE DEF m
<1>4. Chunks(s) \in Seq(Nat) /\ Len(Chunks(s)) = m
  BY <1>1, <1>2, <1>3
<1>5. b \in Seq(Nat) /\ SubSeq(s.buf, 1, m) \o b = s.buf
  <2>1. 1 \in 1 .. Len(s.buf) + 1 /\ m \in 1 - 1 .. Len(s.buf) /\ Len(s.buf) \in m .. Len(s.buf)
    BY <1>2
  <2>2. SubSeq(s.buf, 1, m) \o b = SubSeq(s.buf, 1, Len(s.buf))
    BY <1>1, <2>1, ConcatAdjacentSubSeq
  <2>3. SubSeq(s.buf, 1, Len(s.buf)) = s.buf
    BY <1>1, SubSeqFull
  <2>4. b \in Seq(Nat)
    BY <1>1, <1>2
  <2> QED
    BY <2>2, <2>3, <2>4
<1>6. Rest(s, r) = [s EXCEPT !.buf = IF s.exc THEN s.buf ELSE b, !.woken = s.woken \ {r}]
  BY <1>4 DEF Rest, Streams
<1>7. s.buf = <<>> => SubSeq(s.buf, 1, m) = <<>> /\ b = <<>>
  BY <1>1, <1>2
<1> HIDE DEF b
<1> QED
  BY <1>1, <1>3, <1>4, <1>5, <1>6, <1>7 DEF Streams

LEMMA WaitFacts ==
  ASSUME NEW R, NEW s \in Streams(R), NEW r \in R
  PROVE  /\ Wait(s, r) \in Streams(R)
         /\ Wait(s, r).waiting = Append(s.waiting, r)
         /\ Wait(s, r).woken = s.woken /\ Wait(s, r).buf = s.buf
         /\ Wait(s, r).done = s.done /\ Wait(s, r).exc = s.exc
<1>1. s.waiting \in Seq(R) /\ Append(s.waiting, r) \in Seq(R)
  BY DEF Streams
<1> QED
  BY <1>1 DEF Wait, Streams

-----------------------------------------------------------------------------
(* The request: its streams and their readers.                             *)

ReaderRecords == [arg : Arg, st : ReaderStates]

\* All coroutines read argument k.
AllRead(rs, k) == \A r \in Readers : rs[r].arg = k /\ rs[r].st # "off"

\* Who waits on the stream s of argument k, or has been woken, is a reader of it; each one
\* once; a wake-up finds the stream ready, and a ready stream leaves nobody waiting, unless
\* all coroutines read this argument.
WakeInv(s, k, rs) ==
  /\ \A r \in Readers : r \in s.woken \/ r \in Kinds(s.waiting)
                          => rs[r].arg = k /\ rs[r].st = "wait"
  /\ \A r \in s.woken : r \notin Kinds(s.waiting)
  /\ \A r \in s.woken : Ready(s) \/ AllRead(rs, k)
  /\ \A i, j \in DOMAIN s.waiting : s.waiting[i] = s.waiting[j] => i = j
  /\ s.waiting # <<>> /\ Ready(s) => AllRead(rs, k)

\* What was read of an argument, g, and what is still in its stream are the n chunks that
\* were written.
ArgInv(s, g, n, k, rs) ==
  /\ s \in Streams(Readers) /\ g \in Seq(Nat) /\ n \in Nat
  /\ g \o s.buf = Upto(n)
  /\ WakeInv(s, k, rs)

LEMMA UptoFacts ==
  ASSUME NEW n \in Nat
  PROVE  /\ Upto(n) \in Seq(Nat) /\ Append(Upto(n), n + 1) = Upto(n + 1)
         /\ Upto(0) = <<>>
<1>1. Upto(n) \in Seq(Nat) /\ Len(Upto(n)) = n
  BY DEF Upto
<1>2. Upto(n + 1) \in Seq(Nat) /\ Len(Upto(n + 1)) = n + 1
  BY DEF Upto
<1>3. Append(Upto(n), n + 1) \in Seq(Nat) /\ Len(Append(Upto(n), n + 1)) = n + 1
  BY <1>1
<1>4. ASSUME NEW i \in 1 .. n + 1 PROVE Append(Upto(n), n + 1)[i] = Upto(n + 1)[i]
  <2>1. CASE i = n + 1
    BY <1>1, <2>1 DEF Upto
  <2>2. CASE i # n + 1
    <3>1. i \in 1 .. n
      BY <2>2
    <3> QED
      BY <1>1, <3>1 DEF Upto
  <2> QED
    BY <2>1, <2>2
<1>5. Append(Upto(n), n + 1) = Upto(n + 1)
  BY <1>2, <1>3, <1>4, SeqEqual
<1>6. Upto(0) = <<>>
  <2>1. Upto(0) \in Seq(Nat) /\ Len(Upto(0)) = 0
    BY DEF Upto
  <2> QED
    BY <2>1
<1> QED
  BY <1>1, <1>5, <1>6

\* Whoever is told finds the stream ready.
LEMMA WakeTold ==
  ASSUME NEW s \in Streams(Readers), NEW t \in Streams(Readers), NEW k, NEW rs,
         WakeInv(s, k, rs), Told(s, t), Ready(t)
  PROVE  WakeInv(t, k, rs)
<1>1. CASE s.waiting = <<>>
  <2>1. t.waiting = <<>> /\ t.woken = s.woken
    BY <1>1 DEF Told
  <2> QED
    BY <1>1, <2>1 DEF WakeInv
<1>2. CASE s.waiting # <<>>
  <2> DEFINE w == s.waiting
             u == t.waiting
  <2>0. w \in Seq(Readers) /\ w # <<>> /\ s.woken \subseteq Readers
    BY <1>2 DEF Streams
  <2>1. u = Tail(w) /\ t.woken = s.woken \cup {w[1]} /\ w[1] \in Readers
    BY <1>2, <2>0 DEF Told
  <2>2. /\ Len(u) = Len(w) - 1 /\ u \in Seq(Readers)
        /\ \A i \in 1 .. Len(u) : u[i] = w[i + 1]
    BY <2>0, <2>1, HeadTailProperties
  <2>3. \A i \in DOMAIN u : i \in Nat /\ i + 1 \in DOMAIN w /\ u[i] = w[i + 1] /\ i + 1 # 1
    <3>1. DOMAIN u = 1 .. Len(u) /\ DOMAIN w = 1 .. Len(w) /\ Len(w) \in Nat
      BY <2>0, <2>2
    <3> HIDE DEF u, w
    <3> QED
      BY <2>2, <3>1
  <2>4. 1 \in DOMAIN w
    BY <2>0
  <2>5. \A i, j \in DOMAIN w : w[i] = w[j] => i = j
    BY DEF WakeInv
  <2>6. \A r \in Readers : r \in s.woken \/ r \in Kinds(w) => rs[r].arg = k /\ rs[r].st = "wait"
    BY DEF WakeInv
  <2> HIDE DEF w, u
  <2>7. Kinds(u) \subseteq Kinds(w) /\ w[1] \in Kinds(w) /\ w[1] \notin Kinds(u)
    BY <2>3, <2>4, <2>5 DEF Kinds
  <2>8. \A i, j \in DOMAIN u : u[i] = u[j] => i = j
    <3> SUFFICES ASSUME NEW i \in DOMAIN u, NEW j \in DOMAIN u, u[i] = u[j] PROVE i = j
      OBVIOUS
    <3>1. i + 1 = j + 1 /\ i \in Nat /\ j \in Nat
      BY <2>3, <2>5
    <3> QED
      BY <3>1
  <2>9. ASSUME u # <<>> PROVE AllRead(rs, k)
    <3>1. 1 \in DOMAIN u
      BY <2>2, <2>9
    <3>2. w[1] # u[1] /\ w[1] \in Kinds(w) /\ u[1] \in Kinds(w) /\ u[1] \in Readers
      BY <2>2, <2>7, <3>1 DEF Kinds
    <3>3. \A r \in Readers : r = w[1] \/ r = u[1]
      BY <2>1, <3>2 DEF Readers
    <3> QED
      BY <2>6, <3>2, <3>3 DEF AllRead
  <2>10. \A r \in s.woken : r \notin Kinds(w)
    BY DEF WakeInv, w
  <2> QED
    BY <2>1, <2>6, <2>7, <2>8, <2>9, <2>10 DEF WakeInv, u
<1> QED
  BY <1>1, <1>2

LEMMA ArgWrite ==
  ASSUME NEW s, NEW g, NEW n, NEW k, NEW rs, ArgInv(s, g, n, k, rs)
  PROVE  ArgInv(Write(s, n + 1), g, n + 1, k, rs)
<1> DEFINE t == Write(s, n + 1)
<1>1. s \in Streams(Readers) /\ g \in Seq(Nat) /\ n \in Nat /\ g \o s.buf = Upto(n)
  BY DEF ArgInv
<1>2. n + 1 \in Nat \ {0} /\ s.buf \in Seq(Nat)
  BY <1>1 DEF Streams
<1>3. t \in Streams(Readers) /\ Told(s, t) /\ t.buf = Append(s.buf, n + 1)
  BY <1>1, <1>2, WriteFacts
<1> HIDE DEF t
<1>4. t.buf # <<>> /\ g \o t.buf = Append(g \o s.buf, n + 1)
  <2> DEFINE b == s.buf
             x == n + 1
  <2>1. b \in Seq(Nat) /\ x \in Nat /\ t.buf = Append(b, x)
    BY <1>2, <1>3
  <2> HIDE DEF b, x
  <2>2. Append(b, x) = b \o <<x>> /\ Append(b, x) # <<>> /\ <<x>> \in Seq(Nat)
    BY <2>1, AppendIsConcat
  <2>3. g \o b \in Seq(Nat) /\ Append(g \o b, x) = (g \o b) \o <<x>>
    BY <1>1, <2>1, AppendIsConcat
  <2>4. (g \o b) \o <<x>> = g \o (b \o <<x>>)
    <3> DEFINE y == <<x>>
    <3>1. y \in Seq(Nat) /\ g \in Seq(Nat)
      BY <1>1, <2>2
    <3> HIDE DEF y
    <3>2. (g \o b) \o y = g \o (b \o y)
      BY <2>1, <3>1, ConcatAssociative
    <3> QED
      BY <3>2 DEF y
  <2> QED
    BY <2>1, <2>2, <2>3, <2>4 DEF b, x
<1>5. g \o t.buf = Upto(n + 1)
  BY <1>1, <1>4, UptoFacts
<1>6. Ready(t)
  BY <1>4 DEF Ready
<1>7. WakeInv(t, k, rs)
  BY <1>1, <1>3, <1>6, WakeTold DEF ArgInv
<1> QED
  BY <1>1, <1>2, <1>3, <1>5, <1>7 DEF ArgInv, t

\* Closing and failing a stream.
LEMMA ArgClose ==
  ASSUME NEW s, NEW g, NEW n, NEW k, NEW rs, ArgInv(s, g, n, k, rs),
         NEW t \in {CloseStream(s), SetException(s)}
  PROVE  ArgInv(t, g, n, k, rs)
<1>1. s \in Streams(Readers)
  BY DEF ArgInv
<1>2. t \in Streams(Readers) /\ Told(s, t) /\ t.buf = s.buf /\ t.done = TRUE
  <2>1. CASE t = CloseStream(s)
    BY <1>1, <2>1, CloseFacts
  <2>2. CASE t = SetException(s)
    BY <1>1, <2>2, FailFacts
  <2> QED
    BY <2>1, <2>2
<1>3. Ready(t)
  BY <1>2 DEF Ready
<1>4. WakeInv(t, k, rs)
  BY <1>1, <1>2, <1>3, WakeTold DEF ArgInv
<1> QED
  BY <1>2, <1>4 DEF ArgInv

\* One reader's state changes, and it neither waits on s before nor after.
LEMMA WakeMoved ==
  ASSUME NEW s, NEW k, NEW rs \in [Readers -> ReaderRecords], NEW r \in Readers, NEW v,
         WakeInv(s, k, rs), ~AllRead(rs, k), rs[r].st # "wait" \/ rs[r].arg # k
  PROVE  WakeInv(s, k, [rs EXCEPT ![r] = v])
<1> DEFINE rt == [rs EXCEPT ![r] = v]
<1>1. \A x \in Readers : x # r => rt[x] = rs[x]
  OBVIOUS
<1>2. r \notin s.woken /\ r \notin Kinds(s.waiting)
  BY DEF WakeInv
<1> HIDE DEF rt
<1>3. WakeInv(s, k, rt)
  BY <1>1, <1>2 DEF WakeInv
<1> QED
  BY <1>3 DEF rt

\* A coroutine reads what is there.
LEMMA ArgReading ==
  ASSUME NEW s, NEW g, NEW n, NEW k, NEW rs \in [Readers -> ReaderRecords],
         ArgInv(s, g, n, k, rs), NEW r \in Readers, NEW x, x # "off", rs[r].arg = k,
         (rs[r].st = "go" /\ Ready(s)) \/ (rs[r].st = "wait" /\ r \in s.woken)
  PROVE  ArgInv(Rest(s, r), IF s.exc THEN g ELSE g \o Chunks(s), n, k,
                [rs EXCEPT ![r].st = x])
<1> DEFINE t == Rest(s, r)
           h == IF s.exc THEN g ELSE g \o Chunks(s)
           rt == [rs EXCEPT ![r].st = x]
<1>1. s \in Streams(Readers) /\ g \in Seq(Nat) /\ n \in Nat /\ g \o s.buf = Upto(n)
  BY DEF ArgInv
<1>2. /\ t \in Streams(Readers) /\ Chunks(s) \in Seq(Nat)
      /\ ~s.exc => Chunks(s) \o t.buf = s.buf
      /\ s.exc => t.buf = s.buf
      /\ t.waiting = s.waiting /\ t.woken = s.woken \ {r}
  BY <1>1, RestFacts
<1>3. /\ rt[r].arg = k /\ rt[r].st = x
      /\ \A y \in Readers : y # r => rt[y] = rs[y]
  BY DEF ReaderRecords
<1>4. h \in Seq(Nat) /\ h \o t.buf = Upto(n)
  <2>1. CASE s.exc
    BY <1>1, <1>2, <2>1
  <2>2. CASE ~s.exc
    <3> DEFINE a == Chunks(s)
               b == t.buf
    <3>1. a \in Seq(Nat) /\ b \in Seq(Nat) /\ a \o b = s.buf
      BY <1>2, <2>2 DEF Streams
    <3> HIDE DEF a, b
    <3>2. a \in Seq(Nat) /\ b \in Seq(Nat) /\ g \in Seq(Nat)
      BY <1>1, <3>1
    <3>3. (g \o a) \o b = g \o (a \o b)
      BY <3>2, ConcatAssociative
    <3>4. g \o a \in Seq(Nat)
      BY <3>2, ConcatProperties
    <3> QED
      BY <1>1, <2>2, <3>1, <3>3, <3>4 DEF a, b
  <2> QED
    BY <2>1, <2>2
<1>5. WakeInv(s, k, rs)
  BY DEF ArgInv
<1> HIDE DEF t, h, rt
<1>6. r \notin Kinds(s.waiting)
  BY <1>5 DEF WakeInv
<1>7. ASSUME NEW y \in Readers, y # r, y \in t.woken \/ y \in Kinds(t.waiting)
      PROVE  AllRead(rt, k)
  <2>1. rs[y].arg = k /\ rs[y].st = "wait"
    BY <1>2, <1>5, <1>7 DEF WakeInv
  <2>2. \A z \in Readers : z = y \/ z = r
    BY <1>7 DEF Readers
  <2> QED
    BY <1>3, <1>7, <2>1, <2>2 DEF AllRead
<1>8. \A y \in Readers : y \in t.woken \/ y \in Kinds(t.waiting) => y # r
  BY <1>2, <1>6
<1>9. t.waiting # <<>> => \E y \in Readers : y \in Kinds(t.waiting)
  <2>1. t.waiting \in Seq(Readers)
    BY <1>2 DEF Streams
  <2>2. t.waiting # <<>> => t.waiting[1] \in Readers /\ 1 \in DOMAIN t.waiting
    BY <2>1
  <2> QED
    BY <2>2 DEF Kinds
<1>10. t.woken \subseteq Readers
  BY <1>2 DEF Streams
<1>11. \A y \in Readers : y \in t.woken \/ y \in Kinds(t.waiting)
                            => rt[y].arg = k /\ rt[y].st = "wait"
  BY <1>2, <1>3, <1>5, <1>8 DEF WakeInv
<1>12. /\ \A y \in t.woken : y \notin Kinds(t.waiting)
       /\ \A i, j \in DOMAIN t.waiting : t.waiting[i] = t.waiting[j] => i = j
  BY <1>2, <1>5 DEF WakeInv
<1>13. /\ \A y \in t.woken : AllRead(rt, k)
       /\ t.waiting # <<>> => AllRead(rt, k)
  BY <1>7, <1>8, <1>9, <1>10
<1>14. WakeInv(t, k, rt)
  BY <1>11, <1>12, <1>13 DEF WakeInv
<1> QED
  BY <1>1, <1>2, <1>4, <1>14 DEF ArgInv, t, h, rt

\* A coroutine waits for what is not there.
LEMMA ArgWaits ==
  ASSUME NEW s, NEW g, NEW n, NEW k, NEW rs \in [Readers -> ReaderRecords],
         ArgInv(s, g, n, k, rs), NEW r \in Readers, rs[r].arg = k, rs[r].st = "go", ~Ready(s)
  PROVE  ArgInv(Wait(s, r), g, n, k, [rs EXCEPT ![r].st = "wait"])
<1> DEFINE t == Wait(s, r)
           rt == [rs EXCEPT ![r].st = "wait"]
<1>1. s \in Streams(Readers) /\ WakeInv(s, k, rs)
  BY DEF ArgInv
<1>2. /\ t \in Streams(Readers) /\ t.waiting = Append(s.waiting, r) /\ t.woken = s.woken
      /\ t.buf = s.buf /\ t.done = s.done
  BY <1>1, WaitFacts
<1>3. /\ rt[r].arg = k /\ rt[r].st = "wait"
      /\ \A y \in Readers : y # r => rt[y] = rs[y]
  BY DEF ReaderRecords
<1> HIDE DEF t, rt
<1>4. r \notin s.woken /\ r \notin Kinds(s.waiting)
  BY <1>1 DEF WakeInv
<1>5. ~Ready(t)
  BY <1>2 DEF Ready
<1>6. s.waiting \in Seq(Readers) /\ s.woken \subseteq Readers
  BY <1>1 DEF Streams
<1>7. /\ \A i \in DOMAIN t.waiting :
           \/ i \in DOMAIN s.waiting /\ t.waiting[i] = s.waiting[i]
           \/ i \notin DOMAIN s.waiting /\ t.waiting[i] = r /\ i = Len(s.waiting) + 1
      /\ DOMAIN s.waiting \subseteq DOMAIN t.waiting
  BY <1>2, <1>6
<1>8. Kinds(t.waiting) \subseteq Kinds(s.waiting) \cup {r}
  BY <1>7 DEF Kinds
<1>9. ASSUME NEW i \in DOMAIN t.waiting, NEW j \in DOMAIN t.waiting, t.waiting[i] = t.waiting[j]
      PROVE  i = j
  <2>1. \A m \in DOMAIN s.waiting : s.waiting[m] # r
    BY <1>4 DEF Kinds
  <2>2. \A m, l \in DOMAIN s.waiting : s.waiting[m] = s.waiting[l] => m = l
    BY <1>1 DEF WakeInv
  <2> QED
    BY <1>7, <1>9, <2>1, <2>2
<1>10. \A y \in Readers : y \in t.woken \/ y \in Kinds(t.waiting)
                            => rt[y].arg = k /\ rt[y].st = "wait"
  BY <1>1, <1>2, <1>3, <1>8 DEF WakeInv
<1>11. \A y \in t.woken : y \notin Kinds(t.waiting)
  BY <1>1, <1>2, <1>4, <1>8 DEF WakeInv
<1>12. \A y \in t.woken : AllRead(rt, k)
  <2> SUFFICES ASSUME NEW y \in t.woken PROVE AllRead(rt, k)
    OBVIOUS
  <2>1. AllRead(rs, k)
    BY <1>1, <1>2 DEF WakeInv
  <2> QED
    BY <1>3, <2>1 DEF AllRead
<1>13. WakeInv(t, k, rt)
  BY <1>5, <1>9, <1>10, <1>11, <1>12 DEF WakeInv
<1> QED
  BY <1>2, <1>13 DEF ArgInv, t, rt

\* A frame has a chunk of an argument, or an empty one.
Pieces == {0, 1}

\* What a frame does to each of the streams.
LEMMA DeliverFacts ==
  ASSUME NEW S \in [Arg -> Streams(Readers)], NEW n \in [Arg -> Nat],
         NEW args \in Seq(Pieces), NEW dst \in Arg, NEW last, NEW k \in Arg
  PROVE  \/ /\ Count(n, args, dst)[k] = n[k]
            /\ Deliver(S, n, args, dst, last)[k] \in {S[k], CloseStream(S[k])}
         \/ /\ Count(n, args, dst)[k] = n[k] + 1
            /\ Deliver(S, n, args, dst, last)[k]
                 \in {Write(S[k], n[k] + 1), CloseStream(Write(S[k], n[k] + 1))}
<1> DEFINE end == dst + Len(args) - 1
           i == k - dst + 1
           written == IF k \in dst .. end
                      THEN Write(S[k], IF args[i] = Empty THEN Empty ELSE n[k] + 1)
                      ELSE S[k]
<1>1. k \in Nat /\ dst \in Nat /\ Len(args) \in Nat /\ n[k] \in Nat /\ S[k] \in Streams(Readers)
  BY DEF Arg
<1>2. k \in dst .. end <=> i \in DOMAIN args
  BY <1>1
<1>3. Deliver(S, n, args, dst, last)[k] \in {written, CloseStream(written)}
  BY DEF Deliver
<1>4. Count(n, args, dst)[k] = IF i \in DOMAIN args THEN n[k] + args[i] ELSE n[k]
  BY DEF Count
<1>5. i \in DOMAIN args => args[i] \in {0, 1}
  BY DEF Pieces
<1>6. Write(S[k], Empty) = S[k]
  BY DEF Write
<1>7. CASE i \in DOMAIN args /\ args[i] = 1
  <2>1. written = Write(S[k], n[k] + 1)
    BY <1>2, <1>7 DEF Empty
  <2>2. Count(n, args, dst)[k] = n[k] + 1
    BY <1>4, <1>7
  <2> QED
    BY <1>3, <2>1, <2>2
<1>8. CASE ~(i \in DOMAIN args /\ args[i] = 1)
  <2>1. written = S[k]
    BY <1>2, <1>5, <1>6, <1>8 DEF Empty
  <2>2. Count(n, args, dst)[k] = n[k]
    BY <1>1, <1>4, <1>5, <1>8
  <2> QED
    BY <1>3, <2>1, <2>2
<1> QED
  BY <1>7, <1>8

PcStates == {"idle", "name", "hook", "body", "header", "run", "ended", "tchannel", "other",
             "refused", "dead"}

\* The types of what the request is about.
RequestTypes ==
  /\ layout \in [Calls -> Seq(Seq(Pieces))] /\ next \in [Calls -> Nat \ {0}]
  /\ in \in [Calls -> [Arg -> Streams(Readers)]] /\ fed \in [Calls -> [Arg -> Nat]]
  /\ got \in [Calls -> [Arg -> Seq(Nat)]] /\ pc \in [Calls -> PcStates]
  /\ rd \in [Calls -> [Readers -> ReaderRecords]] /\ early \in [Calls -> SUBSET Readers]
  /\ returns \in BOOLEAN

\* The second coroutine only reads the body, for a handler that reads by itself; the first
\* one is between two arguments when it is given another one to read.
ReadersInv(rs, e, q, ret, nx) ==
  /\ rs["extra"].st # "off" => rs["extra"].arg = 3 /\ ~ret /\ q \notin {"idle", "name", "hook"}
  /\ nx = 1 => q = "idle"
  /\ q = "idle" => rs["main"].st = "off"
  /\ q = "hook" => rs["main"].st = "end"
  /\ q \in {"body", "header"} => ret
  /\ \A r \in e : AllRead(rs, rs[r].arg)

CallIn(S, g, n, rs, e, q, ret, nx) ==
  /\ ReadersInv(rs, e, q, ret, nx)
  /\ \A k \in Arg : ArgInv(S[k], g[k], n[k], k, rs)

InputInv ==
  /\ RequestTypes
  /\ \A c \in Calls :
       CallIn(in[c], got[c], fed[c], rd[c], early[c], pc[c], returns, next[c])

\* A step concerns one call.
LEMMA InputStep ==
  ASSUME InputInv, NEW c \in Calls, RequestTypes', returns' = returns,
         \A d \in Calls : d # c => /\ in'[d] = in[d] /\ got'[d] = got[d] /\ fed'[d] = fed[d]
                                   /\ rd'[d] = rd[d] /\ early'[d] = early[d]
                                   /\ pc'[d] = pc[d] /\ next'[d] = next[d],
         CallIn(in'[c], got'[c], fed'[c], rd'[c], early'[c], pc'[c], returns, next'[c])
  PROVE  InputInv'
<1>1. ASSUME NEW d \in Calls
      PROVE  CallIn(in'[d], got'[d], fed'[d], rd'[d], early'[d], pc'[d], returns', next'[d])
  <2>1. CASE d = c
    BY <2>1
  <2>2. CASE d # c
    <3>1. CallIn(in[d], got[d], fed[d], rd[d], early[d], pc[d], returns, next[d])
      BY DEF InputInv
    <3> QED
      BY <2>2, <3>1
  <2> QED
    BY <2>1, <2>2
<1> QED
  BY <1>1 DEF InputInv

\* The end of a step of handle_call that leaves the readers alone.
LEMMA InputPc ==
  ASSUME InputInv, NEW c \in Calls, NEW q \in PcStates \ {"idle", "name", "hook", "body", "header"},
         pc[c] # "idle", pc' = [pc EXCEPT ![c] = q],
         UNCHANGED <<layout, next, in, fed, got, rd, early, returns>>
  PROVE  InputInv'
<1>1. RequestTypes /\ CallIn(in[c], got[c], fed[c], rd[c], early[c], pc[c], returns, next[c])
  BY DEF InputInv
<1>2. pc' \in [Calls -> PcStates] /\ pc'[c] = q /\ \A d \in Calls : d # c => pc'[d] = pc[d]
  BY <1>1 DEF RequestTypes
<1>3. RequestTypes'
  BY <1>1, <1>2 DEF RequestTypes
<1>4. CallIn(in[c], got[c], fed[c], rd[c], early[c], q, returns, next[c])
  BY <1>1 DEF CallIn, ReadersInv
<1> QED
  BY <1>2, <1>3, <1>4, InputStep

\* A coroutine starts to read another argument.
LEMMA InputReader ==
  ASSUME InputInv, NEW c \in Calls, NEW r \in Readers, NEW v \in ReaderRecords,
         NEW q \in PcStates, rd[c][r].st # "wait",
         ~AllRead(rd[c], 1), ~AllRead(rd[c], 2), ~AllRead(rd[c], 3),
         r = "extra" => v.arg = 3 /\ ~returns /\ q \notin {"idle", "name", "hook"},
         rd[c]["extra"].st # "off" => q \notin {"idle", "name", "hook"},
         q # "idle", q # "hook", q \in {"body", "header"} => returns, pc[c] # "idle",
         rd' = [rd EXCEPT ![c][r] = v], pc' = [pc EXCEPT ![c] = q],
         UNCHANGED <<layout, next, in, fed, got, early, returns>>
  PROVE  InputInv'
<1>1. RequestTypes /\ CallIn(in[c], got[c], fed[c], rd[c], early[c], pc[c], returns, next[c])
  BY DEF InputInv
<1> DEFINE rt == [rd[c] EXCEPT ![r] = v]
<1>2. /\ pc' \in [Calls -> PcStates] /\ pc'[c] = q /\ \A d \in Calls : d # c => pc'[d] = pc[d]
      /\ rd' \in [Calls -> [Readers -> ReaderRecords]]
      /\ rd'[c] = rt /\ \A d \in Calls : d # c => rd'[d] = rd[d]
  BY <1>1 DEF RequestTypes
<1>3. RequestTypes'
  BY <1>1, <1>2 DEF RequestTypes
<1>4. rd[c] \in [Readers -> ReaderRecords] /\ early[c] \subseteq Readers
  BY <1>1 DEF RequestTypes
<1>5. ASSUME NEW k \in Arg PROVE ArgInv(in[c][k], got[c][k], fed[c][k], k, rt)
  <2>1. ~AllRead(rd[c], k) /\ ArgInv(in[c][k], got[c][k], fed[c][k], k, rd[c])
    BY <1>1 DEF CallIn, Arg
  <2> QED
    BY <1>4, <2>1, WakeMoved DEF ArgInv
<1>6. early[c] = {}
  <2>1. \A x \in Readers : rd[c][x].arg \in {1, 2, 3}
    BY <1>4 DEF ReaderRecords, Arg
  <2> QED
    BY <1>1, <1>4, <2>1 DEF CallIn, ReadersInv
<1>7. rt["extra"] = (IF r = "extra" THEN v ELSE rd[c]["extra"])
  BY <1>4 DEF Readers
<1>8. ReadersInv(rt, early[c], q, returns, next[c])
  BY <1>1, <1>6, <1>7 DEF CallIn, ReadersInv
<1> HIDE DEF rt
<1>9. CallIn(in[c], got[c], fed[c], rt, early[c], q, returns, next[c])
  BY <1>5, <1>8 DEF CallIn
<1> QED
  BY <1>2, <1>3, <1>9, InputStep

\* A coroutine that is not reading yet, or between two arguments.
LEMMA NotAllRead ==
  ASSUME InputInv, NEW c \in Calls, NEW k,
         \/ \E r \in Readers : rd[c][r].st = "off"
         \/ rd[c]["main"].arg = 2
         \/ pc[c] \in {"idle", "name", "hook"} \/ returns
  PROVE  ~AllRead(rd[c], k)
<1>1. ReadersInv(rd[c], early[c], pc[c], returns, next[c])
  BY DEF InputInv, CallIn
<1>2. "main" \in Readers /\ "extra" \in Readers
  BY DEF Readers
<1> QED
  BY <1>1, <1>2 DEF AllRead, ReadersInv

LEMMA DeliverInv ==
  ASSUME NEW S \in [Arg -> Streams(Readers)], NEW n \in [Arg -> Nat], NEW g, NEW rs,
         \A k \in Arg : ArgInv(S[k], g[k], n[k], k, rs),
         NEW args \in Seq(Pieces), NEW dst \in Arg, NEW last
  PROVE  /\ Deliver(S, n, args, dst, last) \in [Arg -> Streams(Readers)]
         /\ Count(n, args, dst) \in [Arg -> Nat]
         /\ \A k \in Arg : ArgInv(Deliver(S, n, args, dst, last)[k], g[k],
                                  Count(n, args, dst)[k], k, rs)
<1> DEFINE T == Deliver(S, n, args, dst, last)
           m == Count(n, args, dst)
<1>1. DOMAIN T = Arg /\ DOMAIN m = Arg /\ T = [k \in Arg |-> T[k]] /\ m = [k \in Arg |-> m[k]]
  BY DEF Deliver, Count
<1>2. ASSUME NEW k \in Arg PROVE ArgInv(T[k], g[k], m[k], k, rs)
  <2>1. ArgInv(S[k], g[k], n[k], k, rs)
    OBVIOUS
  <2>2. \/ m[k] = n[k] /\ T[k] \in {S[k], CloseStream(S[k])}
        \/ m[k] = n[k] + 1 /\ T[k] \in {Write(S[k], n[k] + 1), CloseStream(Write(S[k], n[k] + 1))}
    BY DeliverFacts
  <2> HIDE DEF T, m
  <2>3. CASE m[k] = n[k]
    <3>1. n[k] \in Nat /\ n[k] # n[k] + 1
      OBVIOUS
    <3>2. CASE T[k] = S[k]
      BY <2>1, <2>3, <3>2
    <3>3. CASE T[k] = CloseStream(S[k])
      BY <2>1, <2>3, <3>3, ArgClose
    <3> QED
      BY <2>2, <2>3, <3>1, <3>2, <3>3
  <2>4. CASE m[k] = n[k] + 1
    <3>1. n[k] \in Nat /\ n[k] # n[k] + 1
      OBVIOUS
    <3>2. ArgInv(Write(S[k], n[k] + 1), g[k], n[k] + 1, k, rs)
      BY <2>1, ArgWrite
    <3>3. CASE T[k] = Write(S[k], n[k] + 1)
      BY <2>4, <3>2, <3>3
    <3>4. CASE T[k] = CloseStream(Write(S[k], n[k] + 1))
      BY <2>4, <3>2, <3>4, ArgClose
    <3> QED
      BY <2>2, <2>4, <3>1, <3>3, <3>4
  <2> QED
    BY <2>2, <2>3, <2>4
<1>3. \A k \in Arg : T[k] \in Streams(Readers) /\ m[k] \in Nat
  BY <1>2 DEF ArgInv
<1> HIDE DEF T, m
<1>4. T \in [Arg -> Streams(Readers)] /\ m \in [Arg -> Nat]
  BY <1>1, <1>3
<1> QED
  BY <1>2, <1>4 DEF T, m

\* What a frame that arrives finds.
LEMMA FrameFacts ==
  ASSUME RequestTypes, NEW c \in Calls, Arrives(c)
  PROVE  /\ FrameOf(c) \in Seq(Pieces) /\ Incomplete(in[c]) \in Arg
         /\ next' \in [Calls -> Nat \ {0}] /\ next'[c] = next[c] + 1 /\ next'[c] # 1
         /\ \A d \in Calls : d # c => next'[d] = next[d]
         /\ UNCHANGED <<returns, layout, got, early>>
<1>1. layout[c] \in Seq(Seq(Pieces)) /\ next[c] \in Nat \ {0} /\ next[c] <= Len(layout[c])
  BY DEF RequestTypes, Arrives
<1>2. FrameOf(c) \in Seq(Pieces)
  BY <1>1 DEF FrameOf
<1>3. Incomplete(in[c]) \in Arg
  <2> DEFINE I == {k \in Arg : ~in[c][k].done}
  <2>1. CASE I = {}
    BY <2>1 DEF Incomplete, Arg
  <2>2. CASE I # {}
    <3>1. \E k \in I : \A j \in I : k <= j
      BY <2>2 DEF Arg
    <3>2. (CHOOSE k \in I : \A j \in I : k <= j) \in I
      BY <3>1
    <3> QED
      BY <2>2, <3>2 DEF Incomplete
  <2> QED
    BY <2>1, <2>2
<1>4. /\ next' \in [Calls -> Nat \ {0}] /\ next'[c] = next[c] + 1 /\ next'[c] # 1
      /\ \A d \in Calls : d # c => next'[d] = next[d]
  <2>1. next \in [Calls -> Nat \ {0}] /\ next' = [next EXCEPT ![c] = @ + 1]
    BY DEF RequestTypes, Arrives
  <2> QED
    BY <1>1, <2>1
<1> QED
  BY <1>2, <1>3, <1>4 DEF Arrives, setting

LEMMA InputCallReq ==
  ASSUME InputInv, NEW c \in Calls, CallReq(c)
  PROVE  InputInv'
<1>1. RequestTypes /\ CallIn(in[c], got[c], fed[c], rd[c], early[c], pc[c], returns, next[c])
  BY DEF InputInv
<1>2. /\ FrameOf(c) \in Seq(Pieces) /\ 1 \in Arg
      /\ next' \in [Calls -> Nat \ {0}] /\ next'[c] # 1 /\ \A d \in Calls : d # c => next'[d] = next[d]
      /\ UNCHANGED <<returns, layout, got, early>> /\ next[c] = 1
  BY <1>1, FrameFacts DEF CallReq, Arg
<1>3. pc[c] = "idle" /\ rd[c]["main"].st = "off" /\ rd[c]["extra"].st = "off"
  BY <1>1, <1>2 DEF CallIn, ReadersInv
<1>4. CASE UNCHANGED <<in, fed, pc, rd>>
  <2>1. RequestTypes'
    BY <1>1, <1>2, <1>4 DEF RequestTypes
  <2>2. CallIn(in[c], got[c], fed[c], rd[c], early[c], pc[c], returns, next'[c])
    BY <1>1, <1>2 DEF CallIn, ReadersInv
  <2> QED
    BY <1>2, <1>4, <2>1, <2>2, InputStep
<1>5. CASE /\ in' = [in EXCEPT ![c] = Deliver(@, fed[c], FrameOf(c), 1, IsLast(c))]
           /\ fed' = [fed EXCEPT ![c] = Count(@, FrameOf(c), 1)]
           /\ pc' = [pc EXCEPT ![c] = "name"]
           /\ rd' = [rd EXCEPT ![c]["main"] = [arg |-> 1, st |-> "go"]]
  <2> DEFINE T == Deliver(in[c], fed[c], FrameOf(c), 1, IsLast(c))
             m == Count(fed[c], FrameOf(c), 1)
             v == [arg |-> 1, st |-> "go"]
             rt == [rd[c] EXCEPT !["main"] = v]
  <2>1. /\ in[c] \in [Arg -> Streams(Readers)] /\ fed[c] \in [Arg -> Nat]
        /\ rd[c] \in [Readers -> ReaderRecords] /\ early[c] \subseteq Readers
        /\ "main" \in Readers /\ v \in ReaderRecords
    BY <1>1 DEF RequestTypes, ReaderRecords, ReaderStates, Arg, Readers
  <2>2. /\ T \in [Arg -> Streams(Readers)] /\ m \in [Arg -> Nat]
        /\ \A k \in Arg : ArgInv(T[k], got[c][k], m[k], k, rd[c])
    <3>1. \A k \in Arg : ArgInv(in[c][k], got[c][k], fed[c][k], k, rd[c])
      BY <1>1 DEF CallIn
    <3> DEFINE f == FrameOf(c)
               l == IsLast(c)
               S == in[c]
               n == fed[c]
    <3>2. f \in Seq(Pieces) /\ 1 \in Arg /\ S \in [Arg -> Streams(Readers)] /\ n \in [Arg -> Nat]
      BY <1>2, <2>1
    <3>3. \A k \in Arg : ArgInv(S[k], got[c][k], n[k], k, rd[c])
      BY <3>1
    <3> HIDE DEF f, l, S, n
    <3>4. /\ Deliver(S, n, f, 1, l) \in [Arg -> Streams(Readers)]
          /\ Count(n, f, 1) \in [Arg -> Nat]
          /\ \A k \in Arg : ArgInv(Deliver(S, n, f, 1, l)[k], got[c][k], Count(n, f, 1)[k], k, rd[c])
      BY <3>2, <3>3, DeliverInv
    <3> QED
      BY <3>4 DEF f, l, S, n
  <2> HIDE DEF T, m
  <2>3. /\ in' = [in EXCEPT ![c] = T] /\ fed' = [fed EXCEPT ![c] = m]
        /\ rd' = [rd EXCEPT ![c] = rt] /\ pc' = [pc EXCEPT ![c] = "name"]
    BY <1>5 DEF T, m
  <2>4. rt \in [Readers -> ReaderRecords] /\ rt["extra"] = rd[c]["extra"]
    BY <2>1 DEF Readers
  <2>5. ~AllRead(rd[c], 1) /\ ~AllRead(rd[c], 2) /\ ~AllRead(rd[c], 3)
    BY <1>3, <2>1 DEF AllRead
  <2>6. ASSUME NEW k \in Arg PROVE ArgInv(T[k], got[c][k], m[k], k, rt)
    <3>1. ~AllRead(rd[c], k) /\ ArgInv(T[k], got[c][k], m[k], k, rd[c]) /\ rd[c]["main"].st # "wait"
      BY <1>3, <2>2, <2>5 DEF Arg
    <3> QED
      BY <2>1, <3>1, WakeMoved DEF ArgInv
  <2> HIDE DEF rt, v
  <2>7. /\ RequestTypes' /\ in'[c] = T /\ fed'[c] = m /\ rd'[c] = rt /\ pc'[c] = "name"
        /\ \A d \in Calls : d # c => /\ in'[d] = in[d] /\ fed'[d] = fed[d]
                                     /\ rd'[d] = rd[d] /\ pc'[d] = pc[d]
    BY <1>1, <1>2, <2>2, <2>3, <2>4 DEF RequestTypes, PcStates
  <2>8. early[c] = {}
    <3>1. \A x \in Readers : rd[c][x].arg \in {1, 2, 3}
      BY <2>1 DEF ReaderRecords, Arg
    <3> QED
      BY <1>1, <2>1, <2>5, <3>1 DEF CallIn, ReadersInv
  <2>9. CallIn(T, got[c], m, rt, early[c], "name", returns, next'[c])
    BY <1>2, <1>3, <2>4, <2>6, <2>8 DEF CallIn, ReadersInv
  <2> QED
    BY <1>2, <2>7, <2>9, InputStep
<1> QED
  BY <1>4, <1>5 DEF CallReq

LEMMA InputContinue ==
  ASSUME InputInv, NEW c \in Calls, CallReqContinue(c)
  PROVE  InputInv'
<1> DEFINE dst == Incomplete(in[c])
           T == Deliver(in[c], fed[c], FrameOf(c), dst, IsLast(c))
           m == Count(fed[c], FrameOf(c), dst)
           X == [in[c] EXCEPT ![dst] = SetException(@)]
<1>1. RequestTypes /\ CallIn(in[c], got[c], fed[c], rd[c], early[c], pc[c], returns, next[c])
  BY DEF InputInv
<1>2. /\ FrameOf(c) \in Seq(Pieces) /\ dst \in Arg
      /\ next' \in [Calls -> Nat \ {0}] /\ next'[c] # 1 /\ \A d \in Calls : d # c => next'[d] = next[d]
      /\ UNCHANGED <<returns, layout, got, early, pc, rd>>
  BY <1>1, FrameFacts DEF CallReqContinue
<1> HIDE DEF dst
<1>3. in[c] \in [Arg -> Streams(Readers)] /\ fed[c] \in [Arg -> Nat]
  BY <1>1 DEF RequestTypes
\* Whatever becomes of the streams of c.
<1>4. ASSUME NEW U \in [Arg -> Streams(Readers)], NEW x \in [Arg -> Nat],
             in' = [in EXCEPT ![c] = U], fed' = [fed EXCEPT ![c] = x],
             \A k \in Arg : ArgInv(U[k], got[c][k], x[k], k, rd[c])
      PROVE  InputInv'
  <2>1. /\ RequestTypes' /\ in'[c] = U /\ fed'[c] = x
        /\ \A d \in Calls : d # c => in'[d] = in[d] /\ fed'[d] = fed[d]
    BY <1>1, <1>2, <1>4 DEF RequestTypes
  <2>2. CallIn(U, got[c], x, rd[c], early[c], pc[c], returns, next'[c])
    BY <1>1, <1>2, <1>4 DEF CallIn, ReadersInv
  <2> QED
    BY <1>2, <2>1, <2>2, InputStep
<1>5. /\ T \in [Arg -> Streams(Readers)] /\ m \in [Arg -> Nat]
      /\ \A k \in Arg : ArgInv(T[k], got[c][k], m[k], k, rd[c])
  BY <1>1, <1>2, <1>3, DeliverInv DEF CallIn
<1>6. /\ X \in [Arg -> Streams(Readers)]
      /\ \A k \in Arg : ArgInv(X[k], got[c][k], fed[c][k], k, rd[c])
  <2>1. SetException(in[c][dst]) \in Streams(Readers)
    BY <1>2, <1>3, FailFacts
  <2>2. ArgInv(SetException(in[c][dst]), got[c][dst], fed[c][dst], dst, rd[c])
    BY <1>1, <1>2, ArgClose DEF CallIn
  <2> QED
    BY <1>1, <1>2, <1>3, <2>1, <2>2 DEF CallIn
<1>7. \A k \in Arg : ArgInv(in[c][k], got[c][k], fed[c][k], k, rd[c])
  BY <1>1 DEF CallIn
<1> HIDE DEF T, m, X
<1>8. \/ UNCHANGED <<in, fed>>
      \/ in' = [in EXCEPT ![c] = T] /\ fed' = [fed EXCEPT ![c] = m]
      \/ in' = [in EXCEPT ![c] = X] /\ UNCHANGED fed
  <2>1. in' = [in EXCEPT ![c][dst] = SetException(@)] => in' = [in EXCEPT ![c] = X]
    BY <1>1 DEF X, RequestTypes
  <2> QED
    BY <2>1 DEF CallReqContinue, T, m, dst
<1>9. in = [in EXCEPT ![c] = in[c]] /\ fed = [fed EXCEPT ![c] = fed[c]]
  BY <1>1 DEF RequestTypes
<1>10. CASE UNCHANGED <<in, fed>>
  BY <1>3, <1>4, <1>7, <1>9, <1>10
<1>11. CASE in' = [in EXCEPT ![c] = T] /\ fed' = [fed EXCEPT ![c] = m]
  BY <1>4, <1>5, <1>11
<1>12. CASE in' = [in EXCEPT ![c] = X] /\ UNCHANGED fed
  BY <1>3, <1>4, <1>6, <1>9, <1>12
<1> QED
  BY <1>8, <1>10, <1>11, <1>12

LEMMA InputReading ==
  ASSUME InputInv, NEW c \in Calls, NEW r \in Readers, Reading(c, r),
         \/ rd[c][r].st = "go" /\ Ready(in[c][rd[c][r].arg])
         \/ rd[c][r].st = "wait" /\ r \in in[c][rd[c][r].arg].woken
  PROVE  InputInv'
<1> DEFINE k == rd[c][r].arg
           s == in[c][k]
           x == IF ReadResult(s) = "more" THEN "go" ELSE ReadResult(s)
           h == IF s.exc THEN got[c][k] ELSE got[c][k] \o Chunks(s)
           rt == [rd[c] EXCEPT ![r].st = x]
           S == [in[c] EXCEPT ![k] = Rest(s, r)]
           g == [got[c] EXCEPT ![k] = h]
<1>1. RequestTypes /\ CallIn(in[c], got[c], fed[c], rd[c], early[c], pc[c], returns, next[c])
  BY DEF InputInv
<1>2. /\ in[c] \in [Arg -> Streams(Readers)] /\ got[c] \in [Arg -> Seq(Nat)]
      /\ rd[c] \in [Readers -> ReaderRecords] /\ k \in Arg /\ early[c] \subseteq Readers
  BY <1>1 DEF RequestTypes, ReaderRecords
<1>3. x \in {"go", "end", "failed"} /\ x # "off" /\ x \in ReaderStates
  BY DEF ReadResult, ReaderStates
<1>4. /\ in' = [in EXCEPT ![c] = S] /\ got' = [got EXCEPT ![c] = g]
      /\ rd' = [rd EXCEPT ![c] = rt]
      /\ UNCHANGED <<layout, next, fed, pc, returns>>
  <2>1. in' = [in EXCEPT ![c] = S]
    BY <1>1 DEF Reading, RequestTypes
  <2>2. got' = [got EXCEPT ![c] = g]
    BY <1>1 DEF Reading, RequestTypes
  <2>3. rd' = [rd EXCEPT ![c] = rt]
    BY <1>1 DEF Reading, RequestTypes
  <2> QED
    BY <2>1, <2>2, <2>3 DEF Reading, setting
<1>5. /\ \A d \in Calls : d # c => early'[d] = early[d]
      /\ early' \in [Calls -> SUBSET Readers]
      /\ early'[c] \subseteq early[c] \cup {r}
      /\ r \in early'[c] => r \in early[c] \/ ~Ready(s)
  <2>1. CASE ReadResult(s) = "end" /\ ~s.done
    <3>1. early' = [early EXCEPT ![c] = @ \cup {r}] /\ ~Ready(s)
      BY <2>1 DEF Reading, ReadResult, Ready
    <3> QED
      BY <1>1, <3>1 DEF RequestTypes
  <2>2. CASE ~(ReadResult(s) = "end" /\ ~s.done)
    <3>1. early' = early
      BY <2>2 DEF Reading
    <3> QED
      BY <1>1, <3>1 DEF RequestTypes
  <2> QED
    BY <2>1, <2>2
<1>6. /\ rt \in [Readers -> ReaderRecords]
      /\ rt[r].arg = k /\ rt[r].st = x
      /\ \A y \in Readers : y # r => rt[y] = rd[c][y]
  BY <1>2, <1>3 DEF ReaderRecords
<1>7. ArgInv(s, got[c][k], fed[c][k], k, rd[c])
  BY <1>1, <1>2 DEF CallIn
<1>8. ArgInv(Rest(s, r), h, fed[c][k], k, rt)
  <2> HIDE DEF s, k, x
  <2>1. rd[c][r].arg = k
    BY DEF k
  <2>2. (rd[c][r].st = "go" /\ Ready(s)) \/ (rd[c][r].st = "wait" /\ r \in s.woken)
    BY DEF s, k
  <2> QED
    BY <1>2, <1>3, <1>7, <2>1, <2>2, ArgReading
<1>9. rd[c][r].st # "off"
  OBVIOUS
\* The other arguments have other readers.
<1>10. ASSUME NEW j \in Arg, j # k PROVE ArgInv(in[c][j], got[c][j], fed[c][j], j, rt)
  <2>1. ArgInv(in[c][j], got[c][j], fed[c][j], j, rd[c])
    BY <1>1 DEF CallIn
  <2>2. ~AllRead(rd[c], j) /\ rd[c][r].arg # j
    BY <1>10 DEF AllRead
  <2>3. rt = [rd[c] EXCEPT ![r] = [rd[c][r] EXCEPT !.st = x]]
    BY <1>2
  <2>4. WakeInv(in[c][j], j, rt)
    BY <1>2, <2>1, <2>2, <2>3, WakeMoved DEF ArgInv
  <2> QED
    BY <2>1, <2>4 DEF ArgInv
\* Whoever reads along with all others goes on to.
<1>11. \A j : AllRead(rd[c], j) => AllRead(rt, j)
  BY <1>3, <1>6 DEF AllRead
<1>12. ASSUME NEW y \in early'[c] PROVE AllRead(rt, rt[y].arg)
  <2>1. CASE y \in early[c]
    <3>1. AllRead(rd[c], rd[c][y].arg)
      BY <1>1, <2>1 DEF CallIn, ReadersInv
    <3>2. rt[y].arg = rd[c][y].arg
      BY <1>2, <1>6, <2>1
    <3> QED
      BY <1>11, <3>1, <3>2
  <2>2. CASE y \notin early[c]
    <3>1. y = r /\ ~Ready(s)
      BY <1>5, <2>2
    <3>2. r \in s.woken
      BY <3>1
    <3>3. AllRead(rd[c], k)
      BY <1>7, <3>1, <3>2 DEF ArgInv, WakeInv
    <3> QED
      BY <1>6, <1>11, <3>1, <3>3
  <2> QED
    BY <2>1, <2>2
<1>13. ReadersInv(rt, early'[c], pc[c], returns, next[c])
  <2>1. ReadersInv(rd[c], early[c], pc[c], returns, next[c])
    BY <1>1 DEF CallIn
  <2>2. /\ rt["extra"].st # "off" => rd[c]["extra"].st # "off"
        /\ rt["extra"].arg = rd[c]["extra"].arg
    BY <1>2, <1>6, <1>9 DEF Readers
  <2>3. pc[c] = "hook" => rd[c]["main"].st = "end" /\ rd[c]["extra"].st = "off"
    BY <2>1 DEF ReadersInv
  <2>4. pc[c] # "hook"
    BY <2>3 DEF Readers
  <2>5. pc[c] = "idle" => rd[c]["main"].st = "off" /\ rd[c]["extra"].st = "off"
    BY <2>1 DEF ReadersInv
  <2>6. pc[c] # "idle"
    BY <1>9, <2>5 DEF Readers
  <2> QED
    BY <1>12, <2>1, <2>2, <2>4, <2>6 DEF ReadersInv
<1> HIDE DEF rt, S, g, h, s, x
<1>14. /\ S \in [Arg -> Streams(Readers)] /\ g \in [Arg -> Seq(Nat)]
       /\ S[k] = Rest(s, r) /\ g[k] = h
       /\ \A j \in Arg : j # k => S[j] = in[c][j] /\ g[j] = got[c][j]
  BY <1>2, <1>8 DEF ArgInv, S, g
<1> HIDE DEF k
<1>15. \A j \in Arg : ArgInv(S[j], g[j], fed[c][j], j, rt)
  BY <1>8, <1>10, <1>14
<1>16. /\ RequestTypes' /\ in'[c] = S /\ got'[c] = g /\ rd'[c] = rt
       /\ \A d \in Calls : d # c => in'[d] = in[d] /\ got'[d] = got[d] /\ rd'[d] = rd[d]
  BY <1>1, <1>4, <1>5, <1>6, <1>14 DEF RequestTypes
<1>17. CallIn(S, g, fed[c], rt, early'[c], pc[c], returns, next[c])
  BY <1>13, <1>15 DEF CallIn
<1> QED
  BY <1>4, <1>5, <1>16, <1>17, InputStep

LEMMA InputWaits ==
  ASSUME InputInv, NEW c \in Calls, NEW r \in Readers, ReadWaits(c, r)
  PROVE  InputInv'
<1> DEFINE k == rd[c][r].arg
           s == in[c][k]
           rt == [rd[c] EXCEPT ![r].st = "wait"]
           S == [in[c] EXCEPT ![k] = Wait(s, r)]
<1>1. RequestTypes /\ CallIn(in[c], got[c], fed[c], rd[c], early[c], pc[c], returns, next[c])
  BY DEF InputInv
<1>2. /\ in[c] \in [Arg -> Streams(Readers)] /\ rd[c] \in [Readers -> ReaderRecords]
      /\ k \in Arg /\ early[c] \subseteq Readers
  BY <1>1 DEF RequestTypes, ReaderRecords
<1>3. /\ in' = [in EXCEPT ![c] = S] /\ rd' = [rd EXCEPT ![c] = rt]
      /\ rd[c][r].st = "go" /\ ~Ready(s)
      /\ UNCHANGED <<layout, next, fed, got, early, pc, returns>>
  BY <1>1 DEF ReadWaits, RequestTypes, setting
<1>4. /\ rt \in [Readers -> ReaderRecords]
      /\ rt[r].arg = k /\ rt[r].st = "wait"
      /\ \A y \in Readers : y # r => rt[y] = rd[c][y]
  BY <1>2 DEF ReaderRecords, ReaderStates
<1>5. ArgInv(Wait(s, r), got[c][k], fed[c][k], k, rt)
  <2>1. ArgInv(s, got[c][k], fed[c][k], k, rd[c]) /\ rd[c][r].arg = k
    BY <1>1, <1>2 DEF CallIn
  <2> HIDE DEF s, k
  <2> QED
    BY <1>2, <1>3, <2>1, ArgWaits
<1>6. ASSUME NEW j \in Arg, j # k PROVE ArgInv(in[c][j], got[c][j], fed[c][j], j, rt)
  <2>1. ArgInv(in[c][j], got[c][j], fed[c][j], j, rd[c])
    BY <1>1 DEF CallIn
  <2>2. ~AllRead(rd[c], j) /\ rd[c][r].arg # j
    BY <1>6 DEF AllRead
  <2>3. rt = [rd[c] EXCEPT ![r] = [rd[c][r] EXCEPT !.st = "wait"]]
    BY <1>2
  <2>4. WakeInv(in[c][j], j, rt)
    BY <1>2, <2>1, <2>2, <2>3, WakeMoved DEF ArgInv
  <2> QED
    BY <2>1, <2>4 DEF ArgInv
<1>7. ReadersInv(rt, early[c], pc[c], returns, next[c])
  <2>1. ReadersInv(rd[c], early[c], pc[c], returns, next[c])
    BY <1>1 DEF CallIn
  <2>2. \A j : AllRead(rd[c], j) => AllRead(rt, j)
    BY <1>4 DEF AllRead
  <2>3. \A y \in Readers : rt[y].arg = rd[c][y].arg
    BY <1>4
  <2>4. /\ rt["extra"].st # "off" => rd[c]["extra"].st # "off"
        /\ pc[c] # "hook" /\ pc[c] # "idle"
    BY <1>3, <1>4, <2>1 DEF Readers, ReadersInv
  <2>5. \A y \in early[c] : AllRead(rt, rt[y].arg)
    BY <1>2, <2>1, <2>2, <2>3 DEF ReadersInv
  <2> QED
    BY <2>1, <2>3, <2>4, <2>5 DEF ReadersInv, Readers
<1> HIDE DEF rt, S, s
<1>8. /\ S \in [Arg -> Streams(Readers)] /\ S[k] = Wait(s, r)
      /\ \A j \in Arg : j # k => S[j] = in[c][j]
  BY <1>2, <1>5 DEF ArgInv, S
<1> HIDE DEF k
<1>9. \A j \in Arg : ArgInv(S[j], got[c][j], fed[c][j], j, rt)
  BY <1>5, <1>6, <1>8
<1>10. /\ RequestTypes' /\ in'[c] = S /\ rd'[c] = rt
       /\ \A d \in Calls : d # c => in'[d] = in[d] /\ rd'[d] = rd[d]
  BY <1>1, <1>3, <1>4, <1>8 DEF RequestTypes
<1>11. CallIn(S, got[c], fed[c], rt, early[c], pc[c], returns, next[c])
  BY <1>7, <1>9 DEF CallIn
<1> QED
  BY <1>3, <1>10, <1>11, InputStep

\* The end of handle_call.
LEMMA EndsFacts ==
  ASSUME NEW c \in Calls, NEW how \in {"no", "tchannel", "other"}, NEW o, Ends(c, how, o)
  PROVE  \E q \in {"ended", "tchannel", "other"} : pc' = [pc EXCEPT ![c] = q]
  BY DEF Ends

\* What the handler does to the response does not concern the request.
LEMMA InputEnds ==
  ASSUME InputInv, NEW c \in Calls, NEW how \in {"no", "tchannel", "other"}, NEW o,
         Ends(c, how, o), pc[c] # "idle",
         UNCHANGED <<layout, next, in, fed, got, rd, early, returns>>
  PROVE  InputInv'
<1>1. PICK q \in {"ended", "tchannel", "other"} : pc' = [pc EXCEPT ![c] = q]
  BY EndsFacts
<1>2. q \in PcStates \ {"idle", "name", "hook", "body", "header"}
  BY DEF PcStates
<1> QED
  BY <1>1, <1>2, InputPc

\* What a wrapped function ends with is a response, a TChannelError or another exception.
Outcome(h) == h.raises \in {"no", "tchannel", "other"} /\ h.status \in {OK, FAILED}

LEMMA HandleKinds ==
  ASSUME NEW p \in Procedures, NEW res \in Results, CanEnd(p, res), NEW w
  PROVE  Outcome(Handle(p, res)) /\ Outcome(DeprecatedHandle(p, w, res))
<1>1. \A x \in {OK, FAILED} : \A b : Outcome(Response(x, b))
  BY DEF Response, Outcome
<1>2. \A e \in {"tchannel", "other"} : Outcome(Raise(e))
  BY DEF Raise, Outcome
<1>3. \A v : Outcome(WriteResult(p, v))
  BY <1>1, <1>2 DEF WriteResult
<1>4. res \notin {"value", "none"} => Outcome(WriteExcInfo(p, res))
  BY <1>1, <1>2 DEF WriteExcInfo, Results
<1>5. Outcome(HandleThrift(p, res))
  BY <1>3, <1>4 DEF HandleThrift
<1>6. Outcome(HandleRW(p, res))
  <2>1. CASE res \in {"value", "none"}
    <3>1. HandleRW(p, res) = IF p.void THEN Response(OK, "unset")
             ELSE IF ResponseFromMixed(res).body = "none" THEN Raise("other")
             ELSE Response(OK, "success")
      BY <2>1 DEF HandleRW
    <3> QED
      BY <1>1, <1>2, <3>1
  <2>2. CASE res = "declared"
    BY <1>1, <2>2 DEF HandleRW
  <2>3. CASE res \in {"tchannel", "other"}
    BY <1>2, <2>3 DEF HandleRW
  <2> QED
    BY <2>1, <2>2, <2>3 DEF Results
<1>7. res \in {"value", "none"} => Outcome(ResponseFromMixed(res))
  BY <1>1 DEF ResponseFromMixed
<1>8. p.scheme \notin {"rw", "thrift"} /\ res \notin {"value", "none"} => Outcome(Raise(res))
  BY <1>2 DEF Results, CanEnd, Procedures
<1>9. Outcome(Handle(p, res))
  BY <1>5, <1>6, <1>7, <1>8 DEF Handle
<1>10. Outcome(DeprecatedHandle(p, w, res))
  BY <1>1, <1>2, <1>3, <1>5 DEF DeprecatedHandle
<1> QED
  BY <1>9, <1>10

LEMMA ConcludeFacts ==
  ASSUME NEW c \in Calls, NEW h, Outcome(h), Conclude(c, h)
  PROVE  \E how \in {"no", "tchannel", "other"} : \E o : Ends(c, how, o)
  BY DEF Conclude, WriteAll, SerializeFails, Outcome

LEMMA InputName ==
  ASSUME InputInv, NEW c \in Calls, NameRead(c)
  PROVE  InputInv'
<1>0. UNCHANGED <<layout, next, in, fed, got, rd, early, returns>> /\ pc[c] = "name"
  BY DEF NameRead, HandlerFrame, setting
<1>1. CASE rd[c]["main"].st = "end" /\ pc' = [pc EXCEPT ![c] = "hook"]
  <2>1. RequestTypes /\ CallIn(in[c], got[c], fed[c], rd[c], early[c], pc[c], returns, next[c])
    BY DEF InputInv
  <2>2. pc' = [pc EXCEPT ![c] = "hook"]
    BY <1>1
  <2>3. pc' \in [Calls -> PcStates] /\ pc'[c] = "hook" /\ \A d \in Calls : d # c => pc'[d] = pc[d]
    BY <2>1, <2>2 DEF RequestTypes, PcStates
  <2>4. RequestTypes'
    BY <1>0, <2>1, <2>3 DEF RequestTypes
  <2>5. CallIn(in[c], got[c], fed[c], rd[c], early[c], "hook", returns, next[c])
    BY <1>0, <1>1, <2>1 DEF CallIn, ReadersInv
  <2> QED
    BY <1>0, <2>3, <2>4, <2>5, InputStep
<1>2. CASE pc' = [pc EXCEPT ![c] = "dead"]
  <2>1. "dead" \in PcStates \ {"idle", "name", "hook", "body", "header"}
    BY DEF PcStates
  <2> QED
    BY <1>0, <1>2, <2>1, InputPc
<1> QED
  BY <1>1, <1>2 DEF NameRead

LEMMA InputDispatch ==
  ASSUME InputInv, NEW c \in Calls, Dispatch(c)
  PROVE  InputInv'
<1>0. UNCHANGED <<layout, next, in, fed, got, early, returns>> /\ pc[c] = "hook"
  BY DEF Dispatch, setting, request
<1>1. CASE GetEndpoint(c) = "mismatch"
  <2>1. pc' = [pc EXCEPT ![c] = "refused"] /\ rd' = rd
    BY <1>1 DEF Dispatch
  <2>2. "refused" \in PcStates \ {"idle", "name", "hook", "body", "header"}
    BY DEF PcStates
  <2> QED
    BY <1>0, <2>1, <2>2, InputPc
<1>2. CASE GetEndpoint(c) # "mismatch"
  <2> DEFINE q == IF returns THEN "body" ELSE "run"
             v == IF returns THEN [arg |-> 3, st |-> "go"]
                  ELSE [arg |-> rd[c]["main"].arg, st |-> "off"]
  <2>1. RequestTypes /\ ReadersInv(rd[c], early[c], pc[c], returns, next[c])
    BY DEF InputInv, CallIn
  <2>2. rd[c] \in [Readers -> ReaderRecords] /\ "main" \in Readers /\ returns \in BOOLEAN
    BY <2>1 DEF RequestTypes, Readers
  <2>3. rd[c]["main"] \in ReaderRecords /\ rd[c]["main"].st = "end" /\ rd[c]["extra"].st = "off"
    BY <1>0, <2>1, <2>2 DEF ReadersInv
  <2>4. v \in ReaderRecords /\ q \in PcStates /\ q # "idle" /\ q # "hook"
        /\ (q \in {"body", "header"} => returns)
    BY <2>2, <2>3 DEF ReaderRecords, ReaderStates, Arg, PcStates
  <2>5. rd' = [rd EXCEPT ![c]["main"] = v] /\ pc' = [pc EXCEPT ![c] = q]
    <3>1. CASE returns
      BY <1>2, <3>1 DEF Dispatch
    <3>2. CASE ~returns
      <4>1. rd' = [rd EXCEPT ![c]["main"].st = "off"] /\ pc' = [pc EXCEPT ![c] = "run"]
        BY <1>2, <3>2 DEF Dispatch
      <4>2. rd \in [Calls -> [Readers -> [arg : Arg, st : ReaderStates]]]
        BY <2>1 DEF RequestTypes, ReaderRecords
      <4>3. [rd[c]["main"] EXCEPT !.st = "off"] = v
        BY <2>3, <3>2 DEF ReaderRecords
      <4>4. rd' = [rd EXCEPT ![c]["main"] = [rd[c]["main"] EXCEPT !.st = "off"]]
        BY <4>1, <4>2
      <4> QED
        BY <3>2, <4>1, <4>3, <4>4
    <3> QED
      BY <3>1, <3>2
  <2>6. ~AllRead(rd[c], 1) /\ ~AllRead(rd[c], 2) /\ ~AllRead(rd[c], 3)
    BY <1>0, NotAllRead
  <2> HIDE DEF q, v
  <2>7. rd[c]["main"].st # "wait" /\ pc[c] # "idle" /\ "main" # "extra"
    BY <1>0, <2>3
  <2> QED
    BY <1>0, <2>2, <2>3, <2>4, <2>5, <2>6, <2>7, InputReader
<1> QED
  BY <1>1, <1>2

LEMMA InputArgRead ==
  ASSUME InputInv, NEW c \in Calls, ArgRead(c)
  PROVE  InputInv'
<1>0. /\ UNCHANGED <<layout, next, in, fed, got, early, returns>>
      /\ pc[c] \in {"body", "header"} /\ pc[c] # "idle"
  BY DEF ArgRead, HandlerFrame, setting
<1>1. RequestTypes /\ ReadersInv(rd[c], early[c], pc[c], returns, next[c])
  BY DEF InputInv, CallIn
<1>2. ASSUME Ends(c, "other", out[c]) \/ Ends(c, "tchannel", out[c]), rd' = rd PROVE InputInv'
  <2>1. CASE Ends(c, "other", out[c])
    BY <1>0, <1>2, <2>1, InputEnds
  <2>2. CASE Ends(c, "tchannel", out[c])
    BY <1>0, <1>2, <2>2, InputEnds
  <2> QED
    BY <1>2, <2>1, <2>2
<1>3. ASSUME rd[c]["main"].st = "end",
             pc' = [pc EXCEPT ![c] = IF @ = "body" THEN "header" ELSE "run"],
             rd' = IF pc[c] = "body"
                   THEN [rd EXCEPT ![c]["main"] = [arg |-> 2, st |-> "go"]] ELSE rd
      PROVE  InputInv'
  <2>1. CASE pc[c] = "body"
    <3> DEFINE v == [arg |-> 2, st |-> "go"]
    <3>1. rd' = [rd EXCEPT ![c]["main"] = v] /\ pc' = [pc EXCEPT ![c] = "header"]
      BY <1>1, <1>3, <2>1 DEF RequestTypes
    <3>2. v \in ReaderRecords /\ "header" \in PcStates /\ "main" \in Readers /\ returns
      BY <1>1, <2>1 DEF ReaderRecords, ReaderStates, Arg, PcStates, Readers, ReadersInv
    <3>3. ~AllRead(rd[c], 1) /\ ~AllRead(rd[c], 2) /\ ~AllRead(rd[c], 3)
      BY <3>2, NotAllRead
    <3>4. rd[c]["main"].st # "wait" /\ "main" # "extra"
      BY <1>3
    <3> HIDE DEF v
    <3> QED
      BY <1>0, <3>1, <3>2, <3>3, <3>4, InputReader
  <2>2. CASE pc[c] # "body"
    <3>1. rd' = rd /\ pc' = [pc EXCEPT ![c] = "run"]
      BY <1>1, <1>3, <2>2 DEF RequestTypes
    <3>2. "run" \in PcStates \ {"idle", "name", "hook", "body", "header"}
      BY DEF PcStates
    <3> QED
      BY <1>0, <3>1, <3>2, InputPc
  <2> QED
    BY <2>1, <2>2
<1> QED
  BY <1>2, <1>3 DEF ArgRead

LEMMA InputStart ==
  ASSUME InputInv, NEW c \in Calls, NEW r \in Readers, StartRead(c, r)
  PROVE  InputInv'
<1>1. /\ UNCHANGED <<layout, next, in, fed, got, early, pc, returns>>
      /\ pc[c] = "run" /\ ~returns
  BY DEF StartRead, HandlerFrame, Runs, setting
<1>2. PICK k \in {2, 3} :
        /\ rd[c][r].st = "off" \/ (rd[c][r] = [arg |-> 2, st |-> "end"] /\ k = 3)
        /\ r = "extra" => k = 3
        /\ rd' = [rd EXCEPT ![c][r] = [arg |-> k, st |-> "go"]]
  BY DEF StartRead
<1> DEFINE v == [arg |-> k, st |-> "go"]
<1>3. RequestTypes /\ ReadersInv(rd[c], early[c], pc[c], returns, next[c])
  BY DEF InputInv, CallIn
<1>4. v \in ReaderRecords /\ pc[c] \in PcStates /\ v.arg = k
  BY <1>3 DEF ReaderRecords, ReaderStates, Arg, RequestTypes
<1>5. rd[c][r].st # "wait"
  BY <1>2
<1>6. (\E x \in Readers : rd[c][x].st = "off") \/ rd[c]["main"].arg = 2
  <2>1. CASE rd[c][r].st = "off"
    BY <2>1
  <2>2. CASE rd[c][r] = [arg |-> 2, st |-> "end"]
    <3>1. rd[c][r].arg = 2 /\ rd[c][r].st = "end"
      BY <2>2
    <3>2. r # "extra"
      BY <1>3, <3>1 DEF ReadersInv
    <3> QED
      BY <3>1, <3>2 DEF Readers
  <2> QED
    BY <1>2, <2>1, <2>2
<1>7. ~AllRead(rd[c], 1) /\ ~AllRead(rd[c], 2) /\ ~AllRead(rd[c], 3)
  BY <1>6, NotAllRead
<1>8. pc' = [pc EXCEPT ![c] = pc[c]]
  BY <1>1, <1>3 DEF RequestTypes
<1>9. rd' = [rd EXCEPT ![c][r] = v] /\ (r = "extra" => v.arg = 3)
  BY <1>2, <1>4
<1> HIDE DEF v
<1> QED
  BY <1>1, <1>4, <1>5, <1>7, <1>8, <1>9, InputReader

SettingTypes ==
  /\ target \in [Calls -> Targets] /\ proc \in [Calls -> Procedures]
  /\ work \in [Calls -> [readers : SUBSET Readers, writes : Nat]]

requestVars == <<layout, next, in, fed, got, rd, early, pc, returns>>

LEMMA InputUnchanged ==
  ASSUME InputInv, UNCHANGED requestVars
  PROVE  InputInv'
<1>1. /\ layout' = layout /\ next' = next /\ in' = in /\ fed' = fed /\ got' = got
      /\ rd' = rd /\ early' = early /\ pc' = pc /\ returns' = returns
  BY DEF requestVars
<1>2. RequestTypes'
  BY <1>1 DEF InputInv, RequestTypes
<1> QED
  BY <1>1, <1>2 DEF InputInv

LEMMA InputHandler ==
  ASSUME InputInv, SettingTypes, NEW c \in Calls, HandlerEnds(c)
  PROVE  InputInv'
<1>1. /\ UNCHANGED <<layout, next, in, fed, got, rd, early, returns>>
      /\ pc[c] # "idle" /\ proc[c] \in Procedures
  <2>1. proc[c] \in Procedures
    BY DEF SettingTypes
  <2>2. HandlerFrame /\ rd' = rd /\ pc[c] = "run"
    BY DEF HandlerEnds, Returned, DeprecatedReturned, Leaves, NotFound, Runs
  <2> QED
    BY <2>1, <2>2 DEF HandlerFrame, setting
<1>2. ASSUME NEW how \in {"no", "tchannel", "other"}, NEW o, Ends(c, how, o) PROVE InputInv'
  BY <1>1, <1>2, InputEnds
<1>3. ASSUME NEW h, Outcome(h), Conclude(c, h) PROVE InputInv'
  <2>01. PICK how \in {"no", "tchannel", "other"} : \E o : Ends(c, how, o)
    BY <1>3, ConcludeFacts
  <2>1. PICK o : Ends(c, how, o)
    BY <2>01
  <2> QED
    BY <1>2, <2>1
<1>4. CASE NotFound(c)
  BY <1>2, <1>4 DEF NotFound
<1>5. CASE Leaves(c)
  BY <1>2, <1>5 DEF Leaves
<1>6. CASE Returned(c)
  <2>1. PICK res \in Results : CanEnd(proc[c], res) /\ Conclude(c, Handle(proc[c], res))
    BY <1>6 DEF Returned
  <2> DEFINE h == Handle(proc[c], res)
  <2>2. Outcome(h) /\ Conclude(c, h)
    BY <1>1, <2>1, HandleKinds
  <2> HIDE DEF h
  <2> QED
    BY <1>3, <2>2
<1>7. CASE DeprecatedReturned(c)
  <2>1. PICK res \in Results, w \in {"none", "value"} :
          CanEnd(proc[c], res) /\ Conclude(c, DeprecatedHandle(proc[c], w, res))
    BY <1>7 DEF DeprecatedReturned
  <2> DEFINE h == DeprecatedHandle(proc[c], w, res)
  <2>2. Outcome(h) /\ Conclude(c, h)
    BY <1>1, <2>1, HandleKinds
  <2> HIDE DEF h
  <2> QED
    BY <1>3, <2>2
<1> QED
  BY <1>4, <1>5, <1>6, <1>7 DEF HandlerEnds

LEMMA InputWritePiece ==
  ASSUME InputInv, NEW c \in Calls, NEW k \in Arg, WritePiece(c, k)
  PROVE  InputInv'
<1>1. UNCHANGED <<layout, next, in, fed, got, rd, early, returns>> /\ pc[c] # "idle"
  BY DEF WritePiece, HandlerFrame, setting, Runs
<1>2. CASE pc' = pc
  BY <1>1, <1>2, InputUnchanged DEF requestVars
<1>3. CASE Ends(c, "tchannel", out[c])
  BY <1>1, <1>3, InputEnds
<1> QED
  BY <1>2, <1>3 DEF WritePiece

LEMMA InputNext ==
  ASSUME InputInv, SettingTypes, [Next]_vars
  PROVE  InputInv'
<1>1. CASE UNCHANGED vars
  BY <1>1, InputUnchanged DEF vars, setting, request, reading, requestVars
<1>2. CASE NextWrite
  BY <1>2, InputUnchanged DEF NextWrite, setting, request, reading, requestVars
<1>3. CASE OnMessage
  BY <1>3, InputUnchanged DEF OnMessage, setting, request, reading, requestVars
<1>4. CASE Close
  BY <1>4, InputUnchanged DEF Close, setting, request, reading, requestVars
<1>5. ASSUME NEW c \in Calls, Flush(c) \/ PostStep(c) PROVE InputInv'
  <2>1. CASE Flush(c)
    BY <2>1, InputUnchanged DEF Flush, HandlerFrame, setting, requestVars
  <2>2. CASE PostStep(c)
    <3>1. PostFrame
      BY <2>2 DEF PostStep, PostReadsAtOnce, PostWaits, PostWoken, PostResumes, PostEnds
    <3> QED
      BY <3>1, InputUnchanged DEF PostFrame, setting, request, reading, requestVars
  <2> QED
    BY <1>5, <2>1, <2>2
<1>6. ASSUME NEW c \in Calls, NEW r \in Readers,
             ReadAtOnce(c, r) \/ ReadWhenWoken(c, r) \/ ReadWaits(c, r)
      PROVE  InputInv'
  BY <1>6, InputReading, InputWaits DEF ReadAtOnce, ReadWhenWoken
<1> QED
  BY <1>1, <1>2, <1>3, <1>4, <1>5, <1>6, InputCallReq, InputContinue, InputName, InputDispatch,
     InputArgRead, InputHandler, InputStart, InputWritePiece DEF Next, ReaderStep

LEMMA InputInit ==
  ASSUME Init
  PROVE  InputInv /\ SettingTypes
<1>1. PICK case \in [Calls -> Cases] :
       /\ returns \in BOOLEAN /\ \A c \in Calls : returns = case[c].returns
       /\ target = [c \in Calls |-> case[c].target]
       /\ proc = [c \in Calls |-> case[c].proc]
       /\ work = [c \in Calls |-> [readers |-> case[c].readers,
                                   writes |-> case[c].writes]]
       /\ layout = [c \in Calls |-> case[c].layout]
  BY DEF Init
<1>2. \A c \in Calls :
       /\ case[c].target \in Targets /\ case[c].proc \in Procedures
       /\ case[c].layout \in Seq(Seq(Pieces))
       /\ case[c].readers \in SUBSET Readers /\ case[c].writes \in Nat
  BY ServerAssumption DEF Pieces
<1>3. SettingTypes /\ layout \in [Calls -> Seq(Seq(Pieces))] /\ returns \in BOOLEAN
  BY <1>1, <1>2 DEF SettingTypes
<1>4. /\ next = [c \in Calls |-> 1]
      /\ in = [c \in Calls |-> [k \in Arg |-> NewStream]]
      /\ fed = [c \in Calls |-> [k \in Arg |-> 0]]
      /\ got = [c \in Calls |-> [k \in Arg |-> <<>>]]
      /\ pc = [c \in Calls |-> "idle"]
      /\ rd = [c \in Calls |-> [r \in Readers |-> [arg |-> 1, st |-> "off"]]]
      /\ early = [c \in Calls |-> {}]
  BY DEF Init, NoChunks
<1>5. /\ NewStream \in Streams(Readers) /\ NewStream.buf = <<>> /\ NewStream.woken = {}
      /\ NewStream.waiting = <<>>
  BY DEF NewStream, Streams
<1> HIDE DEF NewStream
<1>6. [arg |-> 1, st |-> "off"] \in ReaderRecords
  BY DEF ReaderRecords, ReaderStates, Arg
<1>7. RequestTypes
  BY <1>3, <1>4, <1>5, <1>6 DEF RequestTypes, PcStates
<1>8. ASSUME NEW c \in Calls
      PROVE  CallIn(in[c], got[c], fed[c], rd[c], early[c], pc[c], returns, next[c])
  <2>1. /\ next[c] = 1 /\ pc[c] = "idle" /\ early[c] = {}
        /\ \A r \in Readers : rd[c][r].st = "off"
    BY <1>4
  <2>2. ReadersInv(rd[c], early[c], pc[c], returns, next[c])
    BY <2>1 DEF ReadersInv, Readers
  <2>3. ASSUME NEW k \in Arg PROVE ArgInv(in[c][k], got[c][k], fed[c][k], k, rd[c])
    <3>1. in[c][k] = NewStream /\ got[c][k] = <<>> /\ fed[c][k] = 0
      BY <1>4
    <3>2. WakeInv(NewStream, k, rd[c])
      BY <1>5 DEF WakeInv, Kinds
    <3>3. <<>> \o <<>> = Upto(0)
      BY UptoFacts
    <3> QED
      BY <1>5, <3>1, <3>2, <3>3 DEF ArgInv
  <2> QED
    BY <2>2, <2>3 DEF CallIn
<1> QED
  BY <1>3, <1>7, <1>8 DEF InputInv

-----------------------------------------------------------------------------
(* The response: its streams, the frames made of them, and its one reader. *)

PostRecords ==
  [arg : Arg, first : BOOLEAN, args : Seq(Seq(Nat)), hand : Seq(Nat), st : PostStates]
SeenRecords == [at : Arg, args : [Arg -> Seq(Nat)], code : {OK, FAILED}]
ResponseStreams == [Arg -> Streams({"post"})]

\* The states of _stream before it has put the last frame together or has failed.
Live == {"off", "go", "wait", "more", "end", "failed", "write"}

\* The frames of the response itself.
Sent(f) == "part" \in Kinds(f) \/ "last" \in Kinds(f)

\* _stream is the only reader: it waits on one stream, which has nothing for it.
OutStream(s, k, p) ==
  /\ Len(s.waiting) <= 1
  /\ s.waiting # <<>> => ~Ready(s)
  /\ s.woken # {} => Ready(s)
  /\ s.waiting # <<>> \/ s.woken # {} => p.st = "wait" /\ p.arg = k

\* What _stream has read of argument k and not yet sent; a is the argument that the next
\* frame starts with.
InFrame(args, i) == IF i \in DOMAIN args THEN args[i] ELSE <<>>
Held(p, a, k) == InFrame(p.args, k - a + 1) \o (IF k = p.arg THEN p.hand ELSE <<>>)

\* Nothing is lost between the handler and the caller: what was sent, what is on its way
\* and what is still in the streams are, in order, what was written.
Flow(o, p, sn, w) ==
  /\ \A k \in Arg : (sn.args[k] \o Held(p, sn.at, k)) \o o[k].buf = Upto(w[k])
  /\ sn.at + Len(p.args) = p.arg + (IF p.first THEN 0 ELSE 1)
  /\ \A k \in Arg : k < p.arg => o[k].done /\ o[k].buf = <<>>
  /\ p.st # "more" => p.hand = <<>>
  /\ p.st = "end" => o[p.arg].done /\ o[p.arg].buf = <<>>

\* The response can only be complete once the handler has flushed it or has ended well, and
\* the streams tell the two ends of a handler apart.
Ending(o, p, f, q, fl) ==
  /\ "last" \in Kinds(f) => fl \/ q = "ended"
  /\ p.st = "end" /\ p.arg = 3 => fl \/ q = "ended"
  /\ o[3].done => fl \/ q \in {"ended", "other"} \/ p.st = "finished"
  /\ q = "other" => \A k \in Arg : o[k].exc

\* The last frame comes once.
LastOnce(f) ==
  \A i, j \in DOMAIN f : f[i] = "last" /\ i < j => f[j] \in {"error", "unexpected"}

ResponseTypes(o, p, f, sn, w, cd) ==
  /\ o \in ResponseStreams /\ p \in PostRecords /\ f \in Seq(FrameKinds)
  /\ sn \in SeenRecords /\ w \in [Arg -> Nat] /\ cd \in {OK, FAILED}

CallOut(o, p, f, sn, w, cd, q, fl) ==
  /\ ResponseTypes(o, p, f, sn, w, cd)
  /\ \A k \in Arg : OutStream(o[k], k, p)
  /\ p.st \in Live => Flow(o, p, sn, w) /\ "last" \notin Kinds(f)
  /\ "last" \in Kinds(f) => \A k \in Arg : sn.args[k] = Upto(w[k]) /\ o[k].done
  /\ Sent(f) => sn.code = cd
  /\ Ending(o, p, f, q, fl)
  /\ LastOnce(f)

\* A handler that has not touched the response finds it as it was made.
NoWrites == [k \in Arg |-> 0]
Untouched(o, p, f) ==
  /\ \A k \in Arg : o[k].buf = <<>> /\ ~o[k].done /\ ~o[k].exc
  /\ p.st \in {"off", "go", "wait"} /\ ~Sent(f)
Fresh(o, p, f, w, q, fl, ret) ==
  /\ w = NoWrites /\ ~fl /\ q \in {"idle", "name", "hook", "body", "header", "run"}
       => Untouched(o, p, f)
  /\ q \in {"idle", "name", "hook", "body", "header"} \/ (ret /\ q = "run")
       => w = NoWrites /\ ~fl
  /\ q \in {"idle", "name", "hook"} => p.st = "off"

LEMMA AppendKinds ==
  ASSUME NEW f \in Seq(FrameKinds), NEW x \in FrameKinds
  PROVE  /\ Append(f, x) \in Seq(FrameKinds) /\ Kinds(Append(f, x)) = Kinds(f) \cup {x}
         /\ LastOnce(f) /\ (x \in {"error", "unexpected"} \/ "last" \notin Kinds(f))
              => LastOnce(Append(f, x))
<1> DEFINE g == Append(f, x)
<1>1. /\ g \in Seq(FrameKinds) /\ DOMAIN f = 1 .. Len(f) /\ DOMAIN g = 1 .. Len(f) + 1
      /\ Len(f) \in Nat /\ g[Len(f) + 1] = x /\ \A i \in 1 .. Len(f) : g[i] = f[i]
  OBVIOUS
<1> HIDE DEF g
<1>2. Kinds(g) = Kinds(f) \cup {x}
  <2>1. ASSUME NEW y \in Kinds(g) PROVE y \in Kinds(f) \cup {x}
    <3>1. PICK i \in 1 .. Len(f) + 1 : y = g[i]
      BY <1>1, <2>1 DEF Kinds
    <3>2. i = Len(f) + 1 \/ i \in 1 .. Len(f)
      BY <1>1
    <3> QED
      BY <1>1, <3>1, <3>2 DEF Kinds
  <2>2. ASSUME NEW y \in Kinds(f) PROVE y \in Kinds(g)
    <3>1. PICK i \in 1 .. Len(f) : y = f[i]
      BY <1>1 DEF Kinds
    <3>2. i \in 1 .. Len(f) + 1 /\ y = g[i]
      BY <1>1, <3>1
    <3> QED
      BY <1>1, <3>2 DEF Kinds
  <2>3. x \in Kinds(g)
    <3>1. Len(f) + 1 \in 1 .. Len(f) + 1
      BY <1>1
    <3> QED
      BY <1>1, <3>1 DEF Kinds
  <2> QED
    BY <2>1, <2>2, <2>3
<1>3. ASSUME LastOnce(f), x \in {"error", "unexpected"} \/ "last" \notin Kinds(f)
      PROVE  LastOnce(g)
  <2> SUFFICES ASSUME NEW i \in 1 .. Len(f) + 1, NEW j \in 1 .. Len(f) + 1, g[i] = "last", i < j
               PROVE  g[j] \in {"error", "unexpected"}
    BY <1>1 DEF LastOnce
  <2>1. i \in 1 .. Len(f) /\ f[i] = "last" /\ "last" \in Kinds(f)
    <3>1. i \in 1 .. Len(f)
      BY <1>1
    <3> QED
      BY <1>1, <3>1 DEF Kinds
  <2>2. CASE j = Len(f) + 1
    BY <1>1, <1>3, <2>1, <2>2
  <2>3. CASE j # Len(f) + 1
    <3>1. j \in 1 .. Len(f)
      BY <1>1, <2>3
    <3> QED
      BY <1>1, <1>3, <2>1, <3>1 DEF LastOnce
  <2> QED
    BY <2>2, <2>3
<1> QED
  BY <1>1, <1>2, <1>3 DEF g

\* An error frame is none of the response's.
LEMMA OutError ==
  ASSUME NEW o, NEW p, NEW f, NEW sn, NEW w, NEW cd, NEW q, NEW fl, NEW ret,
         NEW x \in {"error", "unexpected"}, f \in Seq(FrameKinds)
  PROVE  /\ CallOut(o, p, f, sn, w, cd, q, fl) => CallOut(o, p, Append(f, x), sn, w, cd, q, fl)
         /\ Fresh(o, p, f, w, q, fl, ret) => Fresh(o, p, Append(f, x), w, q, fl, ret)
<1> DEFINE g == Append(f, x)
<1>1. x \in FrameKinds
  BY DEF FrameKinds
<1>2. g \in Seq(FrameKinds) /\ Kinds(g) = Kinds(f) \cup {x} /\ (LastOnce(f) => LastOnce(g))
  BY <1>1, AppendKinds
<1> HIDE DEF g
<1>3. ("last" \in Kinds(g) <=> "last" \in Kinds(f)) /\ (Sent(g) <=> Sent(f))
  BY <1>2 DEF Sent
<1>4. ASSUME CallOut(o, p, f, sn, w, cd, q, fl) PROVE CallOut(o, p, g, sn, w, cd, q, fl)
  BY <1>2, <1>3, <1>4 DEF CallOut, ResponseTypes, Ending
<1>5. ASSUME Fresh(o, p, f, w, q, fl, ret) PROVE Fresh(o, p, g, w, q, fl, ret)
  BY <1>3, <1>5 DEF Fresh, Untouched
<1> QED
  BY <1>4, <1>5 DEF g

\* handle_call goes on, and does not end with an exception of the handler's own.
LEMMA OutPc ==
  ASSUME NEW o, NEW p, NEW f, NEW sn, NEW w, NEW cd, NEW q, NEW q2, NEW fl,
         CallOut(o, p, f, sn, w, cd, q, fl), q \notin {"ended", "other"}, q2 # "other"
  PROVE  CallOut(o, p, f, sn, w, cd, q2, fl)
  BY DEF CallOut, Ending

\* The code may be set until the first frame has been sent.
LEMMA OutCode ==
  ASSUME NEW o, NEW p, NEW f, NEW sn, NEW w, NEW cd, NEW q, NEW fl, NEW cd2 \in {OK, FAILED},
         CallOut(o, p, f, sn, w, cd, q, fl), ~Sent(f)
  PROVE  CallOut(o, p, f, sn, w, cd2, q, fl)
  BY DEF CallOut, ResponseTypes

LEMMA ConcatAppend ==
  ASSUME NEW b \in Seq(Nat), NEW x \in Nat
  PROVE  /\ Append(b, x) # <<>>
         /\ \A a \in Seq(Nat) : a \o Append(b, x) = Append(a \o b, x)
<1>1. Append(b, x) = b \o <<x>> /\ Append(b, x) # <<>> /\ <<x>> \in Seq(Nat)
  BY AppendIsConcat
<1>2. ASSUME NEW a \in Seq(Nat) PROVE a \o Append(b, x) = Append(a \o b, x)
  <2> DEFINE y == <<x>>
  <2>1. a \o b \in Seq(Nat) /\ Append(a \o b, x) = (a \o b) \o y
    BY AppendIsConcat
  <2>2. y \in Seq(Nat)
    BY <1>1
  <2> HIDE DEF y
  <2>3. (a \o b) \o y = a \o (b \o y)
    BY <2>2, ConcatAssociative
  <2> QED
    BY <1>1, <2>1, <2>3 DEF y
<1> QED
  BY <1>1, <1>2

LEMMA OutTold ==
  ASSUME NEW s \in Streams({"post"}), NEW t \in Streams({"post"}), NEW k, NEW p,
         OutStream(s, k, p), Told(s, t), Ready(t)
  PROVE  OutStream(t, k, p)
<1>1. CASE s.waiting = <<>>
  BY <1>1 DEF OutStream, Told
<1>2. CASE s.waiting # <<>>
  <2>1. s.waiting \in Seq({"post"}) /\ Len(s.waiting) <= 1
    BY DEF Streams, OutStream
  <2>2. Tail(s.waiting) = <<>>
    BY <1>2, <2>1
  <2>3. t.waiting = <<>> /\ Len(t.waiting) <= 1
    <3>1. t.waiting = Tail(s.waiting)
      BY <1>2 DEF Told
    <3>2. t.waiting = <<>>
      BY <2>2, <3>1
    <3>3. Len(<<>>) = 0
      OBVIOUS
    <3> QED
      BY <3>2, <3>3
  <2>4. p.st = "wait" /\ p.arg = k
    BY <1>2 DEF OutStream
  <2> QED
    BY <2>3, <2>4 DEF OutStream
<1> QED
  BY <1>1, <1>2

\* All streams are closed, or have failed.
LEMMA OutClosed ==
  ASSUME NEW o, NEW p, NEW f, NEW sn, NEW w, NEW cd, NEW q, NEW q2, NEW fl, NEW fl2,
         CallOut(o, p, f, sn, w, cd, q, fl), NEW o2 \in ResponseStreams,
         \A k \in Arg : Told(o[k], o2[k]) /\ o2[k].buf = o[k].buf /\ o2[k].done,
         Ending(o2, p, f, q2, fl2)
  PROVE  CallOut(o2, p, f, sn, w, cd, q2, fl2)
<1>1. ResponseTypes(o2, p, f, sn, w, cd) /\ o \in ResponseStreams
  BY DEF CallOut, ResponseTypes
<1>2. ASSUME NEW k \in Arg PROVE OutStream(o2[k], k, p)
  <2>1. o[k] \in Streams({"post"}) /\ o2[k] \in Streams({"post"}) /\ Ready(o2[k])
    BY <1>1 DEF ResponseStreams, Ready
  <2>2. OutStream(o[k], k, p) /\ Told(o[k], o2[k])
    BY DEF CallOut
  <2> QED
    BY <2>1, <2>2, OutTold
<1>3. ASSUME p.st \in Live PROVE Flow(o2, p, sn, w) /\ "last" \notin Kinds(f)
  <2>1. Flow(o, p, sn, w) /\ "last" \notin Kinds(f)
    BY <1>3 DEF CallOut
  <2>2. p.arg \in Arg
    BY <1>1 DEF ResponseTypes, PostRecords
  <2> QED
    BY <2>1, <2>2 DEF Flow
<1> QED
  BY <1>1, <1>2, <1>3 DEF CallOut

LEMMA OutCloseAll ==
  ASSUME NEW o, NEW p, NEW f, NEW sn, NEW w, NEW cd, NEW q, NEW q2, NEW fl, NEW fl2,
         CallOut(o, p, f, sn, w, cd, q, fl), q2 = "ended" \/ fl2 \/ p.st = "finished",
         fl => fl2, q = "ended" => q2 = "ended", q2 = "other" => q = "other"
  PROVE  CallOut(CloseArgStreams(o), p, f, sn, w, cd, q2, fl2)
<1> DEFINE o2 == CloseArgStreams(o)
<1>0. o \in [Arg -> Streams({"post"})]
  BY DEF CallOut, ResponseTypes, ResponseStreams
<1>1. \A k \in Arg : /\ CloseStream(o[k]) \in Streams({"post"}) /\ Told(o[k], CloseStream(o[k]))
                     /\ CloseStream(o[k]).buf = o[k].buf /\ CloseStream(o[k]).done = TRUE
                     /\ CloseStream(o[k]).exc = o[k].exc
  BY <1>0, CloseFacts
<1>2. /\ o2 \in ResponseStreams
      /\ \A k \in Arg : /\ Told(o[k], o2[k]) /\ o2[k].buf = o[k].buf /\ o2[k].done
                        /\ o2[k].exc = o[k].exc
  BY <1>1 DEF CloseArgStreams, ResponseStreams
<1> HIDE DEF o2
<1>3. Ending(o2, p, f, q2, fl2)
  BY <1>2 DEF Ending, CallOut
<1> QED
  BY <1>2, <1>3, OutClosed DEF o2

LEMMA OutFailAll ==
  ASSUME NEW o, NEW p, NEW f, NEW sn, NEW w, NEW cd, NEW q, NEW fl,
         CallOut(o, p, f, sn, w, cd, q, fl), q # "ended"
  PROVE  CallOut(FailArgStreams(o), p, f, sn, w, cd, "other", fl)
<1> DEFINE o1 == [k \in Arg |-> SetException(o[k])]
           o2 == FailArgStreams(o)
<1>0. o \in [Arg -> Streams({"post"})]
  BY DEF CallOut, ResponseTypes, ResponseStreams
<1>1. \A k \in Arg :
        /\ SetException(o[k]) \in Streams({"post"}) /\ Told(o[k], SetException(o[k]))
        /\ SetException(o[k]).buf = o[k].buf /\ SetException(o[k]).done = TRUE
        /\ SetException(o[k]).exc = TRUE
  BY <1>0, FailFacts
<1>2. /\ o1 \in ResponseStreams
      /\ \A k \in Arg : /\ Told(o[k], o1[k]) /\ o1[k].buf = o[k].buf /\ o1[k].done
                        /\ o1[k].exc = TRUE
  BY <1>1 DEF ResponseStreams
<1> HIDE DEF o1
<1>3. CallOut(o1, p, f, sn, w, cd, "other", fl)
  <2>1. Ending(o1, p, f, "other", fl)
    BY <1>2 DEF Ending, CallOut
  <2> QED
    BY <1>2, <2>1, OutClosed
<1>4. \A k \in Arg : /\ CloseStream(o1[k]) \in Streams({"post"}) /\ Told(o1[k], CloseStream(o1[k]))
                     /\ CloseStream(o1[k]).buf = o1[k].buf /\ CloseStream(o1[k]).done = TRUE
                     /\ CloseStream(o1[k]).exc = o1[k].exc
  BY <1>2, CloseFacts DEF ResponseStreams
<1>5. o2 = [k \in Arg |-> CloseStream(o1[k])]
  BY DEF FailArgStreams, o1
<1>6. /\ o2 \in ResponseStreams
      /\ \A k \in Arg : /\ Told(o1[k], o2[k]) /\ o2[k].buf = o1[k].buf /\ o2[k].done
                        /\ o2[k].exc = TRUE
  BY <1>2, <1>4, <1>5 DEF ResponseStreams
<1> HIDE DEF o2
<1>7. Ending(o2, p, f, "other", fl)
  BY <1>3, <1>6 DEF Ending, CallOut
<1> QED
  BY <1>3, <1>6, <1>7, OutClosed DEF o2

\* A chunk is written to the header or the body.
LEMMA OutWrite ==
  ASSUME NEW o, NEW p, NEW f, NEW sn, NEW w, NEW cd, NEW q, NEW fl,
         CallOut(o, p, f, sn, w, cd, q, fl), NEW k \in {2, 3}, ~o[k].done
  PROVE  /\ CallOut(WriteArg(o, k, w[k] + 1), p, f, sn, [w EXCEPT ![k] = @ + 1], cd, q, fl)
         /\ CallOut(WriteArg(o, k, Empty), p, f, sn, w, cd, q, fl)
<1>0. /\ o \in [Arg -> Streams({"post"})] /\ w \in [Arg -> Nat] /\ k \in Arg /\ p.arg \in Arg
      /\ sn \in SeenRecords /\ p \in PostRecords
  BY DEF CallOut, ResponseTypes, ResponseStreams, Arg, PostRecords
<1>1. "last" \notin Kinds(f)
  BY <1>0 DEF CallOut
<1>2. ASSUME NEW t \in Streams({"post"}), (Told(o[k], t) /\ Ready(t)) \/ t = o[k],
             t.done = o[k].done, t.exc = o[k].exc,
             NEW u \in [Arg -> Nat], \A j \in Arg : j # k => u[j] = w[j],
             NEW o2, o2 = [j \in Arg |-> IF j = k THEN t
                                         ELSE IF j < k THEN CloseIfOpen(o[j]) ELSE o[j]],
             \A a \in Seq(Nat) : a \o o[k].buf = Upto(w[k]) => a \o t.buf = Upto(u[k])
      PROVE  CallOut(o2, p, f, sn, u, cd, q, fl)
  <2>1. \A j \in Arg :
          /\ CloseIfOpen(o[j]) \in Streams({"post"})
          /\ (Told(o[j], CloseIfOpen(o[j])) /\ Ready(CloseIfOpen(o[j]))) \/ CloseIfOpen(o[j]) = o[j]
          /\ CloseIfOpen(o[j]).buf = o[j].buf /\ CloseIfOpen(o[j]).done
          /\ CloseIfOpen(o[j]).exc = o[j].exc
    <3> SUFFICES ASSUME NEW j \in Arg
                 PROVE  /\ CloseIfOpen(o[j]) \in Streams({"post"})
                        /\ \/ Told(o[j], CloseIfOpen(o[j])) /\ Ready(CloseIfOpen(o[j]))
                           \/ CloseIfOpen(o[j]) = o[j]
                        /\ CloseIfOpen(o[j]).buf = o[j].buf /\ CloseIfOpen(o[j]).done
                        /\ CloseIfOpen(o[j]).exc = o[j].exc
      OBVIOUS
    <3>1. o[j] \in Streams({"post"})
      BY <1>0
    <3>2. CASE o[j].done
      BY <3>1, <3>2 DEF CloseIfOpen
    <3>3. CASE ~o[j].done
      BY <3>1, <3>3, CloseFacts DEF CloseIfOpen, Ready
    <3> QED
      BY <3>2, <3>3
  <2>2. /\ o2 \in ResponseStreams /\ o2[k] = t
        /\ \A j \in Arg : j # k => /\ o2[j].buf = o[j].buf /\ o2[j].exc = o[j].exc
                                   /\ o[j].done => o2[j].done
        /\ \A j \in Arg : (Told(o[j], o2[j]) /\ Ready(o2[j])) \/ o2[j] = o[j]
    BY <1>0, <1>2, <2>1 DEF ResponseStreams
  <2>3. o2[3].done => o[3].done
    BY <1>0, <1>2 DEF Arg
  <2> HIDE DEF CloseIfOpen
  <2>4. ASSUME NEW j \in Arg PROVE OutStream(o2[j], j, p)
    <3>1. o[j] \in Streams({"post"}) /\ o2[j] \in Streams({"post"}) /\ OutStream(o[j], j, p)
      BY <1>0, <2>2 DEF ResponseStreams, CallOut
    <3> QED
      BY <2>2, <3>1, OutTold
  <2>5. ASSUME p.st \in Live PROVE Flow(o2, p, sn, u)
    <3>1. Flow(o, p, sn, w)
      BY <2>5 DEF CallOut
    <3>2. ASSUME NEW j \in Arg PROVE (sn.args[j] \o Held(p, sn.at, j)) \o o2[j].buf = Upto(u[j])
      <4> DEFINE a == sn.args[j] \o Held(p, sn.at, j)
      <4>1. a \o o[j].buf = Upto(w[j])
        BY <3>1 DEF Flow
      <4>2. a \in Seq(Nat)
        <5>1. sn.args[j] \in Seq(Nat) /\ p.args \in Seq(Seq(Nat)) /\ p.hand \in Seq(Nat)
          BY <1>0 DEF SeenRecords, PostRecords
        <5>2. InFrame(p.args, j - sn.at + 1) \in Seq(Nat)
          BY <5>1 DEF InFrame
        <5> HIDE DEF InFrame
        <5>3. Held(p, sn.at, j) \in Seq(Nat)
          BY <5>1, <5>2 DEF Held
        <5> HIDE DEF Held
        <5> QED
          BY <5>1, <5>3
      <4> HIDE DEF a
      <4>3. CASE j = k
        BY <1>2, <2>2, <4>1, <4>2, <4>3 DEF a
      <4>4. CASE j # k
        BY <1>2, <2>2, <4>1, <4>4 DEF a
      <4> QED
        BY <4>3, <4>4
    <3>3. \A j \in Arg : o[j].done => j # k
      OBVIOUS
    <3>4. \A j \in Arg : o[j].done /\ o[j].buf = <<>> => o2[j].done /\ o2[j].buf = <<>>
      BY <2>2, <3>3
    <3> QED
      BY <1>0, <3>1, <3>2, <3>4 DEF Flow
  <2>6. \A j \in Arg : o2[j].exc = o[j].exc
    BY <1>2, <2>2
  <2>7. Ending(o2, p, f, q, fl)
    BY <2>3, <2>6 DEF Ending, CallOut
  <2>8. ResponseTypes(o2, p, f, sn, u, cd)
    BY <2>2 DEF CallOut, ResponseTypes
  <2> QED
    BY <1>1, <2>4, <2>5, <2>7, <2>8 DEF CallOut
<1>3. CallOut(WriteArg(o, k, w[k] + 1), p, f, sn, [w EXCEPT ![k] = @ + 1], cd, q, fl)
  <2> DEFINE t == Write(o[k], w[k] + 1)
             u == [w EXCEPT ![k] = @ + 1]
             o2 == WriteArg(o, k, w[k] + 1)
  <2>1. o[k] \in Streams({"post"}) /\ w[k] + 1 \in Nat \ {0} /\ w[k] \in Nat /\ o[k].buf \in Seq(Nat)
    BY <1>0 DEF Streams
  <2>2. /\ t \in Streams({"post"}) /\ Told(o[k], t) /\ t.done = o[k].done /\ t.exc = o[k].exc
        /\ t.buf = Append(o[k].buf, w[k] + 1)
    BY <2>1, WriteFacts
  <2>3. u \in [Arg -> Nat] /\ u[k] = w[k] + 1 /\ \A j \in Arg : j # k => u[j] = w[j]
    BY <1>0
  <2>4. o2 = [j \in Arg |-> IF j = k THEN t ELSE IF j < k THEN CloseIfOpen(o[j]) ELSE o[j]]
    BY DEF WriteArg
  <2>5. t.buf # <<>> /\ \A a \in Seq(Nat) : a \o t.buf = Append(a \o o[k].buf, w[k] + 1)
    BY <2>1, <2>2, ConcatAppend, ZenonT(30)
  <2>6. \A a \in Seq(Nat) : a \o o[k].buf = Upto(w[k]) => a \o t.buf = Upto(u[k])
    <3>1. Append(Upto(w[k]), w[k] + 1) = Upto(w[k] + 1)
      BY <2>1, UptoFacts
    <3> HIDE DEF t, u
    <3> QED
      BY <2>3, <2>5, <3>1
  <2>7. Ready(t)
    BY <2>5 DEF Ready
  <2> HIDE DEF t, u, o2
  <2>8. CallOut(o2, p, f, sn, u, cd, q, fl)
    BY <1>2, <2>2, <2>3, <2>4, <2>6, <2>7
  <2> QED
    BY <2>8 DEF u, o2
<1>4. CallOut(WriteArg(o, k, Empty), p, f, sn, w, cd, q, fl)
  <2> DEFINE o2 == WriteArg(o, k, Empty)
  <2>1. \A j \in Arg : Write(o[j], Empty) = o[j]
    BY DEF Write
  <2>2. o2 = [j \in Arg |-> IF j = k THEN o[k] ELSE IF j < k THEN CloseIfOpen(o[j]) ELSE o[j]]
    BY <1>0, <2>1 DEF WriteArg
  <2>3. o[k] \in Streams({"post"})
    BY <1>0
  <2> HIDE DEF o2
  <2>4. CallOut(o2, p, f, sn, w, cd, q, fl)
    BY <1>0, <1>2, <2>2, <2>3
  <2> QED
    BY <2>4 DEF o2
<1> QED
  BY <1>3, <1>4

\* _stream goes on without an answer to a read.
LEMMA OutMoves ==
  ASSUME NEW o, NEW p, NEW f, NEW sn, NEW w, NEW cd, NEW q, NEW fl,
         CallOut(o, p, f, sn, w, cd, q, fl), NEW x \in {"go", "done", "stopped", "finished"},
         p.st \notin {"wait", "finished"}, x = "go" => p.st \in {"off", "write"}
  PROVE  CallOut(o, [p EXCEPT !.st = x], f, sn, w, cd, q, fl)
<1> DEFINE p2 == [p EXCEPT !.st = x]
<1>1. p \in PostRecords
  BY DEF CallOut, ResponseTypes
<1>2. /\ p2 \in PostRecords /\ p2.arg = p.arg /\ p2.first = p.first /\ p2.args = p.args
      /\ p2.hand = p.hand /\ p2.st = x
  BY <1>1 DEF PostRecords, PostStates, ReaderStates
<1> HIDE DEF p2
<1>3. \A k \in Arg : OutStream(o[k], k, p2)
  BY DEF CallOut, OutStream
<1>4. ASSUME p2.st \in Live PROVE Flow(o, p2, sn, w) /\ "last" \notin Kinds(f)
  <2>1. p.st \in {"off", "write"}
    BY <1>2, <1>4 DEF Live
  <2>2. Flow(o, p, sn, w) /\ "last" \notin Kinds(f)
    BY <2>1 DEF CallOut, Live
  <2>3. p.hand = <<>> /\ p2.st # "end"
    BY <1>2, <2>1, <2>2 DEF Flow
  <2>4. \A k \in Arg : Held(p2, sn.at, k) = Held(p, sn.at, k)
    BY <1>2 DEF Held
  <2> QED
    BY <1>2, <2>2, <2>3, <2>4 DEF Flow
<1>5. Ending(o, p2, f, q, fl)
  BY <1>2 DEF CallOut, Ending
<1>6. ResponseTypes(o, p2, f, sn, w, cd)
  BY <1>2 DEF CallOut, ResponseTypes
<1> QED
  BY <1>3, <1>4, <1>5, <1>6 DEF CallOut, p2

LEMMA HeldType ==
  ASSUME NEW p \in PostRecords, NEW sn \in SeenRecords, NEW k \in Arg
  PROVE  /\ InFrame(p.args, k - sn.at + 1) \in Seq(Nat) /\ sn.args[k] \in Seq(Nat)
         /\ Held(p, sn.at, k) \in Seq(Nat)
<1>1. sn.args[k] \in Seq(Nat) /\ p.args \in Seq(Seq(Nat)) /\ p.hand \in Seq(Nat)
  BY DEF SeenRecords, PostRecords
<1>2. InFrame(p.args, k - sn.at + 1) \in Seq(Nat)
  BY <1>1 DEF InFrame
<1> HIDE DEF InFrame
<1>3. Held(p, sn.at, k) \in Seq(Nat)
  BY <1>1, <1>2 DEF Held
<1> QED
  BY <1>1, <1>2, <1>3

LEMMA Assoc ==
  ASSUME NEW a \in Seq(Nat), NEW b \in Seq(Nat), NEW c \in Seq(Nat)
  PROVE  (a \o b) \o c = a \o (b \o c) /\ a \o b \in Seq(Nat)
<1>1. a \in Seq(Nat) /\ b \in Seq(Nat) /\ c \in Seq(Nat)
  OBVIOUS
<1> QED
  BY <1>1, ConcatAssociative

LEMMA Cat ==
  ASSUME NEW a \in Seq(Nat)
  PROVE  a \o <<>> = a /\ <<>> \o a = a
  OBVIOUS

LEMMA PostRest ==
  ASSUME NEW s \in Streams({"post"}), NEW t, t = Rest(s, "post")
  PROVE  /\ t \in Streams({"post"}) /\ Chunks(s) \in Seq(Nat)
         /\ ~s.exc => Chunks(s) \o t.buf = s.buf
         /\ s.exc => t.buf = s.buf
         /\ s.buf = <<>> => Chunks(s) = <<>> /\ t.buf = <<>>
         /\ t.done = s.done /\ t.exc = s.exc
         /\ t.waiting = s.waiting /\ t.woken = s.woken \ {"post"}
<1> DEFINE R == {"post"}
           r == "post"
<1>1. r \in R /\ s \in Streams(R)
  OBVIOUS
<1>2. t = Rest(s, r)
  OBVIOUS
<1> HIDE DEF R, r
<1>3. Rest(s, r) \in Streams(R) /\ Chunks(s) \in Seq(Nat)
  BY <1>1, RestFacts
<1>4. ~s.exc => Chunks(s) \o Rest(s, r).buf = s.buf
  BY <1>1, RestFacts
<1>5. s.exc => Rest(s, r).buf = s.buf
  BY <1>1, RestFacts
<1>6. s.buf = <<>> => Chunks(s) = <<>> /\ Rest(s, r).buf = <<>>
  BY <1>1, RestFacts
<1>7. Rest(s, r).done = s.done /\ Rest(s, r).exc = s.exc
  BY <1>1, RestFacts
<1>8. Rest(s, r).waiting = s.waiting /\ Rest(s, r).woken = s.woken \ {r}
  BY <1>1, RestFacts
<1> QED
  BY <1>2, <1>3, <1>4, <1>5, <1>6, <1>7, <1>8 DEF R, r

\* read_chunk gives _stream what is there.
LEMMA OutRead ==
  ASSUME NEW o, NEW p, NEW f, NEW sn, NEW w, NEW cd, NEW q, NEW fl, NEW s,
         CallOut(o, p, f, sn, w, cd, q, fl), s = o[p.arg],
         (p.st = "go" /\ Ready(s)) \/ (p.st = "wait" /\ "post" \in s.woken)
  PROVE  CallOut([o EXCEPT ![p.arg] = Rest(s, "post")],
                 [p EXCEPT !.st = ReadResult(s), !.hand = IF s.exc THEN <<>> ELSE Chunks(s)],
                 f, sn, w, cd, q, fl)
<1> DEFINE k == p.arg
           t == Rest(s, "post")
           h == IF s.exc THEN <<>> ELSE Chunks(s)
           o2 == [o EXCEPT ![k] = t]
           p2 == [p EXCEPT !.st = ReadResult(s), !.hand = h]
<1>0. /\ o \in [Arg -> Streams({"post"})] /\ p \in PostRecords /\ sn \in SeenRecords
      /\ \A j \in Arg : OutStream(o[j], j, p)
  BY DEF CallOut, ResponseTypes, ResponseStreams
<1>1. k \in Arg /\ s \in Streams({"post"}) /\ OutStream(s, k, p)
  BY <1>0 DEF PostRecords
<1>2. /\ t \in Streams({"post"}) /\ Chunks(s) \in Seq(Nat)
      /\ ~s.exc => Chunks(s) \o t.buf = s.buf
      /\ s.exc => t.buf = s.buf
      /\ s.buf = <<>> => Chunks(s) = <<>> /\ t.buf = <<>>
      /\ t.done = s.done /\ t.exc = s.exc
      /\ t.waiting = s.waiting /\ t.woken = s.woken \ {"post"}
  BY <1>1, PostRest
<1>3. Flow(o, p, sn, w) /\ "last" \notin Kinds(f) /\ p.hand = <<>>
  <2>1. p.st \in Live /\ p.st # "more"
    BY DEF Live
  <2> QED
    BY <2>1 DEF CallOut, Flow
<1>4. s.woken \subseteq {"post"} /\ s.buf \in Seq(Nat) /\ t.buf \in Seq(Nat)
  BY <1>1, <1>2 DEF Streams
<1>5. Ready(s) /\ s.waiting = <<>>
  <2>1. Ready(s)
    BY <1>1 DEF OutStream
  <2> QED
    BY <1>1, <2>1 DEF OutStream
<1>6. h \in Seq(Nat) /\ ReadResult(s) \in {"more", "end", "failed"}
  BY <1>2 DEF ReadResult
<1> HIDE DEF t, h
<1>7. /\ p2 \in PostRecords /\ p2.arg = k /\ p2.first = p.first /\ p2.args = p.args
      /\ p2.hand = h /\ p2.st = ReadResult(s)
  <2>1. ReadResult(s) \in PostStates
    BY <1>6 DEF PostStates, ReaderStates
  <2> HIDE DEF ReadResult
  <2> QED
    BY <1>0, <1>6, <2>1 DEF PostRecords
<1>8. o2 \in ResponseStreams /\ o2[k] = t /\ \A j \in Arg : j # k => o2[j] = o[j]
  BY <1>0, <1>1, <1>2 DEF ResponseStreams
<1>9. k = p2.arg /\ k = p.arg
  BY <1>7
<1> HIDE DEF o2, p2, k
<1>10. ASSUME NEW j \in Arg PROVE OutStream(o2[j], j, p2)
  <2>1. CASE j = k
    <3>1. t.waiting = <<>> /\ t.woken = {} /\ Len(t.waiting) <= 1
      BY <1>2, <1>4, <1>5
    <3> QED
      BY <1>8, <2>1, <3>1 DEF OutStream
  <2>2. CASE j # k
    <3>1. OutStream(o[j], j, p) /\ o2[j] = o[j] /\ p.arg # j
      BY <1>0, <1>8, <1>9, <2>2
    <3> QED
      BY <3>1 DEF OutStream
  <2> QED
    BY <2>1, <2>2
<1>11. ASSUME NEW j \in Arg PROVE (sn.args[j] \o Held(p2, sn.at, j)) \o o2[j].buf = Upto(w[j])
  <2> DEFINE a == sn.args[j]
             b == InFrame(p.args, j - sn.at + 1)
  <2>1. a \in Seq(Nat) /\ b \in Seq(Nat)
    BY <1>0, HeldType
  <2>2. (a \o Held(p, sn.at, j)) \o o[j].buf = Upto(w[j])
    BY <1>3 DEF Flow
  <2>3. Held(p, sn.at, j) = b \o <<>>
    BY <1>3 DEF Held
  <2>4. Held(p2, sn.at, j) = b \o (IF j = k THEN h ELSE <<>>)
    BY <1>7 DEF Held
  <2> HIDE DEF a, b
  <2>5. CASE j # k
    BY <1>8, <2>2, <2>3, <2>4, <2>5 DEF a
  <2>6. CASE j = k
    <3>1. (a \o (b \o <<>>)) \o s.buf = Upto(w[j])
      BY <1>9, <2>2, <2>3, <2>6
    <3>3. (a \o (b \o <<>>)) \o s.buf = (a \o b) \o (<<>> \o s.buf)
      BY <1>4, <2>1, Cat
    <3>4. (a \o (b \o h)) \o t.buf = (a \o b) \o (h \o t.buf)
      <4> DEFINE g == t.buf
      <4>1. g \in Seq(Nat) /\ h \in Seq(Nat)
        BY <1>4, <1>6
      <4> HIDE DEF g
      <4>2. (a \o (b \o h)) \o g = (a \o b) \o (h \o g)
        <5> DEFINE e == a \o b
                   v == b \o h
        <5>1. a \o v = e \o h /\ e \in Seq(Nat)
          BY <2>1, <4>1, Assoc, Zenon
        <5> HIDE DEF e
        <5>2. (e \o h) \o g = e \o (h \o g)
          BY <4>1, <5>1, Assoc, Zenon
        <5> QED
          BY <5>1, <5>2 DEF e
      <4> QED
        BY <4>2 DEF g
    <3>5. h \o t.buf = <<>> \o s.buf
      <4>1. <<>> \o s.buf = s.buf /\ <<>> \o t.buf = t.buf
        BY <1>4, Cat
      <4>2. CASE s.exc
        BY <1>2, <4>1, <4>2 DEF h
      <4>3. CASE ~s.exc
        BY <1>2, <4>1, <4>3 DEF h
      <4> QED
        BY <4>2, <4>3
    <3> QED
      BY <1>8, <2>4, <2>6, <3>1, <3>3, <3>4, <3>5 DEF a
  <2> QED
    BY <2>5, <2>6
<1>12. Flow(o2, p2, sn, w)
  <2>1. p2.st # "more" => p2.hand = <<>>
    BY <1>2, <1>7 DEF ReadResult, h
  <2>2. p2.st = "end" => o2[p2.arg].done /\ o2[p2.arg].buf = <<>>
    BY <1>2, <1>5, <1>7, <1>8, <1>9 DEF ReadResult, Ready
  <2>3. \A j \in Arg : j < p2.arg => o2[j].done /\ o2[j].buf = <<>>
    <3>1. \A j \in Arg : j < p.arg => o[j].done /\ o[j].buf = <<>>
      BY <1>3 DEF Flow
    <3>2. \A j \in Arg : j < p.arg => j # k
      BY <1>1, <1>9 DEF Arg
    <3> QED
      BY <1>8, <1>9, <3>1, <3>2
  <2>4. sn.at + Len(p2.args) = p2.arg + (IF p2.first THEN 0 ELSE 1)
    BY <1>3, <1>7, <1>9 DEF Flow
  <2> QED
    BY <1>11, <2>1, <2>2, <2>3, <2>4 DEF Flow
<1>13. Ending(o2, p2, f, q, fl)
  <2>1. \A j \in Arg : o2[j].done = o[j].done /\ o2[j].exc = o[j].exc
    BY <1>2, <1>8, <1>9
  <2>2. 3 \in Arg /\ p.st # "finished" /\ Ending(o, p, f, q, fl)
    BY DEF Arg, CallOut
  <2>3. ASSUME p2.st = "end", p2.arg = 3 PROVE fl \/ q = "ended"
    <3>1. s = o[3] /\ s.done /\ ~s.exc
      BY <1>5, <1>7, <1>9, <2>3 DEF ReadResult, Ready
    <3> QED
      BY <2>2, <3>1 DEF Ending
  <2> QED
    BY <1>3, <2>1, <2>2, <2>3 DEF Ending
<1>14. ResponseTypes(o2, p2, f, sn, w, cd)
  BY <1>7, <1>8 DEF CallOut, ResponseTypes
<1> QED
  BY <1>3, <1>10, <1>12, <1>13, <1>14 DEF CallOut, o2, p2, t, h, k

LEMMA OutWaits ==
  ASSUME NEW o, NEW p, NEW f, NEW sn, NEW w, NEW cd, NEW q, NEW fl,
         CallOut(o, p, f, sn, w, cd, q, fl), p.st = "go", ~Ready(o[p.arg])
  PROVE  CallOut([o EXCEPT ![p.arg] = Wait(@, "post")], [p EXCEPT !.st = "wait"],
                 f, sn, w, cd, q, fl)
<1> DEFINE k == p.arg
           s == o[k]
           t == Wait(s, "post")
           o2 == [o EXCEPT ![k] = Wait(@, "post")]
           p2 == [p EXCEPT !.st = "wait"]
<1>0. /\ o \in [Arg -> Streams({"post"})] /\ p \in PostRecords /\ sn \in SeenRecords
      /\ \A j \in Arg : OutStream(o[j], j, p)
  BY DEF CallOut, ResponseTypes, ResponseStreams
<1>1. k \in Arg /\ s \in Streams({"post"}) /\ OutStream(s, k, p)
  BY <1>0 DEF PostRecords
<1>2. /\ t \in Streams({"post"}) /\ t.buf = s.buf /\ t.done = s.done /\ t.exc = s.exc
      /\ t.waiting = Append(s.waiting, "post") /\ t.woken = s.woken
  <2>1. "post" \in {"post"}
    OBVIOUS
  <2> QED
    BY <1>1, <2>1, WaitFacts
<1>3. Flow(o, p, sn, w) /\ "last" \notin Kinds(f)
  BY DEF CallOut, Live
<1>4. \A j \in Arg : o[j].waiting = <<>> /\ o[j].woken = {}
  BY <1>0 DEF OutStream
<1> HIDE DEF t
<1>5. /\ p2 \in PostRecords /\ p2.arg = k /\ p2.first = p.first /\ p2.args = p.args
      /\ p2.hand = p.hand /\ p2.st = "wait"
  BY <1>0 DEF PostRecords, PostStates, ReaderStates
<1>6. o2 \in ResponseStreams /\ o2[k] = t /\ \A j \in Arg : j # k => o2[j] = o[j]
  BY <1>0, <1>1, <1>2 DEF ResponseStreams, t
<1> HIDE DEF o2, p2
<1>7. ASSUME NEW j \in Arg PROVE OutStream(o2[j], j, p2)
  <2>1. CASE j = k
    <3>1. t.waiting = <<"post">> /\ t.woken = {}
      <4>1. s.waiting = <<>> /\ s.woken = {}
        BY <1>1, <1>4
      <4>2. Append(<<>>, "post") = <<"post">>
        OBVIOUS
      <4> QED
        BY <1>2, <4>1, <4>2
    <3>2. Len(<<"post">>) <= 1 /\ ~Ready(t)
      BY <1>2 DEF Ready
    <3> QED
      BY <1>5, <1>6, <2>1, <3>1, <3>2 DEF OutStream
  <2>2. CASE j # k
    <3>1. o2[j] = o[j] /\ OutStream(o[j], j, p) /\ o[j].waiting = <<>> /\ o[j].woken = {}
      BY <1>0, <1>4, <1>6, <2>2
    <3> QED
      BY <3>1 DEF OutStream
  <2> QED
    BY <2>1, <2>2
<1>8. \A j \in Arg : o2[j].buf = o[j].buf /\ o2[j].done = o[j].done /\ o2[j].exc = o[j].exc
  BY <1>2, <1>6
<1>9. Flow(o2, p2, sn, w)
  <2>1. \A j : Held(p2, sn.at, j) = Held(p, sn.at, j)
    BY <1>5 DEF Held
  <2>2. p.hand = <<>> /\ p2.st # "end"
    BY <1>3, <1>5 DEF Flow
  <2> QED
    BY <1>3, <1>5, <1>8, <2>1, <2>2 DEF Flow
<1>10. Ending(o2, p2, f, q, fl)
  <2>1. 3 \in Arg /\ Ending(o, p, f, q, fl)
    BY DEF Arg, CallOut
  <2> QED
    BY <1>5, <1>8, <2>1 DEF Ending
<1>11. ResponseTypes(o2, p2, f, sn, w, cd)
  BY <1>5, <1>6 DEF CallOut, ResponseTypes
<1> QED
  BY <1>3, <1>7, <1>9, <1>10, <1>11 DEF CallOut, o2, p2

-----------------------------------------------------------------------------
(* What _stream does with the answer to a read.                            *)

\* What PutResponse makes of seen[c].
PutSeen(sn, f, cd, args) ==
  [at |-> sn.at + Len(args) - 1,
   args |-> [k \in Arg |-> IF k - sn.at + 1 \in DOMAIN args
                           THEN sn.args[k] \o args[k - sn.at + 1] ELSE sn.args[k]],
   code |-> IF \E i \in DOMAIN f : f[i] = "part" THEN sn.code ELSE cd]

\* The caller has the frame that p holds as well.
AddedTo(s2, sn, p, cd) ==
  /\ s2 \in SeenRecords /\ s2.at = p.arg /\ s2.code = cd
  /\ \A k \in Arg : s2.args[k] = sn.args[k] \o InFrame(p.args, k - sn.at + 1)

LEMMA SeenFacts ==
  ASSUME NEW p \in PostRecords, NEW sn \in SeenRecords, NEW f, NEW cd \in {OK, FAILED},
         sn.at + Len(p.args) = p.arg + 1, Sent(f) => sn.code = cd,
         NEW s2, s2 = PutSeen(sn, f, cd, p.args)
  PROVE  AddedTo(s2, sn, p, cd)
<1>3. sn.at + Len(p.args) - 1 = p.arg /\ p.arg \in Arg
  <2>2. sn.at \in Nat /\ p.arg \in Arg /\ p.arg \in Nat /\ p.args \in Seq(Seq(Nat))
    BY DEF SeenRecords, PostRecords, Arg
  <2>3. Len(p.args) \in Nat
    BY <2>2
  <2> DEFINE x == sn.at
             y == Len(p.args)
             z == p.arg
  <2>4. x \in Nat /\ y \in Nat /\ z \in Nat /\ x + y = z + 1
    BY <2>2, <2>3
  <2> HIDE DEF x, y, z
  <2>5. x + y - 1 = z
    BY <2>4
  <2> QED
    BY <2>2, <2>5 DEF x, y, z
<1>4. s2.at = p.arg
  BY <1>3 DEF PutSeen
<1>5. s2.code = cd
  <2>1. CASE \E i \in DOMAIN f : f[i] = "part"
    <3>1. Sent(f)
      BY <2>1 DEF Sent, Kinds
    <3> QED
      BY <2>1, <3>1 DEF PutSeen
  <2>2. CASE ~ \E i \in DOMAIN f : f[i] = "part"
    BY <2>2 DEF PutSeen
  <2> QED
    BY <2>1, <2>2
<1>6. ASSUME NEW k \in Arg
      PROVE  /\ s2.args[k] = sn.args[k] \o InFrame(p.args, k - sn.at + 1)
             /\ s2.args[k] \in Seq(Nat)
  <2>1. sn.args[k] \in Seq(Nat) /\ InFrame(p.args, k - sn.at + 1) \in Seq(Nat)
    BY HeldType
  <2>2. s2.args[k] = IF k - sn.at + 1 \in DOMAIN p.args
                     THEN sn.args[k] \o p.args[k - sn.at + 1] ELSE sn.args[k]
    BY DEF PutSeen
  <2>3. s2.args[k] = sn.args[k] \o InFrame(p.args, k - sn.at + 1)
    <3>1. sn.args[k] \o <<>> = sn.args[k]
      BY <2>1, Cat
    <3>2. CASE k - sn.at + 1 \in DOMAIN p.args
      BY <2>2, <3>2 DEF InFrame
    <3>3. CASE k - sn.at + 1 \notin DOMAIN p.args
      BY <2>2, <3>1, <3>3 DEF InFrame
    <3> QED
      BY <3>2, <3>3
  <2> HIDE DEF InFrame
  <2> QED
    BY <2>1, <2>3
<1>7. s2.args = [k \in Arg |-> s2.args[k]]
  BY DEF PutSeen
<1>8. s2 = [at |-> s2.at, args |-> s2.args, code |-> s2.code]
  BY DEF PutSeen
<1>9. s2.args \in [Arg -> Seq(Nat)]
  BY <1>6, <1>7
<1>10. s2 \in SeenRecords
  BY <1>3, <1>4, <1>5, <1>8, <1>9 DEF SeenRecords
<1> QED
  BY <1>4, <1>5, <1>6, <1>10 DEF AddedTo

\* The first chunk of an argument joins the frame.
LEMMA OutJoins ==
  ASSUME NEW o, NEW p, NEW f, NEW sn, NEW w, NEW cd, NEW q, NEW fl,
         CallOut(o, p, f, sn, w, cd, q, fl), p.st \in {"more", "end"}, p.first
  PROVE  CallOut(o, [p EXCEPT !.args = Append(@, p.hand), !.first = FALSE, !.st = "go",
                              !.hand = <<>>], f, sn, w, cd, q, fl)
<1> DEFINE p2 == [p EXCEPT !.args = Append(@, p.hand), !.first = FALSE, !.st = "go",
                           !.hand = <<>>]
<1>1. p \in PostRecords /\ sn \in SeenRecords
  BY DEF CallOut, ResponseTypes
<1>2. Flow(o, p, sn, w) /\ "last" \notin Kinds(f)
  BY DEF CallOut, Live
<1>3. /\ p.args \in Seq(Seq(Nat)) /\ p.hand \in Seq(Nat) /\ p.arg \in Nat /\ p.arg \in Arg
      /\ sn.at \in Nat
  BY <1>1 DEF PostRecords, SeenRecords, Arg
<1>4. sn.at + Len(p.args) = p.arg
  <2>1. sn.at + Len(p.args) = p.arg + 0
    BY <1>2 DEF Flow
  <2> QED
    BY <1>3, <2>1
<1> DEFINE A == Append(p.args, p.hand)
<1>5. /\ A \in Seq(Seq(Nat)) /\ Len(A) = Len(p.args) + 1 /\ A[Len(p.args) + 1] = p.hand
      /\ DOMAIN A = 1 .. Len(p.args) + 1 /\ DOMAIN p.args = 1 .. Len(p.args)
      /\ \A i \in 1 .. Len(p.args) : A[i] = p.args[i]
      /\ Len(p.args) \in Nat
  BY <1>3
<1> HIDE DEF A
<1>6. p2 \in PostRecords /\ p2.arg = p.arg /\ p2.first = FALSE /\ p2.st = "go" /\ p2.hand = <<>>
      /\ p2.args = A
  <2>1. p2 = [p EXCEPT !.args = A, !.first = FALSE, !.st = "go", !.hand = <<>>]
    BY DEF A
  <2> HIDE DEF p2
  <2>2. <<>> \in Seq(Nat) /\ FALSE \in BOOLEAN /\ "go" \in PostStates
    BY DEF PostStates, ReaderStates
  <2>3. A \in Seq(Seq(Nat)) /\ p.arg \in Arg
    BY <1>3, <1>5
  <2>5. p2 \in PostRecords
    BY <1>1, <2>1, <2>2, <2>3 DEF PostRecords
  <2> QED
    BY <1>1, <2>1, <2>5 DEF PostRecords
<1> HIDE DEF p2
<1>7. ASSUME NEW k \in Arg PROVE Held(p2, sn.at, k) = Held(p, sn.at, k)
  <2> DEFINE i == k - sn.at + 1
  <2>1. k \in Nat /\ (i = Len(p.args) + 1 <=> k = p.arg) /\ i \in Int
    <3> DEFINE x == sn.at
               y == Len(p.args)
               z == p.arg
    <3>1. k \in Nat /\ x \in Nat /\ y \in Nat /\ z \in Nat /\ x + y = z
      BY <1>3, <1>4, <1>5 DEF Arg
    <3> HIDE DEF x, y, z
    <3>2. (k - x + 1 = y + 1 <=> k = z) /\ k - x + 1 \in Int
      BY <3>1
    <3> QED
      BY <3>1, <3>2 DEF x, y, z
  <2>2. Held(p, sn.at, k) = InFrame(p.args, i) \o (IF k = p.arg THEN p.hand ELSE <<>>)
    BY DEF Held
  <2>3. Held(p2, sn.at, k) = InFrame(A, i) \o <<>>
    BY <1>6 DEF Held
  <2> HIDE DEF i
  <2>4. CASE k = p.arg
    <3>1. i = Len(p.args) + 1 /\ i \in DOMAIN A /\ i \notin DOMAIN p.args
      BY <1>5, <2>1, <2>4
    <3>2. InFrame(A, i) = p.hand /\ InFrame(p.args, i) = <<>>
      BY <1>5, <3>1 DEF InFrame
    <3>3. p.hand \o <<>> = p.hand /\ <<>> \o p.hand = p.hand
      BY <1>3, Cat
    <3> QED
      BY <2>2, <2>3, <2>4, <3>2, <3>3
  <2>5. CASE k # p.arg
    <3>1. i # Len(p.args) + 1 /\ (i \in DOMAIN A <=> i \in DOMAIN p.args)
      BY <1>5, <2>1, <2>5
    <3>2. InFrame(A, i) = InFrame(p.args, i)
      BY <1>5, <3>1 DEF InFrame
    <3> QED
      BY <2>2, <2>3, <2>5, <3>2
  <2> QED
    BY <2>4, <2>5
<1>8. sn.at + Len(A) = p.arg + 1
  BY <1>3, <1>4, <1>5
<1>9. Flow(o, p2, sn, w)
  BY <1>2, <1>6, <1>7, <1>8 DEF Flow
<1>10. \A k \in Arg : OutStream(o[k], k, p2)
  BY <1>6 DEF CallOut, OutStream
<1>11. Ending(o, p2, f, q, fl)
  BY <1>6 DEF CallOut, Ending
<1>12. ResponseTypes(o, p2, f, sn, w, cd)
  BY <1>6 DEF CallOut, ResponseTypes
<1> QED
  BY <1>2, <1>9, <1>10, <1>11, <1>12 DEF CallOut, p2

\* A later chunk completes the frame and starts the next one.
LEMMA OutPart ==
  ASSUME NEW o, NEW p, NEW f, NEW sn, NEW w, NEW cd, NEW q, NEW fl,
         CallOut(o, p, f, sn, w, cd, q, fl), p.st = "more", ~p.first
  PROVE  CallOut(o, [p EXCEPT !.args = <<p.hand>>, !.st = "write", !.hand = <<>>], Append(f, "part"), PutSeen(sn, f, cd, p.args), w, cd, q, fl)
<1> DEFINE s2 == PutSeen(sn, f, cd, p.args)
           g == Append(f, "part")
           p2 == [p EXCEPT !.args = <<p.hand>>, !.st = "write", !.hand = <<>>]
<1>1. p \in PostRecords /\ sn \in SeenRecords /\ f \in Seq(FrameKinds) /\ LastOnce(f)
  BY DEF CallOut, ResponseTypes
<1>2. Flow(o, p, sn, w) /\ "last" \notin Kinds(f) /\ p.st \in Live
  BY DEF CallOut, Live
<1>3. /\ s2 \in SeenRecords /\ s2.at = p.arg /\ s2.code = cd
      /\ \A k \in Arg : s2.args[k] = sn.args[k] \o InFrame(p.args, k - sn.at + 1)
  <2>1. s2 = PutSeen(sn, f, cd, p.args)
    OBVIOUS
  <2>2. sn.at + Len(p.args) = p.arg + 1 /\ (Sent(f) => sn.code = cd) /\ cd \in {OK, FAILED}
    BY <1>2 DEF CallOut, Flow, ResponseTypes
  <2> HIDE DEF s2
  <2>3. AddedTo(s2, sn, p, cd)
    BY <1>1, <2>1, <2>2, SeenFacts
  <2> QED
    BY <2>3 DEF AddedTo
<1>4. g \in Seq(FrameKinds) /\ "last" \notin Kinds(g) /\ LastOnce(g)
  <2>1. "part" \in FrameKinds
    BY DEF FrameKinds
  <2>2. /\ g \in Seq(FrameKinds) /\ Kinds(g) = Kinds(f) \cup {"part"}
        /\ LastOnce(f) /\ "last" \notin Kinds(f) => LastOnce(g)
    BY <1>1, <2>1, AppendKinds
  <2> HIDE DEF g
  <2> QED
    BY <1>1, <1>2, <2>2
<1> HIDE DEF s2, g
<1>5. p.args \in Seq(Seq(Nat)) /\ p.hand \in Seq(Nat) /\ p.arg \in Nat /\ p.arg \in Arg
  BY <1>1 DEF PostRecords, Arg
<1> DEFINE A == <<p.hand>>
<1>6. A \in Seq(Seq(Nat)) /\ Len(A) = 1 /\ DOMAIN A = {1} /\ A[1] = p.hand
  BY <1>5
<1> HIDE DEF A
<1>7. p2 \in PostRecords /\ p2.arg = p.arg /\ p2.first = FALSE /\ p2.st = "write" /\ p2.hand = <<>>
      /\ p2.args = A
  <2>1. p.first = FALSE
    BY <1>1 DEF PostRecords
  <2>2. p2 = [p EXCEPT !.args = A, !.st = "write", !.hand = <<>>]
    BY DEF A
  <2> HIDE DEF p2
  <2>3. <<>> \in Seq(Nat) /\ FALSE \in BOOLEAN /\ "write" \in PostStates
    BY DEF PostStates
  <2>4. A \in Seq(Seq(Nat)) /\ p.arg \in Arg
    BY <1>5, <1>6
  <2>5. p2 \in PostRecords
    BY <1>1, <2>2, <2>3, <2>4 DEF PostRecords
  <2> QED
    BY <1>1, <2>1, <2>2, <2>5 DEF PostRecords
<1> HIDE DEF p2
<1>8. ASSUME NEW k \in Arg PROVE (s2.args[k] \o Held(p2, s2.at, k)) \o o[k].buf = Upto(w[k])
  <2> DEFINE a == sn.args[k]
             b == InFrame(p.args, k - sn.at + 1)
             h == IF k = p.arg THEN p.hand ELSE <<>>
             v == Held(p2, s2.at, k)
  <2>1. a \in Seq(Nat) /\ b \in Seq(Nat)
    BY <1>1, HeldType
  <2>2. (a \o (b \o h)) \o o[k].buf = Upto(w[k])
    BY <1>2 DEF Flow, Held
  <2>3. h \in Seq(Nat) /\ h \o <<>> = h
    BY <1>5
  <2>4. s2.args[k] = a \o b
    BY <1>3
  <2>5. v = h
    <3>1. v = InFrame(A, k - p.arg + 1) \o <<>>
      BY <1>3, <1>7 DEF Held
    <3>2. k - p.arg + 1 = 1 <=> k = p.arg
      BY <1>5 DEF Arg
    <3>3. InFrame(A, k - p.arg + 1) = h
      BY <1>6, <3>2 DEF InFrame
    <3> HIDE DEF v, h
    <3> QED
      BY <2>3, <3>1, <3>3
  <2> HIDE DEF a, b, h, v
  <2>6. (a \o b) \o h = a \o (b \o h)
    BY <2>1, <2>3, Assoc
  <2> QED
    BY <2>2, <2>4, <2>5, <2>6 DEF v
<1>9. s2.at + Len(A) = p.arg + 1
  BY <1>3, <1>6
<1>10. Flow(o, p2, s2, w)
  BY <1>2, <1>7, <1>8, <1>9 DEF Flow
<1>11. \A k \in Arg : OutStream(o[k], k, p2)
  BY <1>7 DEF CallOut, OutStream
<1>12. Ending(o, p2, g, q, fl)
  BY <1>4, <1>7 DEF CallOut, Ending
<1>13. ResponseTypes(o, p2, g, s2, w, cd)
  BY <1>3, <1>4, <1>7 DEF CallOut, ResponseTypes
<1>14. CallOut(o, p2, g, s2, w, cd, q, fl)
  BY <1>3, <1>4, <1>10, <1>11, <1>12, <1>13 DEF CallOut
<1> QED
  BY <1>14 DEF g, s2, p2

\* The next argument is read.
LEMMA OutNextArg ==
  ASSUME NEW o, NEW p, NEW f, NEW sn, NEW w, NEW cd, NEW q, NEW fl,
         CallOut(o, p, f, sn, w, cd, q, fl), p.st = "end", ~p.first, p.arg < 3
  PROVE  CallOut(o, [p EXCEPT !.arg = @ + 1, !.first = TRUE, !.st = "go"], f, sn, w, cd, q, fl)
<1> DEFINE p2 == [p EXCEPT !.arg = @ + 1, !.first = TRUE, !.st = "go"]
<1>1. p \in PostRecords /\ sn \in SeenRecords
  BY DEF CallOut, ResponseTypes
<1>2. Flow(o, p, sn, w) /\ "last" \notin Kinds(f)
  BY DEF CallOut, Live
<1>3. p.arg \in Arg /\ p.arg \in Nat /\ p.arg + 1 \in Arg /\ p.hand = <<>>
  BY <1>1, <1>2 DEF PostRecords, Arg, Flow
<1>4. /\ p2 \in PostRecords /\ p2.arg = p.arg + 1 /\ p2.first = TRUE /\ p2.st = "go"
      /\ p2.hand = <<>> /\ p2.args = p.args
  BY <1>1, <1>3 DEF PostRecords, PostStates, ReaderStates
<1> HIDE DEF p2
<1>5. \A k \in Arg : Held(p2, sn.at, k) = Held(p, sn.at, k)
  BY <1>3, <1>4 DEF Held
<1>6. \A k \in Arg : k < p.arg + 1 => o[k].done /\ o[k].buf = <<>>
  <2>1. \A k \in Arg : k < p.arg + 1 => k < p.arg \/ k = p.arg
    BY <1>3 DEF Arg
  <2> QED
    BY <1>2, <2>1 DEF Flow
<1>7. sn.at + Len(p2.args) = p2.arg + 0
  <2>1. sn.at + Len(p.args) = p.arg + 1
    BY <1>2 DEF Flow
  <2> QED
    BY <1>3, <1>4, <2>1
<1>8. Flow(o, p2, sn, w)
  BY <1>2, <1>4, <1>5, <1>6, <1>7 DEF Flow
<1>9. \A k \in Arg : OutStream(o[k], k, p2)
  BY <1>4 DEF CallOut, OutStream
<1>10. Ending(o, p2, f, q, fl)
  BY <1>4 DEF CallOut, Ending
<1>11. ResponseTypes(o, p2, f, sn, w, cd)
  BY <1>4 DEF CallOut, ResponseTypes
<1> QED
  BY <1>2, <1>8, <1>9, <1>10, <1>11 DEF CallOut, p2

\* The end of the body completes the response.
LEMMA OutLast ==
  ASSUME NEW o, NEW p, NEW f, NEW sn, NEW w, NEW cd, NEW q, NEW fl,
         CallOut(o, p, f, sn, w, cd, q, fl), p.st = "end", ~p.first, p.arg = 3
  PROVE  CallOut(o, [p EXCEPT !.st = "final"], Append(f, "last"), PutSeen(sn, f, cd, p.args), w, cd, q, fl)
<1> DEFINE s2 == PutSeen(sn, f, cd, p.args)
           g == Append(f, "last")
           p2 == [p EXCEPT !.st = "final"]
<1>1. /\ p \in PostRecords /\ sn \in SeenRecords /\ f \in Seq(FrameKinds) /\ LastOnce(f)
      /\ w \in [Arg -> Nat]
  BY DEF CallOut, ResponseTypes
<1>2. Flow(o, p, sn, w) /\ "last" \notin Kinds(f) /\ p.st \in Live
  BY DEF CallOut, Live
<1>3. /\ s2 \in SeenRecords /\ s2.at = p.arg /\ s2.code = cd
      /\ \A k \in Arg : s2.args[k] = sn.args[k] \o InFrame(p.args, k - sn.at + 1)
  <2>1. s2 = PutSeen(sn, f, cd, p.args)
    OBVIOUS
  <2>2. sn.at + Len(p.args) = p.arg + 1 /\ (Sent(f) => sn.code = cd) /\ cd \in {OK, FAILED}
    BY <1>2 DEF CallOut, Flow, ResponseTypes
  <2> HIDE DEF s2
  <2>3. AddedTo(s2, sn, p, cd)
    BY <1>1, <2>1, <2>2, SeenFacts
  <2> QED
    BY <2>3 DEF AddedTo
<1>4. g \in Seq(FrameKinds) /\ LastOnce(g)
  <2>1. "last" \in FrameKinds
    BY DEF FrameKinds
  <2> QED
    BY <1>1, <1>2, <2>1, AppendKinds
<1> HIDE DEF s2, g
<1>5. \A k \in Arg : o[k].done /\ o[k].buf = <<>>
  <2>1. \A k \in Arg : k < 3 \/ k = 3
    BY DEF Arg
  <2> QED
    BY <1>2, <2>1 DEF Flow
<1>6. ASSUME NEW k \in Arg PROVE s2.args[k] = Upto(w[k])
  <2> DEFINE a == sn.args[k]
             b == InFrame(p.args, k - sn.at + 1)
  <2>1. a \in Seq(Nat) /\ b \in Seq(Nat) /\ p.hand = <<>>
    BY <1>1, <1>2, HeldType DEF Flow
  <2>2. (a \o (b \o <<>>)) \o <<>> = Upto(w[k])
    BY <1>2, <1>5, <2>1 DEF Flow, Held
  <2>3. s2.args[k] = a \o b
    BY <1>3
  <2> HIDE DEF a, b
  <2>4. b \o <<>> = b /\ (a \o b) \o <<>> = a \o b
    BY <2>1
  <2> QED
    BY <2>2, <2>3, <2>4
<1>7. p2 \in PostRecords /\ p2.arg = p.arg /\ p2.st = "final"
  BY <1>1 DEF PostRecords, PostStates
<1> HIDE DEF p2
<1>8. fl \/ q = "ended"
  BY DEF CallOut, Ending
<1>9. \A k \in Arg : OutStream(o[k], k, p2)
  BY DEF CallOut, OutStream
<1>10. Ending(o, p2, g, q, fl)
  BY <1>7, <1>8 DEF CallOut, Ending
<1>11. ResponseTypes(o, p2, g, s2, w, cd)
  BY <1>3, <1>4, <1>7 DEF CallOut, ResponseTypes
<1>12. p2.st \notin Live
  BY <1>7 DEF Live
<1>13. CallOut(o, p2, g, s2, w, cd, q, fl)
  BY <1>3, <1>4, <1>5, <1>6, <1>9, <1>10, <1>11, <1>12 DEF CallOut
<1> QED
  BY <1>13 DEF g, s2, p2

-----------------------------------------------------------------------------
(* The response in a step of the server.                                   *)

ResponseFuns ==
  /\ out \in [Calls -> ResponseStreams] /\ post \in [Calls -> PostRecords]
  /\ frames \in [Calls -> Seq(FrameKinds)] /\ seen \in [Calls -> SeenRecords]
  /\ wrote \in [Calls -> [Arg -> Nat]] /\ code \in [Calls -> {OK, FAILED}]
  /\ flushed \in [Calls -> BOOLEAN]

OutputInv ==
  /\ ResponseFuns
  /\ \A c \in Calls :
       /\ CallOut(out[c], post[c], frames[c], seen[c], wrote[c], code[c], pc[c], flushed[c])
       /\ Fresh(out[c], post[c], frames[c], wrote[c], pc[c], flushed[c], returns)

LEMMA OutputSame ==
  ASSUME OutputInv, RequestTypes, NEW c \in Calls
  PROVE  /\ out = [out EXCEPT ![c] = out[c]] /\ post = [post EXCEPT ![c] = post[c]]
         /\ frames = [frames EXCEPT ![c] = frames[c]] /\ seen = [seen EXCEPT ![c] = seen[c]]
         /\ wrote = [wrote EXCEPT ![c] = wrote[c]] /\ code = [code EXCEPT ![c] = code[c]]
         /\ pc = [pc EXCEPT ![c] = pc[c]]
  BY DEF OutputInv, ResponseFuns, RequestTypes

\* A step concerns one call.
LEMMA OutputCall ==
  ASSUME OutputInv, NEW c \in Calls, ResponseFuns', returns' = returns,
         \A d \in Calls : d # c =>
           /\ out'[d] = out[d] /\ post'[d] = post[d] /\ frames'[d] = frames[d]
           /\ seen'[d] = seen[d] /\ wrote'[d] = wrote[d] /\ code'[d] = code[d]
           /\ pc'[d] = pc[d] /\ flushed'[d] = flushed[d],
         CallOut(out'[c], post'[c], frames'[c], seen'[c], wrote'[c], code'[c], pc'[c],
                 flushed'[c]),
         Fresh(out'[c], post'[c], frames'[c], wrote'[c], pc'[c], flushed'[c], returns)
  PROVE  OutputInv'
<1>1. ASSUME NEW d \in Calls
      PROVE  /\ CallOut(out'[d], post'[d], frames'[d], seen'[d], wrote'[d], code'[d], pc'[d],
                        flushed'[d])
             /\ Fresh(out'[d], post'[d], frames'[d], wrote'[d], pc'[d], flushed'[d], returns')
  <2>1. CASE d = c
    BY <2>1
  <2>2. CASE d # c
    BY <2>2 DEF OutputInv
  <2> QED
    BY <2>1, <2>2
<1> QED
  BY <1>1 DEF OutputInv

LEMMA OutputStep ==
  ASSUME OutputInv, RequestTypes, NEW c \in Calls, NEW o, NEW p, NEW f, NEW sn, NEW w, NEW cd, NEW q,
         out' = [out EXCEPT ![c] = o], post' = [post EXCEPT ![c] = p],
         frames' = [frames EXCEPT ![c] = f], seen' = [seen EXCEPT ![c] = sn],
         wrote' = [wrote EXCEPT ![c] = w], code' = [code EXCEPT ![c] = cd],
         pc' = [pc EXCEPT ![c] = q], flushed' \in [Calls -> BOOLEAN],
         \A d \in Calls : d # c => flushed'[d] = flushed[d],
         returns' = returns, CallOut(o, p, f, sn, w, cd, q, flushed'[c]),
         Fresh(o, p, f, w, q, flushed'[c], returns)
  PROVE  OutputInv'
<1>1. /\ o \in ResponseStreams /\ p \in PostRecords /\ f \in Seq(FrameKinds)
      /\ sn \in SeenRecords /\ w \in [Arg -> Nat] /\ cd \in {OK, FAILED}
  BY DEF CallOut, ResponseTypes
<1>2. ResponseFuns /\ pc \in [Calls -> PcStates]
  BY DEF OutputInv, RequestTypes
<1>3. ResponseFuns'
  BY <1>1, <1>2 DEF ResponseFuns
<1>4. /\ out'[c] = o /\ post'[c] = p /\ frames'[c] = f /\ seen'[c] = sn
      /\ wrote'[c] = w /\ code'[c] = cd /\ pc'[c] = q
  BY <1>2 DEF ResponseFuns
<1>5. \A d \in Calls : d # c =>
        /\ out'[d] = out[d] /\ post'[d] = post[d] /\ frames'[d] = frames[d]
        /\ seen'[d] = seen[d] /\ wrote'[d] = wrote[d] /\ code'[d] = code[d] /\ pc'[d] = pc[d]
        /\ flushed'[d] = flushed[d]
  BY <1>2 DEF ResponseFuns
<1> QED
  BY <1>3, <1>4, <1>5, OutputCall

responseVars == <<out, post, frames, seen, wrote, code, pc, flushed, returns>>

LEMMA OutputUnchanged ==
  ASSUME OutputInv, UNCHANGED responseVars
  PROVE  OutputInv'
<1>1. /\ out' = out /\ post' = post /\ frames' = frames /\ seen' = seen /\ wrote' = wrote
      /\ code' = code /\ pc' = pc /\ flushed' = flushed /\ returns' = returns
  BY DEF responseVars
<1>2. ResponseFuns'
  BY <1>1 DEF OutputInv, ResponseFuns
<1> QED
  BY <1>1, <1>2 DEF OutputInv

\* send_error for c, while handle_call may go on to q.
LEMMA OutputError ==
  ASSUME OutputInv, RequestTypes, NEW c \in Calls, NEW x \in {"error", "unexpected"},
         SendError(c, x), NEW q, pc' = [pc EXCEPT ![c] = q], q = pc[c] \/ q = "refused",
         pc[c] \notin {"ended", "other"} \/ q = pc[c],
         UNCHANGED <<out, post, wrote, code, flushed, returns>>
  PROVE  OutputInv'
<1> DEFINE o == out[c]
           p == post[c]
           f == Append(frames[c], x)
           sn == seen[c]
           w == wrote[c]
           cd == code[c]
<1>1. /\ CallOut(o, p, frames[c], sn, w, cd, pc[c], flushed[c])
      /\ Fresh(o, p, frames[c], w, pc[c], flushed[c], returns)
  BY DEF OutputInv
<1>2. CallOut(o, p, frames[c], sn, w, cd, q, flushed[c])
  <2>1. CASE q = pc[c]
    BY <1>1, <2>1
  <2>2. CASE q # pc[c]
    <3>1. pc[c] \notin {"ended", "other"} /\ q # "other"
      BY <2>2
    <3> HIDE DEF o, p, sn, w, cd
    <3> QED
      BY <1>1, <3>1, OutPc
  <2> QED
    BY <2>1, <2>2
<1>3. Fresh(o, p, frames[c], w, q, flushed[c], returns)
  BY <1>1 DEF Fresh
<1>4. frames[c] \in Seq(FrameKinds)
  BY <1>1 DEF CallOut, ResponseTypes
<1>5. CallOut(o, p, f, sn, w, cd, q, flushed[c]) /\ Fresh(o, p, f, w, q, flushed[c], returns)
  <2> HIDE DEF o, p, sn, w, cd
  <2> QED
    BY <1>2, <1>3, <1>4, OutError
<1>6. frames' = [frames EXCEPT ![c] = f] /\ seen' = seen
  BY DEF SendError, Put
<1>7. /\ ResponseFuns' /\ frames'[c] = f /\ pc'[c] = q
      /\ \A d \in Calls : d # c => frames'[d] = frames[d] /\ pc'[d] = pc[d]
  <2>1. f \in Seq(FrameKinds)
    BY <1>5 DEF CallOut, ResponseTypes
  <2> HIDE DEF f
  <2> QED
    BY <1>6, <2>1 DEF OutputInv, ResponseFuns, RequestTypes
<1> HIDE DEF f
<1> QED
  BY <1>5, <1>6, <1>7, OutputCall

\* handle_call goes on to q.
LEMMA OutputPc ==
  ASSUME OutputInv, RequestTypes, NEW c \in Calls, NEW q, pc' = [pc EXCEPT ![c] = q],
         pc[c] \notin {"ended", "other"}, q # "other",
         Fresh(out[c], post[c], frames[c], wrote[c], q, flushed[c], returns),
         UNCHANGED <<out, post, frames, seen, wrote, code, flushed, returns>>
  PROVE  OutputInv'
<1> DEFINE o == out[c]
           p == post[c]
           f == frames[c]
           sn == seen[c]
           w == wrote[c]
           cd == code[c]
<1>1. CallOut(o, p, f, sn, w, cd, pc[c], flushed[c]) /\ Fresh(o, p, f, w, q, flushed[c], returns)
  BY DEF OutputInv
<1>2. CallOut(o, p, f, sn, w, cd, q, flushed[c])
  <2> HIDE DEF o, p, f, sn, w, cd
  <2> QED
    BY <1>1, OutPc
<1>3. ResponseFuns' /\ pc'[c] = q /\ \A d \in Calls : d # c => pc'[d] = pc[d]
  BY DEF OutputInv, ResponseFuns, RequestTypes
<1> QED
  BY <1>1, <1>2, <1>3, OutputCall

\* x becomes y by the value v at c.
Sets(x, y, c, v) == y = [x EXCEPT ![c] = v]

\* The handler is over, with what it has written by then.
LEMMA OutputEnds ==
  ASSUME OutputInv, RequestTypes, NEW c \in Calls, NEW how \in {"no", "tchannel", "other"},
         NEW o, NEW w, NEW cd, Ends(c, how, o),
         CallOut(o, post[c], frames[c], seen[c], w, cd, pc[c], flushed[c]),
         pc[c] \notin {"ended", "other"},
         Sets(wrote, wrote', c, w), Sets(code, code', c, cd),
         UNCHANGED <<post, flushed, returns>>
  PROVE  OutputInv'
<1> DEFINE p == post[c]
           f == frames[c]
           sn == seen[c]
           fl == flushed[c]
<1>0. wrote' = [wrote EXCEPT ![c] = w] /\ code' = [code EXCEPT ![c] = cd]
  BY DEF Sets
<1>1. /\ frames = [frames EXCEPT ![c] = f] /\ seen = [seen EXCEPT ![c] = sn]
      /\ post' = [post EXCEPT ![c] = p]
  BY OutputSame
<1>2. flushed' \in [Calls -> BOOLEAN] /\ flushed' = flushed /\ f \in Seq(FrameKinds)
  BY DEF OutputInv, ResponseFuns
<1>3. \A q \in {"ended", "tchannel", "other"} :
        \A o2, f2 : Fresh(o2, p, f2, w, q, fl, returns)
  BY DEF Fresh
<1>4. CASE how = "no"
  <2> DEFINE o2 == CloseArgStreams(o)
  <2>1. /\ pc' = [pc EXCEPT ![c] = "ended"] /\ out' = [out EXCEPT ![c] = o2]
        /\ frames' = [frames EXCEPT ![c] = f] /\ seen' = [seen EXCEPT ![c] = sn]
    BY <1>1, <1>4 DEF Ends, output
  <2>2. CallOut(o2, p, f, sn, w, cd, "ended", fl)
    BY OutCloseAll
  <2> HIDE DEF o2, p, f, sn
  <2> QED
    BY <1>0, <1>1, <1>2, <1>3, <2>1, <2>2, OutputStep
<1>5. CASE how = "tchannel"
  <2> DEFINE f2 == Append(f, "error")
  <2>1. /\ pc' = [pc EXCEPT ![c] = "tchannel"] /\ out' = [out EXCEPT ![c] = o]
        /\ frames' = [frames EXCEPT ![c] = f2] /\ seen' = [seen EXCEPT ![c] = sn]
    BY <1>1, <1>5 DEF Ends, SendError, Put
  <2>2. CallOut(o, p, f, sn, w, cd, "tchannel", fl)
    BY OutPc
  <2>3. CallOut(o, p, f2, sn, w, cd, "tchannel", fl)
    <3> HIDE DEF p, f, sn
    <3> QED
      BY <1>2, <2>2, OutError
  <2> HIDE DEF f2, p, f, sn
  <2> QED
    BY <1>0, <1>1, <1>2, <1>3, <2>1, <2>3, OutputStep
<1>6. CASE how = "other"
  <2> DEFINE f2 == Append(f, "unexpected")
             o2 == FailArgStreams(o)
  <2>1. /\ pc' = [pc EXCEPT ![c] = "other"] /\ out' = [out EXCEPT ![c] = o2]
        /\ frames' = [frames EXCEPT ![c] = f2] /\ seen' = [seen EXCEPT ![c] = sn]
    BY <1>1, <1>6 DEF Ends, SendError, Put
  <2>2. CallOut(o2, p, f, sn, w, cd, "other", fl)
    BY OutFailAll
  <2>3. CallOut(o2, p, f2, sn, w, cd, "other", fl)
    <3> HIDE DEF p, f, sn, o2
    <3> QED
      BY <1>2, <2>2, OutError
  <2> HIDE DEF f2, p, f, sn, o2
  <2> QED
    BY <1>0, <1>1, <1>2, <1>3, <2>1, <2>3, OutputStep
<1> QED
  BY <1>4, <1>5, <1>6

LEMMA OutputArrives ==
  ASSUME OutputInv, InputInv, NEW c \in Calls, CallReq(c) \/ CallReqContinue(c)
  PROVE  OutputInv'
<1>1. RequestTypes /\ (next[c] = 1 => pc[c] = "idle")
  BY DEF InputInv, CallIn, ReadersInv
<1>2. UNCHANGED <<out, post, wrote, code, flushed, returns>>
  BY DEF CallReq, CallReqContinue, Arrives, response, setting
<1>3. ASSUME SendError(c, "error"), pc' = pc PROVE OutputInv'
  <2>1. pc' = [pc EXCEPT ![c] = pc[c]]
    BY <1>1, <1>3 DEF RequestTypes
  <2> QED
    BY <1>1, <1>2, <1>3, <2>1, OutputError
<1>4. ASSUME UNCHANGED output, pc' = pc PROVE OutputInv'
  BY <1>2, <1>4, OutputUnchanged DEF responseVars, output
<1>5. ASSUME UNCHANGED output, pc' = [pc EXCEPT ![c] = "name"], next[c] = 1 PROVE OutputInv'
  <2>1. Fresh(out[c], post[c], frames[c], wrote[c], "idle", flushed[c], returns)
    BY <1>1, <1>5 DEF OutputInv
  <2>2. Fresh(out[c], post[c], frames[c], wrote[c], "name", flushed[c], returns)
    BY <2>1 DEF Fresh
  <2>3. frames' = frames /\ seen' = seen /\ pc[c] \notin {"ended", "other"}
    BY <1>1, <1>5 DEF output
  <2> QED
    BY <1>1, <1>2, <1>5, <2>2, <2>3, OutputPc
<1>6. CASE CallReq(c)
  BY <1>3, <1>5, <1>6 DEF CallReq
<1>7. CASE CallReqContinue(c)
  BY <1>3, <1>4, <1>7 DEF CallReqContinue
<1> QED
  BY <1>6, <1>7

LEMMA OutputName ==
  ASSUME OutputInv, InputInv, NEW c \in Calls, NameRead(c)
  PROVE  OutputInv'
<1>1. UNCHANGED <<out, post, frames, seen, wrote, code, flushed, returns>> /\ pc[c] = "name"
  BY DEF NameRead, HandlerFrame, setting, response, output
<1>2. PICK q \in {"hook", "dead"} : pc' = [pc EXCEPT ![c] = q]
  BY DEF NameRead
<1>3. Fresh(out[c], post[c], frames[c], wrote[c], "name", flushed[c], returns)
  BY <1>1 DEF OutputInv
<1>4. Fresh(out[c], post[c], frames[c], wrote[c], q, flushed[c], returns)
  BY <1>3 DEF Fresh
<1>5. RequestTypes /\ pc[c] \notin {"ended", "other"} /\ q # "other"
  BY <1>1 DEF InputInv
<1> QED
  BY <1>1, <1>2, <1>4, <1>5, OutputPc

LEMMA OutputDispatch ==
  ASSUME OutputInv, InputInv, NEW c \in Calls, Dispatch(c)
  PROVE  OutputInv'
<1>1. UNCHANGED <<out, wrote, code, flushed, returns>> /\ pc[c] = "hook"
  BY DEF Dispatch, setting, response
<1>2. RequestTypes /\ pc[c] \notin {"ended", "other"}
  BY <1>1 DEF InputInv
<1>3. CASE GetEndpoint(c) = "mismatch"
  <2>1. pc' = [pc EXCEPT ![c] = "refused"] /\ SendError(c, "error") /\ post' = post
    BY <1>3 DEF Dispatch
  <2> QED
    BY <1>1, <1>2, <2>1, OutputError
<1>4. CASE GetEndpoint(c) # "mismatch"
  <2> DEFINE p2 == [post[c] EXCEPT !.st = "go"]
  <2>1. /\ post' = [post EXCEPT ![c].st = "go"] /\ frames' = frames /\ seen' = seen
        /\ \E q \in {"body", "run"} : pc' = [pc EXCEPT ![c] = q]
    BY <1>4 DEF Dispatch, output
  <2>2. PICK q \in {"body", "run"} : pc' = [pc EXCEPT ![c] = q]
    BY <2>1
  <2>3. /\ CallOut(out[c], post[c], frames[c], seen[c], wrote[c], code[c], pc[c], flushed[c])
        /\ Fresh(out[c], post[c], frames[c], wrote[c], "hook", flushed[c], returns)
    BY <1>1 DEF OutputInv
  <2>4. post[c].st = "off" /\ wrote[c] = NoWrites /\ ~flushed[c]
        /\ Untouched(out[c], post[c], frames[c])
    BY <2>3 DEF Fresh
  <2>5. CallOut(out[c], p2, frames[c], seen[c], wrote[c], code[c], pc[c], flushed[c])
    <3>1. post[c].st \notin {"wait", "finished"} /\ post[c].st \in {"off", "write"}
      BY <2>4
    <3> QED
      BY <2>3, <3>1, OutMoves
  <2>6. p2.st = "go" /\ post' = [post EXCEPT ![c] = p2] /\ p2 \in PostRecords
    <3>1. post \in [Calls -> PostRecords] /\ post[c] \in PostRecords
      BY DEF OutputInv, ResponseFuns
    <3> QED
      BY <2>1, <2>5, <3>1 DEF PostRecords, CallOut, ResponseTypes
  <2> HIDE DEF p2
  <2>7. CallOut(out[c], p2, frames[c], seen[c], wrote[c], code[c], q, flushed[c])
    BY <1>2, <2>5, OutPc
  <2>8. Fresh(out[c], p2, frames[c], wrote[c], q, flushed[c], returns)
    BY <2>4, <2>6 DEF Fresh, Untouched
  <2>9. /\ ResponseFuns' /\ pc'[c] = q /\ post'[c] = p2
        /\ \A d \in Calls : d # c => post'[d] = post[d] /\ pc'[d] = pc[d]
    <3>1. ResponseFuns /\ pc \in [Calls -> PcStates]
      BY <1>2 DEF OutputInv, RequestTypes
    <3>2. /\ post' \in [Calls -> PostRecords] /\ post'[c] = p2
          /\ \A d \in Calls : d # c => post'[d] = post[d]
      BY <2>6, <3>1 DEF ResponseFuns
    <3>3. ResponseFuns'
      BY <1>1, <2>1, <3>1, <3>2 DEF ResponseFuns
    <3>4. pc'[c] = q /\ \A d \in Calls : d # c => pc'[d] = pc[d]
      BY <2>2, <3>1
    <3> QED
      BY <3>2, <3>3, <3>4
  <2> QED
    BY <1>1, <2>1, <2>7, <2>8, <2>9, OutputCall
<1> QED
  BY <1>3, <1>4

\* The end of handle_call, the response being as it is.
LEMMA OutputEndsSo ==
  ASSUME OutputInv, RequestTypes, NEW c \in Calls, NEW how \in {"no", "tchannel", "other"},
         Ends(c, how, out[c]), pc[c] \notin {"ended", "other"},
         Sets(wrote, wrote', c, wrote[c]), Sets(code, code', c, code[c]),
         UNCHANGED <<post, flushed, returns>>
  PROVE  OutputInv'
<1>1. CallOut(out[c], post[c], frames[c], seen[c], wrote[c], code[c], pc[c], flushed[c])
  BY DEF OutputInv
<1> DEFINE o == out[c]
           w == wrote[c]
           cd == code[c]
<1>2. /\ CallOut(o, post[c], frames[c], seen[c], w, cd, pc[c], flushed[c]) /\ Ends(c, how, o)
      /\ Sets(wrote, wrote', c, w) /\ Sets(code, code', c, cd)
  BY <1>1
<1> HIDE DEF o, w, cd
<1> QED
  BY <1>2, OutputEnds

LEMMA OutputArgRead ==
  ASSUME OutputInv, InputInv, NEW c \in Calls, ArgRead(c)
  PROVE  OutputInv'
<1>1. /\ UNCHANGED <<post, wrote, code, flushed, returns>> /\ pc[c] \in {"body", "header"}
      /\ pc[c] \notin {"ended", "other"} /\ RequestTypes
  BY DEF ArgRead, HandlerFrame, setting, InputInv
<1>2. ASSUME NEW how \in {"no", "tchannel", "other"}, Ends(c, how, out[c]) PROVE OutputInv'
  <2>1. Sets(wrote, wrote', c, wrote[c]) /\ Sets(code, code', c, code[c])
    BY <1>1, OutputSame DEF Sets
  <2>2. UNCHANGED <<post, flushed, returns>>
    BY <1>1
  <2> QED
    BY <1>1, <1>2, <2>1, <2>2, OutputEndsSo
<1>3. ASSUME pc' = [pc EXCEPT ![c] = IF @ = "body" THEN "header" ELSE "run"],
             UNCHANGED <<out, buffer, output>>
      PROVE  OutputInv'
  <2>1. PICK q \in {"header", "run"} : pc' = [pc EXCEPT ![c] = q]
    BY <1>3
  <2>2. Fresh(out[c], post[c], frames[c], wrote[c], pc[c], flushed[c], returns)
    BY DEF OutputInv
  <2>3. Fresh(out[c], post[c], frames[c], wrote[c], q, flushed[c], returns)
    BY <1>1, <2>2 DEF Fresh
  <2>4. out' = out /\ frames' = frames /\ seen' = seen
    BY <1>3 DEF output
  <2> QED
    BY <1>1, <2>1, <2>3, <2>4, OutputPc
<1> QED
  BY <1>2, <1>3 DEF ArgRead

-----------------------------------------------------------------------------
(* What a handler does to the response.                                    *)

HeaderCount(x) == [NoWrites EXCEPT ![2] = x]
HasHeader(h, w) == ~h[3].done /\ w[3] = 0 /\ w \in [Arg -> Nat]

\* The header of a response that nothing has been written to, and its code.
LEMMA OutHeader ==
  ASSUME NEW o, NEW p, NEW f, NEW sn, NEW cd, NEW q, NEW fl, NEW x \in {Empty, 1},
         NEW cd2 \in {OK, FAILED},
         CallOut(o, p, f, sn, NoWrites, cd, q, fl), Untouched(o, p, f),
         NEW h, h = WriteArg(o, 2, x), NEW w, w = HeaderCount(x)
  PROVE  HasHeader(h, w) /\ CallOut(h, p, f, sn, w, cd2, q, fl)
<1>1. CallOut(o, p, f, sn, NoWrites, cd2, q, fl)
  BY OutCode DEF Untouched
<1>2. 2 \in {2, 3} /\ 2 \in Arg /\ 3 \in Arg /\ ~o[2].done /\ ~o[3].done /\ NoWrites[2] = 0
      /\ NoWrites \in [Arg -> Nat]
  BY DEF Untouched, Arg, NoWrites
<1>3. h[3] = o[3]
  BY <1>2 DEF WriteArg
<1>4. w[3] = 0 /\ w \in [Arg -> Nat]
  BY <1>2 DEF NoWrites, Empty, HeaderCount
<1>5. CASE x = Empty
  <2>1. h = WriteArg(o, 2, Empty) /\ w = NoWrites
    BY <1>2, <1>5 DEF Empty, HeaderCount
  <2>2. CallOut(WriteArg(o, 2, Empty), p, f, sn, NoWrites, cd2, q, fl)
    BY <1>1, <1>2, OutWrite
  <2> QED
    BY <1>2, <1>3, <1>4, <2>1, <2>2 DEF HasHeader
<1>6. CASE x = 1
  <2>1. h = WriteArg(o, 2, NoWrites[2] + 1) /\ w = [NoWrites EXCEPT ![2] = @ + 1]
    BY <1>2, <1>6 DEF HeaderCount
  <2>2. CallOut(WriteArg(o, 2, NoWrites[2] + 1), p, f, sn, [NoWrites EXCEPT ![2] = @ + 1],
                cd2, q, fl)
    BY <1>1, <1>2, OutWrite
  <2> QED
    BY <1>2, <1>3, <1>4, <2>1, <2>2 DEF HasHeader
<1> QED
  BY <1>5, <1>6

LEMMA OutBody ==
  ASSUME NEW o, NEW p, NEW f, NEW sn, NEW w, NEW cd, NEW q, NEW fl,
         CallOut(o, p, f, sn, w, cd, q, fl), ~o[3].done, w[3] = 0
  PROVE  CallOut(WriteArg(o, 3, 1), p, f, sn, [w EXCEPT ![3] = 1], cd, q, fl)
<1>1. CallOut(WriteArg(o, 3, w[3] + 1), p, f, sn, [w EXCEPT ![3] = @ + 1], cd, q, fl)
  <2>1. 3 \in {2, 3}
    OBVIOUS
  <2> QED
    BY <2>1, OutWrite
<1>2. w[3] + 1 = 1 /\ [w EXCEPT ![3] = @ + 1] = [w EXCEPT ![3] = 1]
  OBVIOUS
<1> QED
  BY <1>1, <1>2

\* What becomes of a result, while nothing has been written.
LEMMA OutputConclude ==
  ASSUME OutputInv, RequestTypes, NEW c \in Calls, NEW h, Outcome(h), Conclude(c, h),
         pc[c] = "run", wrote[c] = NoWrites, ~flushed[c],
         UNCHANGED <<post, flushed, returns>>
  PROVE  OutputInv'
<1> DEFINE e == HeaderIsEmpty(proc[c])
           x == IF e THEN Empty ELSE 1
           hdr == WriteArg(out[c], 2, x)
           w == [NoWrites EXCEPT ![2] = x]
           CO(o, v, cd) == CallOut(o, post[c], frames[c], seen[c], v, cd, pc[c], flushed[c])
<1>1. /\ CallOut(out[c], post[c], frames[c], seen[c], NoWrites, code[c], pc[c], flushed[c])
      /\ Untouched(out[c], post[c], frames[c])
  BY DEF OutputInv, Fresh
<1>2. h.status \in {OK, FAILED} /\ pc[c] \notin {"ended", "other"}
  BY DEF Outcome
<1>3. /\ wrote \in [Calls -> [Arg -> Nat]] /\ code \in [Calls -> {OK, FAILED}]
      /\ wrote[c][2] = 0 /\ wrote[c][3] = 0
  BY DEF OutputInv, ResponseFuns, NoWrites, Arg
<1>4. CO(hdr, w, h.status) /\ ~hdr[3].done /\ w[3] = 0 /\ w \in [Arg -> Nat]
  <2>1. hdr = WriteArg(out[c], 2, x) /\ w = HeaderCount(x) /\ x \in {Empty, 1}
    BY DEF HeaderCount
  <2> HIDE DEF hdr, w, x
  <2> DEFINE o == out[c]
             p == post[c]
             f == frames[c]
             q == pc[c]
             fl == flushed[c]
             sn == seen[c]
             cd == code[c]
             st == h.status
  <2>3. /\ CallOut(o, p, f, sn, NoWrites, cd, q, fl) /\ Untouched(o, p, f) /\ st \in {OK, FAILED}
        /\ hdr = WriteArg(o, 2, x)
    BY <1>1, <1>2, <2>1
  <2> HIDE DEF o, p, f, q, fl, sn, cd, st
  <2>4. HasHeader(hdr, w) /\ CallOut(hdr, p, f, sn, w, st, q, fl)
    BY <2>1, <2>3, OutHeader
  <2>2. HasHeader(hdr, w) /\ CO(hdr, w, h.status)
    BY <2>4 DEF p, f, q, fl, sn, st
  <2> QED
    BY <2>2 DEF HasHeader
<1>5. CO(WriteArg(hdr, 3, 1), [w EXCEPT ![3] = 1], h.status)
  <2> HIDE DEF hdr, w
  <2> QED
    BY <1>4, OutBody
<1>6. ASSUME NEW how \in {"no", "tchannel", "other"}, NEW o, NEW v, NEW cd, Ends(c, how, o),
             CO(o, v, cd), Sets(wrote, wrote', c, v), Sets(code, code', c, cd)
      PROVE  OutputInv'
  BY <1>2, <1>6, OutputEnds
<1>7. CASE h.raises = "no" /\ WriteAll(c, h)
  <2> DEFINE o == IF h.body = "none" THEN hdr ELSE WriteArg(hdr, 3, 1)
             v == IF h.body = "none" THEN w ELSE [w EXCEPT ![3] = 1]
  <2>1. Ends(c, "no", o) /\ Sets(code, code', c, h.status)
    BY <1>7 DEF WriteAll, Sets
  <2>2. CO(o, v, h.status)
    <3> HIDE DEF hdr, w
    <3> QED
      BY <1>4, <1>5
  <2>3. Sets(wrote, wrote', c, v)
    <3>1. wrote' = [wrote EXCEPT ![c][2] = IF e THEN @ ELSE 1,
                                 ![c][3] = IF h.body = "none" THEN @ ELSE 1]
      BY <1>7 DEF WriteAll
    <3> DEFINE y == IF h.body = "none" THEN 0 ELSE 1
    <3>2. wrote' = [wrote EXCEPT ![c] = [NoWrites EXCEPT ![2] = x, ![3] = y]]
      BY <1>3, <3>1 DEF Arg, Empty
    <3>3. [w EXCEPT ![3] = y] = v
      <4>1. CASE h.body = "none"
        BY <1>4, <4>1
      <4>2. CASE h.body # "none"
        BY <4>2
      <4> QED
        BY <4>1, <4>2
    <3>4. [NoWrites EXCEPT ![2] = x, ![3] = y] = [w EXCEPT ![3] = y]
      BY DEF NoWrites, Arg
    <3> QED
      BY <3>2, <3>3, <3>4 DEF Sets
  <2> HIDE DEF o, v
  <2> QED
    BY <1>6, <2>1, <2>2, <2>3
<1>8. CASE h.raises = "no" /\ SerializeFails(c, h)
  <2>1. Ends(c, "other", hdr) /\ Sets(code, code', c, h.status)
    BY <1>8 DEF SerializeFails, Sets
  <2>2. Sets(wrote, wrote', c, w)
    <3>1. wrote' = [wrote EXCEPT ![c][2] = IF e THEN @ ELSE 1]
      BY <1>8 DEF SerializeFails
    <3>2. wrote' = [wrote EXCEPT ![c] = w]
      BY <1>3, <3>1 DEF Arg, Empty
    <3> QED
      BY <3>2 DEF Sets
  <2> HIDE DEF hdr, w
  <2> QED
    BY <1>4, <1>6, <2>1, <2>2
<1>9. CASE h.raises # "no" /\ Ends(c, h.raises, out[c]) /\ UNCHANGED <<code, wrote>>
  <2>1. h.raises \in {"no", "tchannel", "other"}
    BY DEF Outcome
  <2>2. Sets(wrote, wrote', c, wrote[c]) /\ Sets(code, code', c, code[c])
    BY <1>9, OutputSame DEF Sets
  <2> QED
    BY <1>2, <1>9, <2>1, <2>2, OutputEndsSo
<1> QED
  BY <1>7, <1>8, <1>9 DEF Conclude

LEMMA OutputHandler ==
  ASSUME OutputInv, InputInv, SettingTypes, NEW c \in Calls, HandlerEnds(c)
  PROVE  OutputInv'
<1>1. /\ UNCHANGED <<post, flushed, returns>>
      /\ pc[c] = "run" /\ proc[c] \in Procedures /\ RequestTypes
      /\ pc[c] \notin {"ended", "other"}
  <2>1. proc[c] \in Procedures /\ RequestTypes
    BY DEF SettingTypes, InputInv
  <2>2. HandlerFrame /\ flushed' = flushed /\ pc[c] = "run"
    BY DEF HandlerEnds, Returned, DeprecatedReturned, Leaves, NotFound, Runs
  <2> QED
    BY <2>1, <2>2 DEF HandlerFrame, setting
<1>2. ASSUME NEW how \in {"no", "tchannel", "other"}, Ends(c, how, out[c]),
             wrote' = wrote, code' = code
      PROVE  OutputInv'
  <2>1. Sets(wrote, wrote', c, wrote[c]) /\ Sets(code, code', c, code[c])
    BY <1>1, <1>2, OutputSame DEF Sets
  <2> QED
    BY <1>1, <1>2, <2>1, OutputEndsSo
<1>3. CASE NotFound(c)
  BY <1>2, <1>3 DEF NotFound
<1>4. CASE Leaves(c)
  BY <1>2, <1>4 DEF Leaves
<1>5. CASE Returned(c)
  <2>1. PICK res \in Results : CanEnd(proc[c], res) /\ Conclude(c, Handle(proc[c], res))
    BY <1>5 DEF Returned
  <2> DEFINE h == Handle(proc[c], res)
  <2>2. Outcome(h) /\ Conclude(c, h)
    BY <1>1, <2>1, HandleKinds
  <2>3. wrote[c] = NoWrites /\ ~flushed[c]
    BY <1>1, <1>5 DEF OutputInv, Fresh, Returned
  <2> HIDE DEF h
  <2> QED
    BY <1>1, <2>2, <2>3, OutputConclude
<1>6. CASE DeprecatedReturned(c)
  <2>1. PICK res \in Results, w \in {"none", "value"} :
          CanEnd(proc[c], res) /\ Conclude(c, DeprecatedHandle(proc[c], w, res))
    BY <1>6 DEF DeprecatedReturned
  <2> DEFINE h == DeprecatedHandle(proc[c], w, res)
  <2>2. Outcome(h) /\ Conclude(c, h)
    BY <1>1, <2>1, HandleKinds
  <2>3. wrote[c] = NoWrites /\ ~flushed[c]
    BY <1>6 DEF DeprecatedReturned, NoWrites
  <2> HIDE DEF h
  <2> QED
    BY <1>1, <2>2, <2>3, OutputConclude
<1> QED
  BY <1>3, <1>4, <1>5, <1>6 DEF HandlerEnds

LEMMA OutputWritePiece ==
  ASSUME OutputInv, InputInv, NEW c \in Calls, NEW k \in Arg, WritePiece(c, k)
  PROVE  OutputInv'
<1>1. /\ UNCHANGED <<post, flushed, returns, code>> /\ pc[c] = "run" /\ ~returns /\ RequestTypes
      /\ pc[c] \notin {"ended", "other"} /\ k \in {2, 3}
  BY DEF WritePiece, HandlerFrame, setting, Runs, InputInv
<1>2. CASE Ends(c, "tchannel", out[c]) /\ UNCHANGED wrote
  <2>1. Sets(wrote, wrote', c, wrote[c]) /\ Sets(code, code', c, code[c])
    BY <1>1, <1>2, OutputSame DEF Sets
  <2> QED
    BY <1>1, <1>2, <2>1, OutputEndsSo
<1>3. CASE /\ CanWrite(c, k) /\ wrote' = [wrote EXCEPT ![c][k] = @ + 1]
           /\ out' = [out EXCEPT ![c] = WriteArg(@, k, wrote[c][k] + 1)]
           /\ UNCHANGED <<pc, buffer, output>>
  <2> DEFINE o == WriteArg(out[c], k, wrote[c][k] + 1)
             w == [wrote[c] EXCEPT ![k] = @ + 1]
  <2>1. CallOut(out[c], post[c], frames[c], seen[c], wrote[c], code[c], pc[c], flushed[c])
    BY DEF OutputInv
  <2>2. ResponseFuns /\ wrote[c] \in [Arg -> Nat] /\ ~out[c][k].done
    BY <1>3 DEF OutputInv, ResponseFuns, CanWrite, Writable
  <2>3. CallOut(o, post[c], frames[c], seen[c], w, code[c], pc[c], flushed[c])
    BY <1>1, <2>1, <2>2, OutWrite
  <2>4. o \in ResponseStreams /\ w \in [Arg -> Nat] /\ w # NoWrites
    <3>1. o \in ResponseStreams /\ w \in [Arg -> Nat]
      BY <2>3 DEF CallOut, ResponseTypes
    <3>2. w[k] = wrote[c][k] + 1 /\ wrote[c][k] \in Nat /\ NoWrites[k] = 0
      BY <2>2 DEF NoWrites
    <3>3. w[k] # 0
      BY <3>2
    <3> QED
      BY <3>1, <3>2, <3>3
  <2>5. /\ out'[c] = o /\ \A d \in Calls : d # c => out'[d] = out[d]
        /\ out' \in [Calls -> ResponseStreams]
    BY <1>3, <2>2, <2>4 DEF ResponseFuns
  <2>6. wrote' = [wrote EXCEPT ![c] = w]
    BY <1>3, <2>2 DEF ResponseFuns
  <2> HIDE DEF o, w
  <2>7. /\ wrote'[c] = w /\ \A d \in Calls : d # c => wrote'[d] = wrote[d]
        /\ wrote' \in [Calls -> [Arg -> Nat]]
    BY <2>2, <2>4, <2>6 DEF ResponseFuns
  <2>8. frames' = frames /\ seen' = seen /\ pc' = pc
    BY <1>3 DEF output
  <2>9. ResponseFuns'
    BY <1>1, <2>2, <2>5, <2>7, <2>8 DEF ResponseFuns
  <2>10. Fresh(o, post[c], frames[c], w, pc[c], flushed[c], returns)
    BY <1>1, <2>4 DEF Fresh
  <2> QED
    BY <1>1, <2>3, <2>5, <2>7, <2>8, <2>9, <2>10, OutputCall
<1> QED
  BY <1>2, <1>3 DEF WritePiece

LEMMA OutputFlush ==
  ASSUME OutputInv, InputInv, NEW c \in Calls, Flush(c)
  PROVE  OutputInv'
<1>1. /\ UNCHANGED <<post, frames, seen, wrote, code, pc, returns>> /\ pc[c] = "run" /\ ~returns
      /\ flushed' = [flushed EXCEPT ![c] = TRUE]
      /\ out' = [out EXCEPT ![c] = CloseArgStreams(@)]
  BY DEF Flush, HandlerFrame, setting, Runs, output
<1> DEFINE o == CloseArgStreams(out[c])
<1>2. ResponseFuns
      /\ CallOut(out[c], post[c], frames[c], seen[c], wrote[c], code[c], pc[c], flushed[c])
  BY DEF OutputInv
<1>3. /\ flushed' \in [Calls -> BOOLEAN] /\ flushed'[c]
      /\ \A d \in Calls : d # c => flushed'[d] = flushed[d]
  BY <1>1, <1>2 DEF ResponseFuns
<1>4. CallOut(o, post[c], frames[c], seen[c], wrote[c], code[c], pc[c], flushed'[c])
  BY <1>1, <1>2, <1>3, OutCloseAll
<1>5. o \in ResponseStreams
  BY <1>4 DEF CallOut, ResponseTypes
<1>6. /\ out'[c] = o /\ \A d \in Calls : d # c => out'[d] = out[d]
      /\ out' \in [Calls -> ResponseStreams]
  BY <1>1, <1>2, <1>5 DEF ResponseFuns
<1>7. ResponseFuns'
  BY <1>1, <1>2, <1>3, <1>6 DEF ResponseFuns
<1>8. Fresh(o, post[c], frames[c], wrote[c], pc[c], flushed'[c], returns)
  BY <1>1, <1>3 DEF Fresh
<1> HIDE DEF o
<1> QED
  BY <1>1, <1>3, <1>4, <1>6, <1>7, <1>8, OutputCall

-----------------------------------------------------------------------------
(* post_response and the Writer.                                           *)

LEMMA OutputPostCall ==
  ASSUME OutputInv, RequestTypes, NEW c \in Calls, NEW o, NEW p, NEW f, NEW sn,
         Sets(out, out', c, o), Sets(post, post', c, p), Sets(frames, frames', c, f),
         Sets(seen, seen', c, sn), UNCHANGED <<wrote, code, pc, flushed, returns>>,
         CallOut(o, p, f, sn, wrote[c], code[c], pc[c], flushed[c]),
         Fresh(o, p, f, wrote[c], pc[c], flushed[c], returns)
  PROVE  OutputInv'
<1>1. /\ o \in ResponseStreams /\ p \in PostRecords /\ f \in Seq(FrameKinds)
      /\ sn \in SeenRecords
  BY DEF CallOut, ResponseTypes
<1>2. ResponseFuns
  BY DEF OutputInv
<1>3. /\ out' = [out EXCEPT ![c] = o] /\ post' = [post EXCEPT ![c] = p]
      /\ frames' = [frames EXCEPT ![c] = f] /\ seen' = [seen EXCEPT ![c] = sn]
  BY DEF Sets
<1>4. ResponseFuns'
  BY <1>1, <1>2, <1>3 DEF ResponseFuns
<1>5. /\ out'[c] = o /\ post'[c] = p /\ frames'[c] = f /\ seen'[c] = sn
      /\ \A d \in Calls : d # c => /\ out'[d] = out[d] /\ post'[d] = post[d]
                                   /\ frames'[d] = frames[d] /\ seen'[d] = seen[d]
  BY <1>2, <1>3 DEF ResponseFuns
<1> QED
  BY <1>4, <1>5, OutputCall

\* Once _stream has something to do, the response is no longer as it was made.
Busy(c) == \A o, p, f : Fresh(o, p, f, wrote[c], pc[c], flushed[c], returns)

LEMMA PostBusy ==
  ASSUME OutputInv, NEW c \in Calls, post[c].st # "off",
         post[c].st \notin {"go", "wait"} \/ Ready(out[c][post[c].arg])
  PROVE  Busy(c)
<1>1. Fresh(out[c], post[c], frames[c], wrote[c], pc[c], flushed[c], returns)
  BY DEF OutputInv
<1>2. post[c].arg \in Arg
  BY DEF OutputInv, ResponseFuns, PostRecords
<1>3. ~Untouched(out[c], post[c], frames[c])
  BY <1>2 DEF Untouched, Ready
<1> QED
  BY <1>1, <1>3 DEF Busy, Fresh

\* _stream goes on with an answer, given or just read.
LEMMA OutputStreamed ==
  ASSUME OutputInv, RequestTypes, NEW c \in Calls, NEW o, NEW a \in {"more", "end", "failed"},
         NEW h \in Seq(Nat), NEW h2, NEW p, p = [post[c] EXCEPT !.st = a, !.hand = h],
         a # "more" => h = post[c].hand, a # "failed" => h2 = h,
         CallOut(o, p, frames[c], seen[c], wrote[c], code[c], pc[c], flushed[c]),
         Streamed(c, a, h2), Sets(out, out', c, o), Busy(c),
         UNCHANGED <<wrote, code, pc, flushed, returns>>
  PROVE  OutputInv'
<1> DEFINE x == post[c]
           f == frames[c]
           sn == seen[c]
<1>1. post \in [Calls -> PostRecords] /\ x \in PostRecords
  BY DEF OutputInv, ResponseFuns
<1>2. /\ p.arg = x.arg /\ p.first = x.first /\ p.args = x.args /\ p.st = a /\ p.hand = h
      /\ p \in PostRecords
  BY <1>1 DEF PostRecords, PostStates, ReaderStates
<1>3. Sets(frames, frames, c, f) /\ Sets(seen, seen, c, sn)
  BY OutputSame DEF Sets
<1>4. ASSUME NEW p2, NEW f2, NEW s2, Sets(post, post', c, p2), Sets(frames, frames', c, f2),
             Sets(seen, seen', c, s2),
             CallOut(o, p2, f2, s2, wrote[c], code[c], pc[c], flushed[c])
      PROVE  OutputInv'
  <2>1. Fresh(o, p2, f2, wrote[c], pc[c], flushed[c], returns)
    BY DEF Busy
  <2> QED
    BY <1>4, <2>1, OutputPostCall
<1>5. ASSUME NEW kind, PutResponse(c, kind, x.args)
      PROVE  /\ Sets(frames, frames', c, Append(f, kind))
             /\ Sets(seen, seen', c, PutSeen(sn, f, code[c], p.args))
  <2>1. frames' = [frames EXCEPT ![c] = Append(f, kind)]
    BY <1>5 DEF PutResponse, Put
  <2>2. seen' = [seen EXCEPT ![c] = PutSeen(sn, f, code[c], x.args)]
    BY <1>5 DEF PutResponse, PutSeen
  <2> QED
    BY <1>2, <2>1, <2>2 DEF Sets
<1>6. CASE a = "failed" /\ post' = [post EXCEPT ![c].st = "stopped"] /\ UNCHANGED output
  <2> DEFINE p2 == [p EXCEPT !.st = "stopped"]
  <2>1. p2 = [x EXCEPT !.st = "stopped"]
    BY <1>1, <1>6 DEF PostRecords
  <2>2. Sets(post, post', c, p2)
    BY <1>1, <1>6, <2>1 DEF Sets
  <2>3. Sets(frames, frames', c, f) /\ Sets(seen, seen', c, sn)
    BY <1>3, <1>6 DEF output
  <2>4. CallOut(o, p2, f, sn, wrote[c], code[c], pc[c], flushed[c])
    BY <1>2, <1>6, OutMoves
  <2> HIDE DEF p2, f, sn
  <2> QED
    BY <1>4, <2>2, <2>3, <2>4
<1>7. CASE /\ a # "failed" /\ x.first
           /\ post' = [post EXCEPT ![c].args = Append(@, h2), ![c].first = FALSE,
                                   ![c].st = "go", ![c].hand = <<>>]
           /\ UNCHANGED output
  <2> DEFINE p2 == [p EXCEPT !.args = Append(@, p.hand), !.first = FALSE, !.st = "go",
                             !.hand = <<>>]
             A == Append(x.args, h)
  <2>1. post' = [post EXCEPT ![c] = [x EXCEPT !.args = A, !.first = FALSE, !.st = "go",
                                              !.hand = <<>>]]
    BY <1>1, <1>7
  <2>2. p2 = [p EXCEPT !.args = A, !.first = FALSE, !.st = "go", !.hand = <<>>]
    BY <1>2
  <2> HIDE DEF A
  <2>3. [p EXCEPT !.args = A, !.first = FALSE, !.st = "go", !.hand = <<>>]
          = [x EXCEPT !.args = A, !.first = FALSE, !.st = "go", !.hand = <<>>]
    BY <1>1 DEF PostRecords
  <2>4. Sets(post, post', c, p2)
    BY <2>1, <2>2, <2>3 DEF Sets
  <2>5. Sets(frames, frames', c, f) /\ Sets(seen, seen', c, sn)
    BY <1>3, <1>7 DEF output
  <2>6. CallOut(o, p2, f, sn, wrote[c], code[c], pc[c], flushed[c])
    BY <1>2, <1>7, OutJoins
  <2> HIDE DEF p2, f, sn
  <2> QED
    BY <1>4, <2>4, <2>5, <2>6
<1>8. CASE /\ a = "more" /\ ~x.first /\ PutResponse(c, "part", x.args)
           /\ post' = [post EXCEPT ![c].args = NextArgs(x, h2), ![c].st = "write",
                                   ![c].hand = <<>>]
  <2> DEFINE p2 == [p EXCEPT !.args = <<p.hand>>, !.st = "write", !.hand = <<>>]
             A == <<h>>
  <2>1. post' = [post EXCEPT ![c] = [x EXCEPT !.args = A, !.st = "write", !.hand = <<>>]]
    BY <1>1, <1>8 DEF NextArgs
  <2>2. p2 = [p EXCEPT !.args = A, !.st = "write", !.hand = <<>>]
    BY <1>2
  <2> HIDE DEF A
  <2>3. [p EXCEPT !.args = A, !.st = "write", !.hand = <<>>]
          = [x EXCEPT !.args = A, !.st = "write", !.hand = <<>>]
    BY <1>1 DEF PostRecords
  <2>4. Sets(post, post', c, p2)
    BY <2>1, <2>2, <2>3 DEF Sets
  <2> DEFINE f2 == Append(f, "part")
             s2 == PutSeen(sn, f, code[c], p.args)
  <2>5. Sets(frames, frames', c, f2) /\ Sets(seen, seen', c, s2)
    BY <1>5, <1>8
  <2>6. CallOut(o, p2, f2, s2, wrote[c], code[c], pc[c], flushed[c])
    BY <1>2, <1>8, OutPart
  <2> HIDE DEF p2, f2, s2
  <2> QED
    BY <1>4, <2>4, <2>5, <2>6
<1>9. CASE /\ a = "end" /\ ~x.first /\ x.arg < 3
           /\ post' = [post EXCEPT ![c].arg = @ + 1, ![c].first = TRUE, ![c].st = "go"]
           /\ UNCHANGED output
  <2> DEFINE p2 == [p EXCEPT !.arg = @ + 1, !.first = TRUE, !.st = "go"]
  <2>1. post' = [post EXCEPT ![c] = [x EXCEPT !.arg = @ + 1, !.first = TRUE, !.st = "go"]]
    BY <1>1, <1>9
  <2>2. p2 = [x EXCEPT !.arg = @ + 1, !.first = TRUE, !.st = "go"]
    BY <1>1, <1>2, <1>9 DEF PostRecords
  <2>3. Sets(post, post', c, p2)
    BY <2>1, <2>2 DEF Sets
  <2>4. Sets(frames, frames', c, f) /\ Sets(seen, seen', c, sn)
    BY <1>3, <1>9 DEF output
  <2>5. CallOut(o, p2, f, sn, wrote[c], code[c], pc[c], flushed[c])
    BY <1>2, <1>9, OutNextArg
  <2> HIDE DEF p2, f, sn
  <2> QED
    BY <1>4, <2>3, <2>4, <2>5
<1>10. CASE /\ a = "end" /\ ~x.first /\ x.arg = 3 /\ PutResponse(c, "last", x.args)
            /\ post' = [post EXCEPT ![c].st = "final"]
  <2> DEFINE p2 == [p EXCEPT !.st = "final"]
             f2 == Append(f, "last")
             s2 == PutSeen(sn, f, code[c], p.args)
  <2>1. p2 = [x EXCEPT !.st = "final"]
    BY <1>1, <1>10 DEF PostRecords
  <2>2. Sets(post, post', c, p2)
    BY <1>1, <1>10, <2>1 DEF Sets
  <2>3. Sets(frames, frames', c, f2) /\ Sets(seen, seen', c, s2)
    BY <1>5, <1>10
  <2>4. CallOut(o, p2, f2, s2, wrote[c], code[c], pc[c], flushed[c])
    BY <1>2, <1>10, OutLast
  <2> HIDE DEF p2, f2, s2
  <2> QED
    BY <1>4, <2>2, <2>3, <2>4
<1> QED
  BY <1>6, <1>7, <1>8, <1>9, <1>10 DEF Streamed

\* What _stream finds when it reads.
LEMMA PostReads ==
  ASSUME OutputInv, NEW c \in Calls, NEW s, s = out[c][post[c].arg],
         (post[c].st = "go" /\ Ready(s)) \/ (post[c].st = "wait" /\ "post" \in s.woken)
  PROVE  /\ CallOut([out[c] EXCEPT ![post[c].arg] = Rest(s, "post")],
                    [post[c] EXCEPT !.st = ReadResult(s),
                                    !.hand = IF s.exc THEN <<>> ELSE Chunks(s)],
                    frames[c], seen[c], wrote[c], code[c], pc[c], flushed[c])
         /\ post[c].hand = <<>> /\ Busy(c)
         /\ Chunks(s) \in Seq(Nat) /\ (s.buf = <<>> => Chunks(s) = <<>>)
<1>1. CallOut(out[c], post[c], frames[c], seen[c], wrote[c], code[c], pc[c], flushed[c])
  BY DEF OutputInv
<1>2. /\ out[c] \in ResponseStreams /\ post[c] \in PostRecords /\ post[c].arg \in Arg
      /\ s \in Streams({"post"}) /\ OutStream(s, post[c].arg, post[c])
  <2>1. out[c] \in ResponseStreams /\ post[c] \in PostRecords
    BY <1>1 DEF CallOut, ResponseTypes
  <2>2. post[c].arg \in Arg
    BY <2>1 DEF PostRecords
  <2> QED
    BY <1>1, <2>1, <2>2 DEF CallOut, ResponseStreams
<1>3. Ready(s)
  BY <1>2 DEF OutStream
<1>4. Busy(c)
  BY <1>3, PostBusy
<1>5. post[c].hand = <<>>
  <2>1. post[c].st \in Live /\ post[c].st # "more"
    BY DEF Live
  <2> QED
    BY <1>1, <2>1 DEF CallOut, Flow
<1>6. Chunks(s) \in Seq(Nat) /\ (s.buf = <<>> => Chunks(s) = <<>>)
  BY <1>2, PostRest
<1>7. CallOut([out[c] EXCEPT ![post[c].arg] = Rest(s, "post")],
              [post[c] EXCEPT !.st = ReadResult(s),
                              !.hand = IF s.exc THEN <<>> ELSE Chunks(s)],
              frames[c], seen[c], wrote[c], code[c], pc[c], flushed[c])
  <2> DEFINE o == out[c]
             p == post[c]
             f == frames[c]
             sn == seen[c]
             w == wrote[c]
             cd == code[c]
             q == pc[c]
             fl == flushed[c]
  <2>1. /\ CallOut(o, p, f, sn, w, cd, q, fl) /\ s = o[p.arg]
        /\ (p.st = "go" /\ Ready(s)) \/ (p.st = "wait" /\ "post" \in s.woken)
    BY <1>1
  <2> HIDE DEF o, p, f, sn, w, cd, q, fl
  <2>2. CallOut([o EXCEPT ![p.arg] = Rest(s, "post")],
                [p EXCEPT !.st = ReadResult(s), !.hand = IF s.exc THEN <<>> ELSE Chunks(s)],
                f, sn, w, cd, q, fl)
    BY <2>1, OutRead
  <2> QED
    BY <2>2 DEF o, p, f, sn, w, cd, q, fl
<1> QED
  BY <1>4, <1>5, <1>6, <1>7

LEMMA OutputReadsAtOnce ==
  ASSUME OutputInv, InputInv, NEW c \in Calls, PostReadsAtOnce(c)
  PROVE  OutputInv'
<1> DEFINE k == post[c].arg
           s == out[c][k]
           o == [out[c] EXCEPT ![k] = Rest(s, "post")]
           a == ReadResult(s)
           h == IF s.exc THEN <<>> ELSE Chunks(s)
           h2 == Chunks(s)
           p == [post[c] EXCEPT !.st = a, !.hand = h]
<1>1. /\ UNCHANGED <<wrote, code, pc, flushed, returns>> /\ RequestTypes
      /\ post[c].st = "go" /\ Ready(s) /\ Streamed(c, a, h2)
      /\ out' = [out EXCEPT ![c][k] = Rest(s, "post")]
  BY DEF PostReadsAtOnce, PostFrame, setting, InputInv
<1>2. /\ CallOut(o, p, frames[c], seen[c], wrote[c], code[c], pc[c], flushed[c])
      /\ post[c].hand = <<>> /\ Busy(c) /\ h2 \in Seq(Nat) /\ (s.buf = <<>> => h2 = <<>>)
  BY <1>1, PostReads
<1>3. Sets(out, out', c, o)
  <2>1. out' = [out EXCEPT ![c] = o]
    BY <1>1
  <2> QED
    BY <2>1 DEF Sets
<1>4. /\ a \in {"more", "end", "failed"} /\ h \in Seq(Nat)
      /\ a # "more" => h = post[c].hand
      /\ a # "failed" => h2 = h
  BY <1>2 DEF ReadResult
<1>5. p = [post[c] EXCEPT !.st = a, !.hand = h]
  OBVIOUS
<1> HIDE DEF o, a, h, h2, p
<1> QED
  BY <1>1, <1>2, <1>3, <1>4, <1>5, OutputStreamed

LEMMA OutputWoken ==
  ASSUME OutputInv, InputInv, NEW c \in Calls, PostWoken(c)
  PROVE  OutputInv'
<1> DEFINE k == post[c].arg
           s == out[c][k]
           o == [out[c] EXCEPT ![k] = Rest(s, "post")]
           h == IF s.exc THEN <<>> ELSE Chunks(s)
           p == [post[c] EXCEPT !.st = ReadResult(s), !.hand = h]
           f == frames[c]
           sn == seen[c]
<1>1. /\ UNCHANGED <<wrote, code, pc, flushed, returns>> /\ RequestTypes
      /\ UNCHANGED <<frames, seen>>
      /\ post[c].st = "wait" /\ "post" \in s.woken
      /\ out' = [out EXCEPT ![c][k] = Rest(s, "post")]
      /\ post' = [post EXCEPT ![c].st = ReadResult(s), ![c].hand = h]
  BY DEF PostWoken, PostFrame, setting, InputInv, output
<1>2. CallOut(o, p, f, sn, wrote[c], code[c], pc[c], flushed[c]) /\ Busy(c)
  BY <1>1, PostReads
<1>3. Sets(out, out', c, o)
  <2>1. out' = [out EXCEPT ![c] = o]
    BY <1>1
  <2> QED
    BY <2>1 DEF Sets
<1>4. Sets(post, post', c, p)
  <2>1. post \in [Calls -> PostRecords]
    BY DEF OutputInv, ResponseFuns
  <2> HIDE DEF h
  <2>2. post' = [post EXCEPT ![c] = p]
    BY <1>1, <2>1
  <2> QED
    BY <2>2 DEF Sets
<1>5. Sets(frames, frames', c, f) /\ Sets(seen, seen', c, sn)
  BY <1>1, OutputSame DEF Sets
<1>6. Fresh(o, p, f, wrote[c], pc[c], flushed[c], returns)
  BY <1>2 DEF Busy
<1> HIDE DEF o, p, f, sn
<1> QED
  BY <1>1, <1>2, <1>3, <1>4, <1>5, <1>6, OutputPostCall

LEMMA OutputWaits ==
  ASSUME OutputInv, InputInv, NEW c \in Calls, PostWaits(c)
  PROVE  OutputInv'
<1> DEFINE k == post[c].arg
           s == out[c][k]
           o == [out[c] EXCEPT ![k] = Wait(@, "post")]
           p == [post[c] EXCEPT !.st = "wait"]
           f == frames[c]
           sn == seen[c]
<1>1. /\ UNCHANGED <<wrote, code, pc, flushed, returns>> /\ RequestTypes
      /\ UNCHANGED <<frames, seen>>
      /\ post[c].st = "go" /\ ~Ready(s)
      /\ out' = [out EXCEPT ![c][k] = Wait(@, "post")]
      /\ post' = [post EXCEPT ![c].st = "wait"]
  BY DEF PostWaits, PostFrame, setting, InputInv, output
<1>2. /\ CallOut(out[c], post[c], f, sn, wrote[c], code[c], pc[c], flushed[c])
      /\ Fresh(out[c], post[c], f, wrote[c], pc[c], flushed[c], returns)
  BY DEF OutputInv
<1>3. CallOut(o, p, f, sn, wrote[c], code[c], pc[c], flushed[c])
  BY <1>1, <1>2, OutWaits
<1>4. Sets(out, out', c, o)
  <2>1. out' = [out EXCEPT ![c] = o]
    BY <1>1
  <2> QED
    BY <2>1 DEF Sets
<1>5. post[c] \in PostRecords /\ Sets(post, post', c, p)
  <2>1. post \in [Calls -> PostRecords]
    BY DEF OutputInv, ResponseFuns
  <2>2. post' = [post EXCEPT ![c] = p]
    BY <1>1, <2>1
  <2> QED
    BY <2>1, <2>2 DEF Sets
<1>6. Sets(frames, frames', c, f) /\ Sets(seen, seen', c, sn)
  BY <1>1, OutputSame DEF Sets
<1>7. Fresh(o, p, f, wrote[c], pc[c], flushed[c], returns)
  <2>1. p.st = "wait"
    BY <1>5 DEF PostRecords
  <2>2. k \in Arg /\ out[c] \in [Arg -> Streams({"post"})]
    BY <1>2, <1>5 DEF PostRecords, CallOut, ResponseTypes, ResponseStreams
  <2>3. \A j \in Arg : o[j].buf = out[c][j].buf /\ o[j].done = out[c][j].done
                       /\ o[j].exc = out[c][j].exc
    <3>1. /\ s \in Streams({"post"}) /\ o[k] = Wait(s, "post")
          /\ \A j \in Arg : j # k => o[j] = out[c][j]
      BY <2>2
    <3>2. o[k].buf = s.buf /\ o[k].done = s.done /\ o[k].exc = s.exc
      BY <3>1 DEF Wait, Streams
    <3> QED
      BY <3>1, <3>2
  <2>4. Untouched(out[c], post[c], f) => Untouched(o, p, f)
    BY <2>1, <2>3 DEF Untouched
  <2>5. pc[c] \notin {"idle", "name", "hook"}
    BY <1>1, <1>2 DEF Fresh
  <2> QED
    BY <1>2, <2>4, <2>5 DEF Fresh
<1> HIDE DEF o, p, f, sn
<1> QED
  BY <1>1, <1>3, <1>4, <1>5, <1>6, <1>7, OutputPostCall

LEMMA OutputResumes ==
  ASSUME OutputInv, InputInv, NEW c \in Calls, PostResumes(c)
  PROVE  OutputInv'
<1> DEFINE o == out[c]
           a == post[c].st
           h == post[c].hand
           p == post[c]
<1>1. /\ UNCHANGED <<wrote, code, pc, flushed, returns>> /\ RequestTypes
      /\ a \in {"more", "end", "failed"} /\ out' = out /\ Streamed(c, a, h)
  BY DEF PostResumes, PostFrame, setting, InputInv
<1>2. CallOut(o, p, frames[c], seen[c], wrote[c], code[c], pc[c], flushed[c])
  BY DEF OutputInv
<1>3. Busy(c)
  BY <1>1, PostBusy
<1>4. p \in PostRecords
  BY <1>2 DEF CallOut, ResponseTypes
<1>5. p = [post[c] EXCEPT !.st = a, !.hand = h] /\ h \in Seq(Nat) /\ h = post[c].hand
  BY <1>4 DEF PostRecords
<1>6. Sets(out, out', c, o)
  BY <1>1, OutputSame DEF Sets
<1> HIDE DEF o, a, h, p
<1> QED
  BY <1>1, <1>2, <1>3, <1>5, <1>6, OutputStreamed

LEMMA OutputPostEnds ==
  ASSUME OutputInv, InputInv, NEW c \in Calls, PostEnds(c)
  PROVE  OutputInv'
<1> DEFINE o == CloseArgStreams(out[c])
           p == [post[c] EXCEPT !.st = "finished"]
           f == frames[c]
           sn == seen[c]
<1>1. /\ UNCHANGED <<wrote, code, pc, flushed, returns>> /\ RequestTypes
      /\ UNCHANGED <<frames, seen>>
      /\ post[c].st \in {"done", "stopped"}
      /\ out' = [out EXCEPT ![c] = CloseArgStreams(@)]
      /\ post' = [post EXCEPT ![c].st = "finished"]
  BY DEF PostEnds, PostFrame, setting, InputInv, output
<1>2. CallOut(out[c], post[c], f, sn, wrote[c], code[c], pc[c], flushed[c]) /\ Busy(c)
  BY <1>1, PostBusy DEF OutputInv
<1>3. CallOut(out[c], p, f, sn, wrote[c], code[c], pc[c], flushed[c])
  BY <1>1, <1>2, OutMoves
<1>4. post[c] \in PostRecords /\ Sets(post, post', c, p)
  <2>1. post \in [Calls -> PostRecords]
    BY DEF OutputInv, ResponseFuns
  <2>2. post' = [post EXCEPT ![c] = p]
    BY <1>1, <2>1
  <2> QED
    BY <2>1, <2>2 DEF Sets
<1>5. p.st = "finished"
  BY <1>4 DEF PostRecords
<1>6. Sets(out, out', c, o)
  <2>1. out' = [out EXCEPT ![c] = o]
    BY <1>1
  <2> QED
    BY <2>1 DEF Sets
<1> HIDE DEF p
<1>7. CallOut(o, p, f, sn, wrote[c], code[c], pc[c], flushed[c])
  BY <1>3, <1>5, OutCloseAll
<1>8. Sets(frames, frames', c, f) /\ Sets(seen, seen', c, sn)
  BY <1>1, OutputSame DEF Sets
<1>9. Fresh(o, p, f, wrote[c], pc[c], flushed[c], returns)
  BY <1>2 DEF Busy
<1> HIDE DEF o, f, sn
<1> QED
  BY <1>1, <1>4, <1>6, <1>7, <1>8, <1>9, OutputPostCall

LEMMA OutputPost ==
  ASSUME OutputInv, InputInv, NEW c \in Calls, PostStep(c)
  PROVE  OutputInv'
  BY OutputReadsAtOnce, OutputWoken, OutputWaits, OutputResumes, OutputPostEnds DEF PostStep

-----------------------------------------------------------------------------
(* The queue of the Writer.                                                *)

\* A frame of a response is in the queue only while _stream waits for it to be written, so
\* there is one at most.
Stage(x) == IF x = "part" THEN "write" ELSE "final"
Due(qu, P) ==
  /\ qu \in Seq(Calls \X FrameKinds)
  /\ \A i \in DOMAIN qu : qu[i][2] \in {"part", "last"} => P[qu[i][1]].st = Stage(qu[i][2])
  /\ \A i, j \in DOMAIN qu : /\ qu[i][2] \in {"part", "last"} /\ qu[j][2] \in {"part", "last"}
                             /\ qu[i][1] = qu[j][1]
                             => i = j

LEMMA DueSame ==
  ASSUME NEW qu, NEW P, NEW P2, Due(qu, P),
         \A d \in Calls : P[d].st \in {"write", "final"} => P2[d].st = P[d].st
  PROVE  Due(qu, P2)
<1>1. \A i \in DOMAIN qu : qu[i][1] \in Calls
  BY DEF Due
<1>2. \A i \in DOMAIN qu : qu[i][2] \in {"part", "last"} => P2[qu[i][1]].st = Stage(qu[i][2])
  BY <1>1 DEF Due, Stage
<1> QED
  BY <1>2 DEF Due

\* A message at the end of the queue, or none at its head.
LEMMA QueueAppend ==
  ASSUME NEW qu \in Seq(Calls \X FrameKinds), NEW c \in Calls, NEW x \in FrameKinds
  PROVE  /\ Append(qu, <<c, x>>) \in Seq(Calls \X FrameKinds)
         /\ DOMAIN Append(qu, <<c, x>>) = 1 .. Len(qu) + 1
         /\ DOMAIN qu = 1 .. Len(qu) /\ Len(qu) \in Nat
         /\ \A i \in 1 .. Len(qu) : Append(qu, <<c, x>>)[i] = qu[i]
         /\ Append(qu, <<c, x>>)[Len(qu) + 1] = <<c, x>>
  OBVIOUS

LEMMA DueError ==
  ASSUME NEW qu, NEW P, Due(qu, P), NEW c \in Calls, NEW x \in {"error", "unexpected"}
  PROVE  Due(Append(qu, <<c, x>>), P)
<1> DEFINE q2 == Append(qu, <<c, x>>)
<1>1. x \in FrameKinds /\ qu \in Seq(Calls \X FrameKinds)
  BY DEF FrameKinds, Due
<1>2. /\ q2 \in Seq(Calls \X FrameKinds) /\ DOMAIN q2 = 1 .. Len(qu) + 1
      /\ DOMAIN qu = 1 .. Len(qu) /\ Len(qu) \in Nat
      /\ \A i \in 1 .. Len(qu) : q2[i] = qu[i]
      /\ q2[Len(qu) + 1] = <<c, x>>
  BY <1>1, QueueAppend
<1> HIDE DEF q2
<1>3. \A i \in DOMAIN q2 : q2[i][2] \in {"part", "last"} => i \in DOMAIN qu /\ q2[i] = qu[i]
  BY <1>2
<1> QED
  BY <1>2, <1>3 DEF Due, q2

\* Only c is touched.
Others(P, P2, c) == \A d \in Calls : d # c => P2[d] = P[d]

LEMMA DueFrame ==
  ASSUME NEW qu, NEW P, NEW P2, Due(qu, P), NEW c \in Calls, NEW x \in {"part", "last"},
         P[c].st \notin {"write", "final"}, P2[c].st = Stage(x), Others(P, P2, c)
  PROVE  Due(Append(qu, <<c, x>>), P2)
<1> DEFINE q2 == Append(qu, <<c, x>>)
           n == Len(qu) + 1
<1>1. x \in FrameKinds /\ qu \in Seq(Calls \X FrameKinds)
  BY DEF FrameKinds, Due
<1>2. /\ q2 \in Seq(Calls \X FrameKinds) /\ DOMAIN q2 = 1 .. n
      /\ DOMAIN qu = 1 .. Len(qu) /\ Len(qu) \in Nat
      /\ \A i \in 1 .. Len(qu) : q2[i] = qu[i]
      /\ q2[n] = <<c, x>>
  BY <1>1, QueueAppend
<1>3. \A i \in DOMAIN q2 : (i \in DOMAIN qu /\ q2[i] = qu[i]) \/ i = n
  BY <1>2
<1>4. q2[n][1] = c /\ q2[n][2] = x
  BY <1>2
<1> HIDE DEF q2, n
<1>5. \A i \in DOMAIN qu : qu[i][2] \in {"part", "last"} => qu[i][1] # c /\ qu[i][1] \in Calls
  <2>1. \A i \in DOMAIN qu : qu[i][1] \in Calls
    BY <1>1
  <2> QED
    BY <2>1 DEF Due, Stage
<1>6. \A i \in DOMAIN q2 : q2[i][2] \in {"part", "last"} => P2[q2[i][1]].st = Stage(q2[i][2])
  BY <1>3, <1>4, <1>5 DEF Due, Others
<1>7. \A i, j \in DOMAIN q2 : /\ q2[i][2] \in {"part", "last"} /\ q2[j][2] \in {"part", "last"}
                              /\ q2[i][1] = q2[j][1]
                              => i = j
  BY <1>3, <1>4, <1>5 DEF Due
<1> QED
  BY <1>2, <1>6, <1>7 DEF Due, q2

LEMMA DueTail ==
  ASSUME NEW qu, NEW P, NEW P2, Due(qu, P), qu # <<>>, NEW c, NEW x, Head(qu) = <<c, x>>,
         \A d \in Calls : d # c => P2[d] = P[d],
         x \notin {"part", "last"} => P2[c] = P[c]
  PROVE  Due(Tail(qu), P2) /\ c \in Calls /\ x \in FrameKinds
<1> DEFINE q2 == Tail(qu)
<1>1. qu \in Seq(Calls \X FrameKinds)
  BY DEF Due
<1>2. /\ q2 \in Seq(Calls \X FrameKinds) /\ 1 \in DOMAIN qu /\ qu[1] = <<c, x>>
      /\ qu[1] \in Calls \X FrameKinds
      /\ \A i \in DOMAIN q2 : i \in Nat /\ i + 1 \in DOMAIN qu /\ q2[i] = qu[i + 1] /\ i + 1 # 1
  BY <1>1
<1> HIDE DEF q2
<1>3. c \in Calls /\ x \in FrameKinds /\ qu[1][1] = c /\ qu[1][2] = x
  BY <1>2
<1>4. \A i \in DOMAIN q2 : /\ q2[i][1] \in Calls
                           /\ q2[i][2] \in {"part", "last"} => P2[q2[i][1]] = P[q2[i][1]]
  <2>1. \A i \in DOMAIN q2 : q2[i][1] \in Calls
    BY <1>2
  <2>2. ASSUME NEW i \in DOMAIN q2, q2[i][2] \in {"part", "last"}, q2[i][1] = c,
               x \in {"part", "last"}
        PROVE  FALSE
    <3>1. i + 1 \in DOMAIN qu /\ qu[i + 1] = q2[i] /\ 1 \in DOMAIN qu /\ i + 1 # 1
      BY <1>2
    <3> DEFINE j == i + 1
    <3>2. qu[j][2] \in {"part", "last"} /\ qu[j][1] = qu[1][1] /\ qu[1][2] \in {"part", "last"}
      BY <1>3, <2>2, <3>1
    <3>3. j \in DOMAIN qu /\ 1 \in DOMAIN qu /\ j # 1
      BY <3>1
    <3> HIDE DEF j
    <3> QED
      BY <3>2, <3>3 DEF Due
  <2> QED
    BY <2>1, <2>2
<1>5. \A i \in DOMAIN q2 : q2[i][2] \in {"part", "last"} => P2[q2[i][1]].st = Stage(q2[i][2])
  <2> SUFFICES ASSUME NEW i \in DOMAIN q2, q2[i][2] \in {"part", "last"}
               PROVE  P2[q2[i][1]].st = Stage(q2[i][2])
    OBVIOUS
  <2> DEFINE j == i + 1
  <2>1. j \in DOMAIN qu /\ q2[i] = qu[j]
    BY <1>2
  <2> HIDE DEF j
  <2>2. P[qu[j][1]].st = Stage(qu[j][2])
    BY <2>1 DEF Due
  <2>3. P2[q2[i][1]] = P[q2[i][1]]
    BY <1>4
  <2> QED
    BY <2>1, <2>2, <2>3
<1>6. \A i, j \in DOMAIN q2 : /\ q2[i][2] \in {"part", "last"} /\ q2[j][2] \in {"part", "last"}
                              /\ q2[i][1] = q2[j][1]
                              => i = j
  <2> SUFFICES ASSUME NEW i \in DOMAIN q2, NEW j \in DOMAIN q2, q2[i][1] = q2[j][1],
                      q2[i][2] \in {"part", "last"}, q2[j][2] \in {"part", "last"}
               PROVE  i = j
    OBVIOUS
  <2> DEFINE i2 == i + 1
             j2 == j + 1
  <2>1. /\ i2 \in DOMAIN qu /\ j2 \in DOMAIN qu /\ q2[i] = qu[i2] /\ q2[j] = qu[j2]
        /\ i \in Nat /\ j \in Nat
    BY <1>2
  <2>2. i2 = j2
    <3> HIDE DEF i2, j2
    <3> QED
      BY <2>1 DEF Due
  <2> QED
    BY <2>1, <2>2
<1> QED
  BY <1>2, <1>3, <1>5, <1>6 DEF Due, q2

\* A frame has been written, or its caller is gone.
LEMMA OutputMessage ==
  ASSUME OutputInv, InputInv, Due(queue, post), OnMessage
  PROVE  OutputInv' /\ Due(queue, post)'
<1> DEFINE c == Head(queue)[1]
           x == Head(queue)[2]
           y == IF x \notin {"part", "last"} THEN post[c].st
                ELSE IF ~open THEN "stopped"
                ELSE IF x = "part" THEN "go" ELSE "done"
           p == [post[c] EXCEPT !.st = y]
           f == frames[c]
           sn == seen[c]
           o == out[c]
<1>1. /\ UNCHANGED <<wrote, code, pc, flushed, returns>> /\ RequestTypes
      /\ UNCHANGED <<out, frames, seen>>
      /\ queue # <<>> /\ queue' = Tail(queue) /\ Resume(c, x, open)
  BY DEF OnMessage, setting, InputInv, response
<1>2. /\ queue \in Seq(Calls \X FrameKinds) /\ 1 \in DOMAIN queue /\ Head(queue) = queue[1]
      /\ Head(queue) \in Calls \X FrameKinds
  BY <1>1 DEF Due
<1>3. c \in Calls /\ x \in FrameKinds /\ Head(queue) = <<c, x>> /\ queue[1][1] = c /\ queue[1][2] = x
  BY <1>2
<1>4. /\ post \in [Calls -> PostRecords] /\ post[c] \in PostRecords
      /\ CallOut(o, post[c], f, sn, wrote[c], code[c], pc[c], flushed[c])
      /\ Fresh(o, post[c], f, wrote[c], pc[c], flushed[c], returns)
  BY <1>3 DEF OutputInv, ResponseFuns
<1> HIDE DEF c, x
<1>5. post' = [post EXCEPT ![c] = p]
  BY <1>1, <1>4 DEF Resume
<1>6. x \notin {"part", "last"} => p = post[c]
  <2>1. x \notin {"part", "last"} => y = post[c].st
    OBVIOUS
  <2> HIDE DEF y
  <2> QED
    BY <1>4, <2>1 DEF PostRecords
<1>7. x \in {"part", "last"} => post[c].st = Stage(x)
  BY <1>2, <1>3 DEF Due
<1>8. CallOut(o, p, f, sn, wrote[c], code[c], pc[c], flushed[c])
      /\ Fresh(o, p, f, wrote[c], pc[c], flushed[c], returns)
  <2>1. CASE x \notin {"part", "last"}
    BY <1>4, <1>6, <2>1
  <2>2. CASE x \in {"part", "last"}
    <3>1. /\ y \in {"go", "done", "stopped", "finished"}
          /\ post[c].st \notin {"wait", "finished"}
          /\ y = "go" => post[c].st \in {"off", "write"}
      BY <1>7, <2>2 DEF Stage
    <3>2. Busy(c)
      BY <1>3, <1>7, <2>2, PostBusy DEF Stage
    <3>3. CallOut(o, p, f, sn, wrote[c], code[c], pc[c], flushed[c])
      <4> HIDE DEF y, o, f, sn
      <4> QED
        BY <1>4, <3>1, OutMoves
    <3> QED
      BY <3>2, <3>3 DEF Busy
  <2> QED
    BY <2>1, <2>2
<1>9. Sets(post, post', c, p)
  BY <1>5 DEF Sets
<1>10. Sets(out, out', c, o) /\ Sets(frames, frames', c, f) /\ Sets(seen, seen', c, sn)
  BY <1>1, <1>3, OutputSame DEF Sets
<1>11. OutputInv'
  <2> HIDE DEF o, p, f, sn
  <2> QED
    BY <1>1, <1>3, <1>8, <1>9, <1>10, OutputPostCall
<1>12. /\ \A d \in Calls : d # c => post'[d] = post[d]
       /\ x \notin {"part", "last"} => post'[c] = post[c]
  <2> HIDE DEF p
  <2> QED
    BY <1>3, <1>4, <1>5, <1>6
<1>13. Due(Tail(queue), post')
  <2> DEFINE P2 == post'
  <2>1. /\ \A d \in Calls : d # c => P2[d] = post[d]
        /\ x \notin {"part", "last"} => P2[c] = post[c]
    BY <1>12
  <2> HIDE DEF P2
  <2>2. Due(Tail(queue), P2)
    BY <1>1, <1>3, <2>1, DueTail
  <2> QED
    BY <2>2 DEF P2
<1>14. Due(queue, post)'
  BY <1>1, <1>13 DEF Due
<1> QED
  BY <1>11, <1>14

\* A step of serve or of handle_call sends an error at most.
Quiet(c) == UNCHANGED output \/ \E x \in {"error", "unexpected"} : SendError(c, x)

LEMMA EndsQuiet ==
  ASSUME NEW c, NEW how \in {"no", "tchannel", "other"}, NEW o, Ends(c, how, o)
  PROVE  Quiet(c)
<1>1. CASE how = "no"
  BY <1>1 DEF Ends, Quiet
<1>2. CASE how = "tchannel"
  BY <1>2 DEF Ends, Quiet
<1>3. CASE how = "other"
  BY <1>3 DEF Ends, Quiet
<1> QED
  BY <1>1, <1>2, <1>3

\* The ways a handler ends.
LEMMA HandlerEndsSo ==
  ASSUME SettingTypes, NEW c \in Calls, HandlerEnds(c)
  PROVE  /\ \E how \in {"no", "tchannel", "other"} : \E o : Ends(c, how, o)
         /\ HandlerFrame /\ pc[c] = "run"
<1>1. HandlerFrame /\ pc[c] = "run"
  BY DEF HandlerEnds, Returned, Leaves, DeprecatedReturned, NotFound, Runs
<1>2. CASE Returned(c)
  <2>1. PICK res \in Results : CanEnd(proc[c], res) /\ Conclude(c, Handle(proc[c], res))
    BY <1>2 DEF Returned
  <2>2. Outcome(Handle(proc[c], res))
    BY <2>1, HandleKinds DEF SettingTypes
  <2> QED
    BY <1>1, <2>1, <2>2, ConcludeFacts
<1>3. CASE Leaves(c)
  BY <1>1, <1>3 DEF Leaves
<1>4. CASE DeprecatedReturned(c)
  <2>1. PICK res \in Results, w \in {"none", "value"} :
          CanEnd(proc[c], res) /\ Conclude(c, DeprecatedHandle(proc[c], w, res))
    BY <1>4 DEF DeprecatedReturned
  <2>2. Outcome(DeprecatedHandle(proc[c], w, res))
    BY <2>1, HandleKinds DEF SettingTypes
  <2> QED
    BY <1>1, <2>1, <2>2, ConcludeFacts
<1>5. CASE NotFound(c)
  BY <1>1, <1>5 DEF NotFound
<1> QED
  BY <1>2, <1>3, <1>4, <1>5 DEF HandlerEnds

LEMMA QuietSteps ==
  ASSUME SettingTypes, NEW c \in Calls,
         \/ CallReq(c) \/ CallReqContinue(c) \/ ReaderStep(c) \/ NameRead(c) \/ ArgRead(c)
         \/ HandlerEnds(c) \/ (\E r \in Readers : StartRead(c, r))
         \/ (\E k \in Arg : WritePiece(c, k)) \/ Flush(c)
  PROVE  Quiet(c) /\ post' = post
<1>1. CASE CallReq(c)
  BY <1>1 DEF CallReq, Arrives, Quiet
<1>2. CASE CallReqContinue(c)
  BY <1>2 DEF CallReqContinue, Arrives, Quiet
<1>3. CASE ReaderStep(c)
  BY <1>3 DEF ReaderStep, ReadAtOnce, ReadWhenWoken, ReadWaits, Reading, Quiet
<1>4. CASE NameRead(c)
  BY <1>4 DEF NameRead, HandlerFrame, Quiet
<1>5. CASE ArgRead(c)
  <2>1. post' = post
    BY <1>5 DEF ArgRead, HandlerFrame
  <2>2. UNCHANGED output \/ \E how \in {"no", "tchannel", "other"} : Ends(c, how, out[c])
    BY <1>5 DEF ArgRead
  <2> QED
    BY <2>1, <2>2, EndsQuiet DEF Quiet
<1>6. CASE HandlerEnds(c)
  BY <1>6, HandlerEndsSo, EndsQuiet DEF HandlerFrame
<1>7. CASE \E r \in Readers : StartRead(c, r)
  BY <1>7 DEF StartRead, HandlerFrame, Quiet
<1>8. CASE \E k \in Arg : WritePiece(c, k)
  <2>1. post' = post
    BY <1>8 DEF WritePiece, HandlerFrame
  <2>2. UNCHANGED output \/ Ends(c, "tchannel", out[c])
    BY <1>8 DEF WritePiece
  <2> QED
    BY <2>1, <2>2, EndsQuiet DEF Quiet
<1>9. CASE Flush(c)
  BY <1>9 DEF Flush, HandlerFrame, Quiet
<1> QED
  BY <1>1, <1>2, <1>3, <1>4, <1>5, <1>6, <1>7, <1>8, <1>9

LEMMA DueQuiet ==
  ASSUME Due(queue, post), NEW c \in Calls, Quiet(c), NEW P, post' = P,
         \A d \in Calls : post[d].st \in {"write", "final"} => P[d].st = post[d].st
  PROVE  Due(queue, post)'
<1>1. Due(queue, P)
  BY DueSame
<1>2. CASE UNCHANGED output
  <2>1. queue' = queue
    BY <1>2 DEF output
  <2> QED
    BY <1>1, <2>1 DEF Due
<1>3. CASE \E x \in {"error", "unexpected"} : SendError(c, x)
  <2>1. PICK x \in {"error", "unexpected"} : queue' = Append(queue, <<c, x>>)
    BY <1>3 DEF SendError, Put
  <2>2. Due(Append(queue, <<c, x>>), P)
    BY <1>1, DueError
  <2> QED
    BY <2>1, <2>2 DEF Due
<1> QED
  BY <1>2, <1>3 DEF Quiet

LEMMA DuePost ==
  ASSUME OutputInv, Due(queue, post), NEW c \in Calls, PostStep(c)
  PROVE  Due(queue, post)'
<1>0. post \in [Calls -> PostRecords]
  BY DEF OutputInv, ResponseFuns
<1>1. ASSUME NEW p, post' = [post EXCEPT ![c] = p], UNCHANGED output,
             post[c].st \notin {"write", "final"}
      PROVE  Due(queue, post)'
  <2> DEFINE P == post'
  <2>1. post' = P /\ \A d \in Calls : post[d].st \in {"write", "final"} => P[d].st = post[d].st
    BY <1>0, <1>1
  <2>2. Quiet(c)
    BY <1>1 DEF Quiet
  <2> HIDE DEF P
  <2> QED
    BY <2>1, <2>2, DueQuiet
<1>2. ASSUME NEW x \in {"part", "last"}, NEW p, post' = [post EXCEPT ![c] = p], p.st = Stage(x),
             post[c].st \notin {"write", "final"}, Put(c, x)
      PROVE  Due(queue, post)'
  <2> DEFINE P == post'
  <2>1. P[c].st = Stage(x) /\ \A d \in Calls : d # c => P[d] = post[d]
    BY <1>0, <1>2
  <2>2. queue' = Append(queue, <<c, x>>)
    BY <1>2 DEF Put
  <2>3. Due(Append(queue, <<c, x>>), P)
    <3>1. post[c].st \notin {"write", "final"} /\ Due(queue, post) /\ x \in {"part", "last"}
      BY <1>2
    <3>2. Others(post, P, c)
      BY <2>1 DEF Others
    <3> HIDE DEF P
    <3> QED
      BY <2>1, <3>1, <3>2, DueFrame
  <2> QED
    BY <2>2, <2>3 DEF Due
<1>3. ASSUME NEW a, NEW h, Streamed(c, a, h), post[c].st \notin {"write", "final"}
      PROVE  Due(queue, post)'
  <2>1. CASE UNCHANGED output
    <3>1. \E p : post' = [post EXCEPT ![c] = p]
      <4>1. post[c] \in PostRecords
        BY <1>0
      <4> QED
        BY <1>0, <1>3, <2>1, <4>1 DEF Streamed
    <3> QED
      BY <1>1, <1>3, <2>1, <3>1
  <2>2. CASE /\ PutResponse(c, "part", post[c].args)
             /\ post' = [post EXCEPT ![c].args = NextArgs(post[c], h), ![c].st = "write",
                                     ![c].hand = <<>>]
    <3> DEFINE A == NextArgs(post[c], h)
               p == [post[c] EXCEPT !.args = A, !.st = "write", !.hand = <<>>]
    <3>1. post' = [post EXCEPT ![c] = p]
      BY <1>0, <2>2
    <3> HIDE DEF A
    <3>2. p.st = Stage("part")
      BY <1>0 DEF Stage, PostRecords
    <3>3. Put(c, "part")
      BY <2>2 DEF PutResponse
    <3> HIDE DEF p
    <3> QED
      BY <1>2, <1>3, <3>1, <3>2, <3>3
  <2>3. CASE PutResponse(c, "last", post[c].args) /\ post' = [post EXCEPT ![c].st = "final"]
    <3> DEFINE p == [post[c] EXCEPT !.st = "final"]
    <3>1. post' = [post EXCEPT ![c] = p]
      BY <1>0, <2>3
    <3>2. p.st = Stage("last")
      BY <1>0 DEF Stage, PostRecords
    <3>3. Put(c, "last")
      BY <2>3 DEF PutResponse
    <3> HIDE DEF p
    <3> QED
      BY <1>2, <1>3, <3>1, <3>2, <3>3
  <2> QED
    BY <1>3, <2>1, <2>2, <2>3 DEF Streamed
<1>4. CASE PostReadsAtOnce(c)
  BY <1>3, <1>4 DEF PostReadsAtOnce
<1>5. CASE PostResumes(c)
  BY <1>3, <1>5 DEF PostResumes
<1>6. CASE PostWaits(c)
  <2>1. /\ post' = [post EXCEPT ![c] = [post[c] EXCEPT !.st = "wait"]] /\ UNCHANGED output
        /\ post[c].st = "go"
    BY <1>0, <1>6 DEF PostWaits
  <2> QED
    BY <1>1, <2>1
<1>7. CASE PostWoken(c)
  <2> DEFINE s == out[c][post[c].arg]
             a == ReadResult(s)
             h == IF s.exc THEN <<>> ELSE Chunks(s)
  <2>1. /\ post' = [post EXCEPT ![c].st = a, ![c].hand = h] /\ UNCHANGED output
        /\ post[c].st = "wait"
    BY <1>7 DEF PostWoken
  <2> HIDE DEF a, h
  <2>2. post' = [post EXCEPT ![c] = [post[c] EXCEPT !.st = a, !.hand = h]]
    BY <1>0, <2>1
  <2> QED
    BY <1>1, <2>1, <2>2
<1>8. CASE PostEnds(c)
  <2>1. /\ post' = [post EXCEPT ![c] = [post[c] EXCEPT !.st = "finished"]] /\ UNCHANGED output
        /\ post[c].st \in {"done", "stopped"}
    BY <1>0, <1>8 DEF PostEnds
  <2> QED
    BY <1>1, <2>1
<1> QED
  BY <1>4, <1>5, <1>6, <1>7, <1>8 DEF PostStep

-----------------------------------------------------------------------------
(* Every step keeps what is known of the response and of the queue.        *)

LEMMA OutputNext ==
  ASSUME OutputInv, InputInv, SettingTypes, Due(queue, post), [Next]_vars
  PROVE  OutputInv' /\ Due(queue, post)'
<1>1. ASSUME UNCHANGED responseVars, queue' = queue PROVE OutputInv' /\ Due(queue, post)'
  <2>1. post' = post
    BY <1>1 DEF responseVars
  <2> QED
    BY <1>1, <2>1, OutputUnchanged DEF Due
<1>2. CASE UNCHANGED vars
  BY <1>1, <1>2 DEF vars, setting, response, output, responseVars
<1>3. CASE NextWrite
  BY <1>1, <1>3 DEF NextWrite, setting, response, responseVars
<1>4. CASE Close
  BY <1>1, <1>4 DEF Close, setting, response, output, responseVars
<1>5. ASSUME NEW c \in Calls, Quiet(c), post' = post PROVE Due(queue, post)'
  BY <1>5, DueQuiet
<1>6. ASSUME NEW c \in Calls, ReaderStep(c) PROVE OutputInv' /\ Due(queue, post)'
  <2>1. UNCHANGED responseVars /\ queue' = queue
    BY <1>6 DEF ReaderStep, ReadAtOnce, ReadWhenWoken, ReadWaits, Reading, setting, response,
                output, responseVars
  <2> QED
    BY <1>1, <2>1
<1>7. ASSUME NEW c \in Calls, NEW r \in Readers, StartRead(c, r)
      PROVE  OutputInv' /\ Due(queue, post)'
  <2>1. UNCHANGED responseVars /\ queue' = queue
    BY <1>7 DEF StartRead, HandlerFrame, setting, response, output, responseVars
  <2> QED
    BY <1>1, <2>1
<1>8. ASSUME NEW c \in Calls, Dispatch(c) PROVE OutputInv' /\ Due(queue, post)'
  <2>1. Quiet(c) /\ pc[c] = "hook"
    BY <1>8 DEF Dispatch, Quiet
  <2>2. post \in [Calls -> PostRecords] /\ post[c].st = "off"
    BY <2>1 DEF OutputInv, ResponseFuns, Fresh
  <2>3. post' = post \/ post' = [post EXCEPT ![c].st = "go"]
    BY <1>8 DEF Dispatch
  <2> DEFINE P == post'
  <2>4. post' = P /\ \A d \in Calls : post[d].st \in {"write", "final"} => P[d].st = post[d].st
    BY <2>2, <2>3
  <2> HIDE DEF P
  <2> QED
    BY <1>8, <2>1, <2>4, OutputDispatch, DueQuiet
<1>9. ASSUME NEW c \in Calls, PostStep(c) PROVE OutputInv' /\ Due(queue, post)'
  BY <1>9, OutputPost, DuePost
<1>10. ASSUME NEW c \in Calls,
              \/ CallReq(c) \/ CallReqContinue(c) \/ NameRead(c) \/ ArgRead(c)
              \/ HandlerEnds(c) \/ (\E k \in Arg : WritePiece(c, k)) \/ Flush(c)
       PROVE  OutputInv' /\ Due(queue, post)'
  <2>1. Quiet(c) /\ post' = post
    BY <1>10, QuietSteps
  <2>2. OutputInv'
    BY <1>10, OutputArrives, OutputName, OutputArgRead, OutputHandler, OutputWritePiece,
       OutputFlush
  <2> QED
    BY <1>5, <2>1, <2>2
<1> QED
  BY <1>2, <1>3, <1>4, <1>6, <1>7, <1>8, <1>9, <1>10, OutputMessage DEF Next

LEMMA OutputInit ==
  ASSUME Init
  PROVE  OutputInv /\ Due(queue, post)
<1> DEFINE S == [k \in Arg |-> NewStream]
           p == [arg |-> 1, first |-> TRUE, args |-> <<>>, hand |-> <<>>, st |-> "off"]
           sn == [at |-> 1, args |-> NoChunks, code |-> OK]
           w == [k \in Arg |-> 0]
<1>1. /\ out = [c \in Calls |-> S] /\ post = [c \in Calls |-> p]
      /\ frames = [c \in Calls |-> <<>>] /\ seen = [c \in Calls |-> sn]
      /\ wrote = [c \in Calls |-> w] /\ code = [c \in Calls |-> OK]
      /\ pc = [c \in Calls |-> "idle"] /\ flushed = [c \in Calls |-> FALSE] /\ queue = <<>>
  BY DEF Init
<1>2. /\ NewStream \in Streams({"post"}) /\ NewStream.buf = <<>> /\ ~NewStream.done
      /\ ~NewStream.exc /\ NewStream.waiting = <<>> /\ NewStream.woken = {}
  BY DEF NewStream, Streams
<1>3. S \in ResponseStreams /\ \A k \in Arg : S[k] = NewStream
  BY <1>2 DEF ResponseStreams
<1>4. /\ p \in PostRecords /\ p.arg = 1 /\ p.first /\ p.args = <<>> /\ p.hand = <<>>
      /\ p.st = "off"
  BY DEF PostRecords, PostStates, ReaderStates, Arg
<1>5. /\ sn \in SeenRecords /\ sn.at = 1 /\ sn.code = OK /\ \A k \in Arg : sn.args[k] = <<>>
  <2>1. NoChunks \in [Arg -> Seq(Nat)] /\ \A k \in Arg : NoChunks[k] = <<>>
    BY DEF NoChunks
  <2> QED
    BY <2>1 DEF SeenRecords, Arg
<1>6. w \in [Arg -> Nat] /\ w = NoWrites /\ \A k \in Arg : w[k] = 0
  BY DEF NoWrites
<1>7. <<>> \in Seq(FrameKinds) /\ Kinds(<<>>) = {} /\ OK \in {OK, FAILED}
  BY DEF Kinds
<1> HIDE DEF S, p, sn, w
<1>8. ResponseTypes(S, p, <<>>, sn, w, OK)
  BY <1>3, <1>4, <1>5, <1>6, <1>7 DEF ResponseTypes
<1>9. \A k \in Arg : OutStream(S[k], k, p)
  BY <1>2, <1>3 DEF OutStream
<1>10. Flow(S, p, sn, w)
  <2>1. \A k \in Arg : Held(p, sn.at, k) = <<>>
    BY <1>4 DEF Held, InFrame
  <2>2. \A k \in Arg : (sn.args[k] \o Held(p, sn.at, k)) \o S[k].buf = Upto(w[k])
    <3>1. Upto(0) = <<>>
      BY UptoFacts
    <3>2. <<>> \o <<>> = <<>>
      OBVIOUS
    <3>3. \A k \in Arg : /\ sn.args[k] = <<>> /\ Held(p, sn.at, k) = <<>> /\ S[k].buf = <<>>
                         /\ w[k] = 0
      BY <1>2, <1>3, <1>5, <1>6, <2>1
    <3> QED
      BY <3>1, <3>2, <3>3, Zenon
  <2>3. sn.at + Len(p.args) = p.arg + (IF p.first THEN 0 ELSE 1)
    BY <1>4, <1>5
  <2>4. \A k \in Arg : ~(k < p.arg)
    BY <1>4 DEF Arg
  <2> QED
    BY <1>4, <2>2, <2>3, <2>4 DEF Flow
<1>11. Ending(S, p, <<>>, "idle", FALSE)
  BY <1>2, <1>3, <1>4, <1>7 DEF Ending, Arg
<1>12. LastOnce(<<>>)
  BY DEF LastOnce
<1>13. CallOut(S, p, <<>>, sn, w, OK, "idle", FALSE)
  BY <1>7, <1>8, <1>9, <1>10, <1>11, <1>12 DEF CallOut, Sent
<1>14. Fresh(S, p, <<>>, w, "idle", FALSE, returns)
  BY <1>2, <1>3, <1>4, <1>6, <1>7 DEF Fresh, Untouched, Sent
<1>15. ResponseFuns
  BY <1>1, <1>3, <1>4, <1>5, <1>6, <1>7 DEF ResponseFuns
<1>16. OutputInv
  BY <1>1, <1>13, <1>14, <1>15 DEF OutputInv
<1>17. Due(queue, post)
  BY <1>1 DEF Due
<1> QED
  BY <1>16, <1>17

-----------------------------------------------------------------------------
(* The rest of the state.                                                  *)

WriterStates == {"off", "next", "get", "ended"}

RestTypes ==
  /\ open \in BOOLEAN /\ chain \in [Calls -> BOOLEAN] /\ buffer \subseteq Calls
  /\ result \in [Calls -> Results \cup {"pending"}]
  /\ writer \in WriterStates /\ wire \in [Calls -> Seq(FrameKinds)]

LEMMA SettingNext ==
  ASSUME SettingTypes, [Next]_vars
  PROVE  UNCHANGED setting /\ SettingTypes'
<1>1. ASSUME NEW c \in Calls, PostStep(c) PROVE UNCHANGED setting
  BY <1>1 DEF PostStep, PostReadsAtOnce, PostWaits, PostWoken, PostResumes, PostEnds, PostFrame
<1>2. ASSUME NEW c \in Calls, ReaderStep(c) PROVE UNCHANGED setting
  BY <1>2 DEF ReaderStep, ReadAtOnce, ReadWhenWoken, ReadWaits, Reading
<1>3. ASSUME NEW c \in Calls, HandlerEnds(c) PROVE UNCHANGED setting
  BY <1>3, HandlerEndsSo DEF HandlerFrame
<1>4. ASSUME NEW c \in Calls,
             \/ CallReq(c) \/ CallReqContinue(c) \/ NameRead(c) \/ Dispatch(c) \/ ArgRead(c)
             \/ Flush(c) \/ (\E r \in Readers : StartRead(c, r))
             \/ (\E k \in Arg : WritePiece(c, k))
      PROVE  UNCHANGED setting
  BY <1>4 DEF CallReq, CallReqContinue, Arrives, NameRead, Dispatch, ArgRead, Flush, StartRead,
              WritePiece, HandlerFrame
<1>5. UNCHANGED setting
  BY <1>1, <1>2, <1>3, <1>4 DEF Next, NextWrite, OnMessage, Close, vars
<1> QED
  BY <1>5 DEF setting, SettingTypes

LEMMA QuietWriter ==
  ASSUME writer \in WriterStates, NEW c \in Calls, Quiet(c)
  PROVE  writer' \in WriterStates
  BY DEF Quiet, SendError, Put, output, WriterStates

\* What a handler leaves behind in the buffer of the message factory, and of its result.
LEMMA ResultChanges ==
  ASSUME NEW c \in Calls, HandlerEnds(c), result \in [Calls -> Results \cup {"pending"}]
  PROVE  /\ result' \in [Calls -> Results \cup {"pending"}]
         /\ \A d \in Calls : d # c => result'[d] = result[d]
<1>1. result' = result \/ \E x \in Results : result' = [result EXCEPT ![c] = x]
  <2>1. CASE Returned(c)
    BY <2>1 DEF Returned
  <2>2. CASE Leaves(c)
    BY <2>2 DEF Leaves
  <2>3. CASE NotFound(c)
    BY <2>3 DEF NotFound
  <2>4. CASE DeprecatedReturned(c)
    <3>1. PICK res \in Results, w \in {"none", "value"} :
            result' = [result EXCEPT ![c] = IF res = "none" THEN w ELSE res]
      BY <2>4 DEF DeprecatedReturned
    <3>2. (IF res = "none" THEN w ELSE res) \in Results
      BY DEF Results
    <3> QED
      BY <3>1, <3>2
  <2> QED
    BY <2>1, <2>2, <2>3, <2>4 DEF HandlerEnds
<1> QED
  BY <1>1

LEMMA EndsBuffer ==
  ASSUME NEW c \in Calls, NEW how \in {"no", "tchannel", "other"}, NEW o, Ends(c, how, o)
  PROVE  buffer' \subseteq buffer /\ \A d \in Calls : d # c => (d \in buffer' <=> d \in buffer)
<1>1. buffer' = buffer \/ buffer' = buffer \ {c}
  <2>1. CASE how = "no"
    BY <2>1 DEF Ends
  <2>2. CASE how = "tchannel"
    BY <2>2 DEF Ends
  <2>3. CASE how = "other"
    BY <2>3 DEF Ends
  <2> QED
    BY <2>1, <2>2, <2>3
<1> QED
  BY <1>1

LEMMA RestNext ==
  ASSUME RestTypes, SettingTypes, Due(queue, post), [Next]_vars
  PROVE  RestTypes'
<1>1. CASE UNCHANGED vars
  BY <1>1 DEF RestTypes, vars, request, response, output
<1>2. CASE NextWrite
  BY <1>2 DEF NextWrite, RestTypes, request, response, WriterStates
<1>3. CASE Close
  BY <1>3 DEF Close, RestTypes, request, response, output, WriterStates
<1>4. CASE OnMessage
  <2> DEFINE c == Head(queue)[1]
             x == Head(queue)[2]
  <2>1. queue \in Seq(Calls \X FrameKinds) /\ queue # <<>>
    BY <1>4 DEF OnMessage, Due
  <2>2. Head(queue) \in Calls \X FrameKinds
    BY <2>1
  <2>3. c \in Calls /\ x \in FrameKinds
    BY <2>2
  <2>4. wire' = wire \/ wire' = [wire EXCEPT ![c] = Append(@, x)]
    BY <1>4 DEF OnMessage
  <2> HIDE DEF c, x
  <2>5. wire' \in [Calls -> Seq(FrameKinds)]
    <3>1. wire \in [Calls -> Seq(FrameKinds)]
      BY DEF RestTypes
    <3>2. Append(wire[c], x) \in Seq(FrameKinds)
      BY <2>3, <3>1
    <3> QED
      BY <2>3, <2>4, <3>1, <3>2
  <2>6. UNCHANGED <<open, chain, buffer, result>> /\ writer' = "next"
    BY <1>4 DEF OnMessage, request, response
  <2> QED
    BY <2>5, <2>6 DEF RestTypes, WriterStates
<1>5. ASSUME NEW c \in Calls, UNCHANGED <<open, wire, result>>, Quiet(c),
             chain' \in [Calls -> BOOLEAN], buffer' \subseteq Calls
      PROVE  RestTypes'
  <2>1. writer' \in WriterStates
    BY <1>5, QuietWriter DEF RestTypes
  <2> QED
    BY <1>5, <2>1 DEF RestTypes
<1>6. ASSUME NEW c \in Calls, CallReq(c) \/ CallReqContinue(c) PROVE RestTypes'
  <2>1. Quiet(c) /\ UNCHANGED <<open, wire, result>>
    BY <1>6, QuietSteps DEF CallReq, CallReqContinue, Arrives, response
  <2>2. chain' = chain \/ chain' = [chain EXCEPT ![c] = FALSE]
    BY <1>6 DEF CallReq, CallReqContinue
  <2>3. chain' \in [Calls -> BOOLEAN]
    BY <2>2 DEF RestTypes
  <2>4. buffer' \subseteq Calls
    BY <1>6 DEF CallReq, CallReqContinue, RestTypes
  <2> QED
    BY <1>5, <2>1, <2>3, <2>4
<1>7. ASSUME NEW c \in Calls, ReaderStep(c) \/ (\E r \in Readers : StartRead(c, r)) \/ NameRead(c)
                              \/ Flush(c)
      PROVE  RestTypes'
  <2>1. Quiet(c)
    BY <1>7, QuietSteps
  <2>2. UNCHANGED <<open, wire, result, chain, buffer>>
    BY <1>7 DEF ReaderStep, ReadAtOnce, ReadWhenWoken, ReadWaits, Reading, StartRead, NameRead,
                Flush, HandlerFrame, response
  <2> QED
    BY <1>5, <2>1, <2>2 DEF RestTypes
<1>8. ASSUME NEW c \in Calls, Dispatch(c) PROVE RestTypes'
  <2>1. Quiet(c) /\ UNCHANGED <<open, wire, result, chain, buffer>>
    BY <1>8 DEF Dispatch, Quiet, request, response
  <2> QED
    BY <1>5, <2>1 DEF RestTypes
<1>9. ASSUME NEW c \in Calls, ArgRead(c) \/ (\E k \in Arg : WritePiece(c, k)) PROVE RestTypes'
  <2>1. Quiet(c) /\ UNCHANGED <<open, wire, result, chain>>
    BY <1>9, QuietSteps DEF ArgRead, WritePiece, HandlerFrame
  <2>2. buffer' = buffer \/ \E how \in {"no", "tchannel", "other"} : \E o : Ends(c, how, o)
    BY <1>9 DEF ArgRead, WritePiece
  <2>3. buffer' \subseteq Calls
    BY <2>2, EndsBuffer DEF RestTypes
  <2> QED
    BY <1>5, <2>1, <2>3 DEF RestTypes
<1>10. ASSUME NEW c \in Calls, HandlerEnds(c) PROVE RestTypes'
  <2>1. Quiet(c)
    BY <1>10, QuietSteps
  <2>2. /\ UNCHANGED <<open, wire, chain>>
        /\ \E how \in {"no", "tchannel", "other"} : \E o : Ends(c, how, o)
    BY <1>10, HandlerEndsSo DEF HandlerFrame
  <2>3. buffer' \subseteq Calls
    BY <2>2, EndsBuffer DEF RestTypes
  <2>4. result' \in [Calls -> Results \cup {"pending"}]
    BY <1>10, ResultChanges DEF RestTypes
  <2>5. writer' \in WriterStates
    BY <2>1, QuietWriter DEF RestTypes
  <2> QED
    BY <2>2, <2>3, <2>4, <2>5 DEF RestTypes
<1>11. ASSUME NEW c \in Calls, PostStep(c) PROVE RestTypes'
  <2>1. UNCHANGED <<open, wire, chain, buffer, result>>
    BY <1>11 DEF PostStep, PostReadsAtOnce, PostWaits, PostWoken, PostResumes, PostEnds,
                 PostFrame, request
  <2>2. UNCHANGED output \/ \E x : Put(c, x)
    BY <1>11 DEF PostStep, PostReadsAtOnce, PostWaits, PostWoken, PostResumes, PostEnds,
                 Streamed, PutResponse
  <2>3. writer' \in WriterStates
    BY <2>2 DEF output, Put, RestTypes, WriterStates
  <2> QED
    BY <2>1, <2>3 DEF RestTypes
<1> QED
  BY <1>1, <1>2, <1>3, <1>4, <1>6, <1>7, <1>8, <1>9, <1>10, <1>11 DEF Next

-----------------------------------------------------------------------------
(* Errors: a call is told of one only when its request is found to be bad  *)
(* or when handle_call ends that way.                                      *)

Failures == {"tchannel", "other", "refused"}
Reported(f) == Kinds(f) \cap {"error", "unexpected"} # {}

\* A frame of the request is still to come and would find no message to continue.
Orphan(c) == next[c] \in 2 .. Len(layout[c]) /\ c \notin buffer

ErrorInv ==
  \A c \in Calls :
    /\ Reported(frames[c]) => ~chain[c] \/ pc[c] \in Failures
    /\ Orphan(c) => ~chain[c] \/ pc[c] = "other"

\* A step of call c leaves the others as they are.
errorVars == <<frames, chain, pc, next, layout, buffer>>
Apart(c) ==
  \A d \in Calls : d # c =>
    /\ frames'[d] = frames[d] /\ chain'[d] = chain[d] /\ pc'[d] = pc[d]
    /\ next'[d] = next[d] /\ layout'[d] = layout[d] /\ (d \in buffer' <=> d \in buffer)

LEMMA ErrorCall ==
  ASSUME ErrorInv, NEW c \in Calls, Apart(c),
         chain'[c] => chain[c],
         pc[c] \in Failures => pc'[c] = pc[c],
         Reported(frames'[c]) => Reported(frames[c]) \/ ~chain'[c] \/ pc'[c] \in Failures,
         Orphan(c)' => Orphan(c) \/ ~chain'[c] \/ pc'[c] = "other"
  PROVE  ErrorInv'
<1>1. ASSUME NEW d \in Calls
      PROVE  /\ Reported(frames'[d]) => ~chain'[d] \/ pc'[d] \in Failures
             /\ Orphan(d)' => ~chain'[d] \/ pc'[d] = "other"
  <2>1. CASE d = c
    BY <2>1 DEF ErrorInv, Failures
  <2>2. CASE d # c
    BY <2>2 DEF ErrorInv, Apart, Orphan
  <2> QED
    BY <2>1, <2>2
<1> QED
  BY <1>1 DEF ErrorInv, Reported

LEMMA ErrorUnchanged ==
  ASSUME ErrorInv, UNCHANGED errorVars
  PROVE  ErrorInv'
  BY DEF ErrorInv, errorVars, Orphan, Reported

\* What the frames handed to the Writer say.
LEMMA ReportedAppend ==
  ASSUME NEW f \in Seq(FrameKinds), NEW x \in FrameKinds
  PROVE  Reported(Append(f, x)) <=> Reported(f) \/ x \in {"error", "unexpected"}
  BY AppendKinds DEF Reported

LEMMA QuietFrames ==
  ASSUME frames \in [Calls -> Seq(FrameKinds)], NEW c \in Calls, Quiet(c)
  PROVE  \A d \in Calls : d # c => frames'[d] = frames[d]
  BY DEF Quiet, SendError, Put, output

\* The end of handle_call.
LEMMA ErrorEnds ==
  ASSUME ErrorInv, OutputInv, InputInv, NEW c \in Calls, NEW how \in {"no", "tchannel", "other"},
         NEW o, Ends(c, how, o), pc[c] \notin Failures, UNCHANGED <<chain, next, layout>>
  PROVE  ErrorInv'
<1> DEFINE q == IF how = "no" THEN "ended" ELSE how
<1>1. frames \in [Calls -> Seq(FrameKinds)] /\ pc \in [Calls -> PcStates]
  BY DEF OutputInv, ResponseFuns, InputInv, RequestTypes
<1>2. pc' = [pc EXCEPT ![c] = q]
  BY DEF Ends
<1>3. pc'[c] = q /\ \A d \in Calls : d # c => pc'[d] = pc[d]
  BY <1>1, <1>2
<1>4. Apart(c)
  BY <1>1, <1>3, EndsQuiet, QuietFrames, EndsBuffer DEF Apart
<1>5. how = "no" => frames' = frames
  BY DEF Ends, output
<1>6. how # "other" => buffer' = buffer
  BY DEF Ends
<1>7. how # "no" => q \in Failures
  BY DEF Failures
<1>8. Orphan(c)' => Orphan(c) \/ how = "other"
  BY <1>6 DEF Orphan
<1>9. how = "other" => q = "other"
  OBVIOUS
<1> HIDE DEF q
<1> QED
  BY <1>3, <1>4, <1>5, <1>7, <1>8, <1>9, ErrorCall

\* handle_call goes on without a report, or refuses the call.
LEMMA ErrorMoves ==
  ASSUME ErrorInv, OutputInv, InputInv, NEW c \in Calls, NEW q, pc' = [pc EXCEPT ![c] = q],
         pc[c] \notin Failures, Quiet(c), UNCHANGED <<chain, next, layout, buffer>>,
         frames' = frames \/ q \in Failures
  PROVE  ErrorInv'
<1>1. frames \in [Calls -> Seq(FrameKinds)] /\ pc \in [Calls -> PcStates]
  BY DEF OutputInv, ResponseFuns, InputInv, RequestTypes
<1>2. pc'[c] = q /\ \A d \in Calls : d # c => pc'[d] = pc[d]
  BY <1>1
<1>3. Apart(c)
  BY <1>1, <1>2, QuietFrames DEF Apart
<1>4. Orphan(c)' => Orphan(c)
  BY DEF Orphan
<1> QED
  BY <1>2, <1>3, <1>4, ErrorCall

\* A frame of the request arrives.
LEMMA ErrorArrives ==
  ASSUME ErrorInv, OutputInv, InputInv, RestTypes, SettingTypes, NEW c \in Calls,
         CallReq(c) \/ CallReqContinue(c)
  PROVE  ErrorInv'
<1>1. /\ frames \in [Calls -> Seq(FrameKinds)] /\ pc \in [Calls -> PcStates]
      /\ chain \in [Calls -> BOOLEAN] /\ next \in [Calls -> Nat \ {0}]
      /\ layout \in [Calls -> Seq(Seq(Pieces))] /\ (next[c] = 1 => pc[c] = "idle")
  BY DEF OutputInv, ResponseFuns, InputInv, RequestTypes, RestTypes, CallIn, ReadersInv
<1>2. /\ next' = [next EXCEPT ![c] = @ + 1] /\ layout' = layout /\ next[c] <= Len(layout[c])
      /\ Quiet(c)
  BY QuietSteps DEF CallReq, CallReqContinue, Arrives
<1>3. /\ next'[c] = next[c] + 1 /\ next[c] \in Nat \ {0} /\ Len(layout[c]) \in Nat
      /\ \A d \in Calls : d # c => next'[d] = next[d]
  BY <1>1, <1>2
<1>4. chain' = chain \/ chain' = [chain EXCEPT ![c] = FALSE]
  BY DEF CallReq, CallReqContinue
<1>5. /\ chain'[c] => chain[c]
      /\ \A d \in Calls : d # c => chain'[d] = chain[d]
  BY <1>1, <1>4
<1>6. pc' = pc \/ (next[c] = 1 /\ pc' = [pc EXCEPT ![c] = "name"])
  BY DEF CallReq, CallReqContinue
<1>7. /\ pc[c] \in Failures => pc'[c] = pc[c]
      /\ \A d \in Calls : d # c => pc'[d] = pc[d]
  BY <1>1, <1>6 DEF Failures
<1>8. \A d \in Calls : d # c => (d \in buffer' <=> d \in buffer)
  BY DEF CallReq, CallReqContinue
<1>9. Apart(c)
  BY <1>1, <1>2, <1>3, <1>5, <1>7, <1>8, QuietFrames DEF Apart
<1>10. IsLast(c) <=> next[c] = Len(layout[c])
  BY DEF IsLast
<1>11. Orphan(c)' <=> next'[c] \in 2 .. Len(layout[c]) /\ c \notin buffer'
  BY <1>2 DEF Orphan
<1>12. CASE CallReq(c)
  <2>1. next[c] = 1 /\ (UNCHANGED output \/ ~chain'[c])
    BY <1>1, <1>12 DEF CallReq
  <2>2. Reported(frames'[c]) => Reported(frames[c]) \/ ~chain'[c]
    BY <2>1 DEF output
  <2>3. chain'[c] => IsLast(c) \/ c \in buffer'
    BY <1>1, <1>12 DEF CallReq
  <2>4. Orphan(c)' => ~chain'[c]
    BY <1>3, <1>10, <1>11, <2>3
  <2> QED
    BY <1>5, <1>7, <1>9, <2>2, <2>4, ErrorCall
<1>13. CASE CallReqContinue(c)
  <2>1. next[c] > 1 /\ pc' = pc
    BY <1>13 DEF CallReqContinue
  <2>2. c \notin buffer => Orphan(c)
    BY <1>2, <1>3, <2>1 DEF Orphan
  <2>3. \/ c \notin buffer
        \/ (UNCHANGED output /\ c \in buffer /\ (IsLast(c) \/ c \in buffer'))
        \/ ~chain'[c]
    BY <1>1, <1>13 DEF CallReqContinue
  <2>4. Orphan(c) => ~chain'[c] \/ pc'[c] = "other"
    BY <1>5, <2>1 DEF ErrorInv
  <2>5. Reported(frames'[c]) => Reported(frames[c]) \/ ~chain'[c] \/ pc'[c] \in Failures
    BY <2>2, <2>3, <2>4 DEF output, Failures
  <2>6. Orphan(c)' => Orphan(c) \/ ~chain'[c] \/ pc'[c] = "other"
    BY <1>3, <1>10, <1>11, <2>2, <2>3
  <2> QED
    BY <1>5, <1>7, <1>9, <2>5, <2>6, ErrorCall
<1> QED
  BY <1>12, <1>13

\* _stream puts frames of the response together.
LEMMA ErrorPost ==
  ASSUME ErrorInv, OutputInv, InputInv, NEW c \in Calls, PostStep(c)
  PROVE  ErrorInv'
<1>1. UNCHANGED <<chain, pc, next, layout, buffer>>
  BY DEF PostStep, PostReadsAtOnce, PostWaits, PostWoken, PostResumes, PostEnds, PostFrame,
         request
<1>2. UNCHANGED output \/ \E x \in {"part", "last"} : Put(c, x)
  BY DEF PostStep, PostReadsAtOnce, PostWaits, PostWoken, PostResumes, PostEnds, Streamed,
         PutResponse
<1>3. CASE UNCHANGED output
  BY <1>1, <1>3, ErrorUnchanged DEF errorVars, output
<1>4. CASE \E x \in {"part", "last"} : Put(c, x)
  <2>1. PICK x \in {"part", "last"} : frames' = [frames EXCEPT ![c] = Append(@, x)]
    BY <1>4 DEF Put
  <2>2. frames \in [Calls -> Seq(FrameKinds)] /\ x \in FrameKinds
    BY DEF OutputInv, ResponseFuns, FrameKinds
  <2>3. frames'[c] = Append(frames[c], x) /\ \A d \in Calls : d # c => frames'[d] = frames[d]
    BY <2>1, <2>2
  <2>4. Reported(frames'[c]) => Reported(frames[c])
    BY <2>2, <2>3, ReportedAppend
  <2>5. Apart(c) /\ (Orphan(c)' => Orphan(c))
    BY <1>1, <2>3 DEF Apart, Orphan
  <2> QED
    BY <1>1, <2>4, <2>5, ErrorCall
<1> QED
  BY <1>2, <1>3, <1>4

LEMMA ErrorNext ==
  ASSUME ErrorInv, OutputInv, InputInv, RestTypes, SettingTypes, [Next]_vars
  PROVE  ErrorInv'
<1>1. CASE UNCHANGED vars
  BY <1>1, ErrorUnchanged DEF vars, request, output, errorVars
<1>2. CASE NextWrite
  BY <1>2, ErrorUnchanged DEF NextWrite, request, errorVars
<1>3. CASE OnMessage
  BY <1>3, ErrorUnchanged DEF OnMessage, request, errorVars
<1>4. CASE Close
  BY <1>4, ErrorUnchanged DEF Close, request, output, errorVars
<1>5. ASSUME NEW c \in Calls, ReaderStep(c) \/ (\E r \in Readers : StartRead(c, r)) \/ Flush(c)
      PROVE  ErrorInv'
  <2>1. UNCHANGED errorVars
    BY <1>5 DEF ReaderStep, ReadAtOnce, ReadWhenWoken, ReadWaits, Reading, StartRead, Flush,
                HandlerFrame, output, errorVars
  <2> QED
    BY <2>1, ErrorUnchanged
<1>6. ASSUME NEW c \in Calls, NameRead(c) PROVE ErrorInv'
  <2>1. /\ UNCHANGED <<chain, next, layout, buffer>>
        /\ frames' = frames /\ pc[c] \notin Failures /\ Quiet(c)
    BY <1>6 DEF NameRead, HandlerFrame, output, Failures, Quiet
  <2>2. PICK q \in {"hook", "dead"} : pc' = [pc EXCEPT ![c] = q]
    BY <1>6 DEF NameRead
  <2> QED
    BY <2>1, <2>2, ErrorMoves
<1>7. ASSUME NEW c \in Calls, Dispatch(c) PROVE ErrorInv'
  <2>1. /\ UNCHANGED <<chain, next, layout, buffer>> /\ pc[c] \notin Failures
    BY <1>7 DEF Dispatch, request, Failures
  <2>2. CASE GetEndpoint(c) = "mismatch"
    <3>1. pc' = [pc EXCEPT ![c] = "refused"] /\ Quiet(c) /\ "refused" \in Failures
      BY <1>7, <2>2 DEF Dispatch, Quiet, Failures
    <3> QED
      BY <2>1, <3>1, ErrorMoves
  <2>3. CASE GetEndpoint(c) # "mismatch"
    <3> DEFINE q == IF returns THEN "body" ELSE "run"
    <3>1. pc' = [pc EXCEPT ![c] = q] /\ Quiet(c) /\ frames' = frames
      BY <1>7, <2>3 DEF Dispatch, Quiet, output
    <3> HIDE DEF q
    <3> QED
      BY <2>1, <3>1, ErrorMoves
  <2> QED
    BY <2>2, <2>3
<1>8. ASSUME NEW c \in Calls, ArgRead(c) PROVE ErrorInv'
  <2>1. UNCHANGED <<chain, next, layout>> /\ pc[c] \notin Failures
    BY <1>8 DEF ArgRead, HandlerFrame, Failures
  <2>2. CASE \E how \in {"no", "tchannel", "other"} : Ends(c, how, out[c])
    BY <2>1, <2>2, ErrorEnds
  <2>3. CASE /\ pc' = [pc EXCEPT ![c] = IF @ = "body" THEN "header" ELSE "run"]
             /\ UNCHANGED <<out, buffer, output>>
    <3> DEFINE q == IF pc[c] = "body" THEN "header" ELSE "run"
    <3>1. pc' = [pc EXCEPT ![c] = q] /\ Quiet(c) /\ frames' = frames /\ buffer' = buffer
      BY <2>3 DEF Quiet, output
    <3> HIDE DEF q
    <3> QED
      BY <2>1, <3>1, ErrorMoves
  <2> QED
    BY <1>8, <2>2, <2>3 DEF ArgRead
<1>9. ASSUME NEW c \in Calls, HandlerEnds(c) PROVE ErrorInv'
  <2>1. /\ \E how \in {"no", "tchannel", "other"} : \E o : Ends(c, how, o)
        /\ UNCHANGED <<chain, next, layout>> /\ pc[c] \notin Failures
    BY <1>9, HandlerEndsSo DEF HandlerFrame, Failures
  <2> QED
    BY <2>1, ErrorEnds
<1>10. ASSUME NEW c \in Calls, NEW k \in Arg, WritePiece(c, k) PROVE ErrorInv'
  <2>1. UNCHANGED <<chain, next, layout>> /\ pc[c] \notin Failures
    BY <1>10 DEF WritePiece, HandlerFrame, Failures, Runs
  <2>2. UNCHANGED <<pc, buffer, output>> \/ Ends(c, "tchannel", out[c])
    BY <1>10 DEF WritePiece
  <2>3. CASE UNCHANGED <<pc, buffer, output>>
    BY <2>1, <2>3, ErrorUnchanged DEF errorVars, output
  <2> QED
    BY <2>1, <2>2, <2>3, ErrorEnds
<1> QED
  BY <1>1, <1>2, <1>3, <1>4, <1>5, <1>6, <1>7, <1>8, <1>9, <1>10, ErrorArrives, ErrorPost DEF Next

-----------------------------------------------------------------------------
(* total_outbound_pendings counts the responses that post_response is at.  *)

Settled == {"off", "finished"}
Unsettled(P) == {c \in Calls : P[c].st \notin Settled}
CountInv == IsFiniteSet(Unsettled(post)) /\ pendings = Cardinality(Unsettled(post))

LEMMA CountSame ==
  ASSUME CountInv, pendings' = pendings,
         \A d \in Calls : post'[d].st \in Settled <=> post[d].st \in Settled
  PROVE  CountInv'
<1>1. Unsettled(post') = Unsettled(post)
  BY DEF Unsettled
<1> QED
  BY <1>1 DEF CountInv

LEMMA CountDispatch ==
  ASSUME CountInv, OutputInv, NEW c \in Calls, Dispatch(c)
  PROVE  CountInv'
<1>1. CASE post' = post /\ pendings' = pendings
  BY <1>1, CountSame
<1>2. CASE post' = [post EXCEPT ![c].st = "go"] /\ pendings' = pendings + 1
  <2>1. post \in [Calls -> PostRecords] /\ pc[c] = "hook" /\ post[c].st = "off"
    BY DEF OutputInv, ResponseFuns, Dispatch, Fresh
  <2>2. post'[c].st = "go" /\ \A d \in Calls : d # c => post'[d] = post[d]
    BY <1>2, <2>1 DEF PostRecords
  <2>3. Unsettled(post') = Unsettled(post) \cup {c} /\ c \notin Unsettled(post)
    BY <2>1, <2>2 DEF Unsettled, Settled
  <2> DEFINE S == Unsettled(post)
  <2>4. IsFiniteSet(S) /\ pendings = Cardinality(S) /\ c \notin S
    BY <2>3 DEF CountInv
  <2> HIDE DEF S
  <2>5. IsFiniteSet(S \cup {c}) /\ Cardinality(S \cup {c}) = Cardinality(S) + 1
    BY <2>4, FS_AddElement
  <2>6. Unsettled(post') = S \cup {c}
    BY <2>3 DEF S
  <2> QED
    BY <1>2, <2>4, <2>5, <2>6 DEF CountInv
<1> QED
  BY <1>1, <1>2 DEF Dispatch

LEMMA CountEnds ==
  ASSUME CountInv, OutputInv, NEW c \in Calls, PostEnds(c)
  PROVE  CountInv'
<1>1. /\ post' = [post EXCEPT ![c].st = "finished"] /\ pendings' = pendings - 1
      /\ post[c].st \in {"done", "stopped"} /\ post \in [Calls -> PostRecords]
  BY DEF PostEnds, OutputInv, ResponseFuns
<1>2. post'[c].st = "finished" /\ \A d \in Calls : d # c => post'[d] = post[d]
  BY <1>1 DEF PostRecords
<1>3. Unsettled(post') = Unsettled(post) \ {c} /\ c \in Unsettled(post)
  BY <1>1, <1>2 DEF Unsettled, Settled
<1> DEFINE S == Unsettled(post)
<1>4. IsFiniteSet(S) /\ pendings = Cardinality(S) /\ c \in S
  BY <1>3 DEF CountInv
<1> HIDE DEF S
<1>5. IsFiniteSet(S \ {c}) /\ Cardinality(S \ {c}) = Cardinality(S) - 1
  BY <1>4, FS_RemoveElement
<1>6. Unsettled(post') = S \ {c}
  BY <1>3 DEF S
<1> QED
  BY <1>1, <1>4, <1>5, <1>6 DEF CountInv

\* _stream moves between states in which its response is counted.
LEMMA StreamedMoves ==
  ASSUME OutputInv, NEW c \in Calls, NEW a, NEW h, Streamed(c, a, h)
  PROVE  /\ post'[c].st \in {"stopped", "go", "write", "final"}
         /\ \A d \in Calls : d # c => post'[d] = post[d]
<1> DEFINE A == Append(post[c].args, h)
           B == NextArgs(post[c], h)
           n == post[c].arg + 1
           p1 == [post[c] EXCEPT !.st = "stopped"]
           p2 == [post[c] EXCEPT !.args = A, !.first = FALSE, !.st = "go", !.hand = <<>>]
           p3 == [post[c] EXCEPT !.args = B, !.st = "write", !.hand = <<>>]
           p4 == [post[c] EXCEPT !.arg = n, !.first = TRUE, !.st = "go"]
           p5 == [post[c] EXCEPT !.st = "final"]
<1>1. post \in [Calls -> PostRecords]
  BY DEF OutputInv, ResponseFuns
<1>2. \/ post' = [post EXCEPT ![c] = p1] \/ post' = [post EXCEPT ![c] = p2]
      \/ post' = [post EXCEPT ![c] = p3] \/ post' = [post EXCEPT ![c] = p4]
      \/ post' = [post EXCEPT ![c] = p5]
  BY <1>1 DEF Streamed
<1> HIDE DEF A, B, n
<1>3. post[c] \in PostRecords
  BY <1>1
<1>4. p1.st = "stopped" /\ p2.st = "go" /\ p3.st = "write" /\ p4.st = "go" /\ p5.st = "final"
  BY <1>3 DEF PostRecords
<1> HIDE DEF p1, p2, p3, p4, p5
<1> QED
  BY <1>1, <1>2, <1>4

LEMMA CountNext ==
  ASSUME CountInv, OutputInv, InputInv, SettingTypes, Due(queue, post), [Next]_vars
  PROVE  CountInv'
<1>0. post \in [Calls -> PostRecords]
  BY DEF OutputInv, ResponseFuns
<1>1. ASSUME UNCHANGED <<post, pendings>> PROVE CountInv'
  BY <1>1, CountSame
<1>2. CASE UNCHANGED vars \/ NextWrite \/ Close
  BY <1>1, <1>2 DEF vars, NextWrite, Close
<1>3. CASE OnMessage
  <2> DEFINE c == Head(queue)[1]
             x == Head(queue)[2]
             y == IF x \notin {"part", "last"} THEN post[c].st
                  ELSE IF ~open THEN "stopped"
                  ELSE IF x = "part" THEN "go" ELSE "done"
  <2>1. queue \in Seq(Calls \X FrameKinds) /\ queue # <<>>
    BY <1>3 DEF OnMessage, Due
  <2>2. Head(queue) \in Calls \X FrameKinds /\ 1 \in DOMAIN queue /\ Head(queue) = queue[1]
    BY <2>1
  <2>3. c \in Calls /\ (x \in {"part", "last"} => post[c].st = Stage(x))
    BY <2>2 DEF Due
  <2>4. post' = [post EXCEPT ![c].st = y] /\ pendings' = pendings
    BY <1>3 DEF OnMessage, Resume
  <2>5. y \in Settled <=> post[c].st \in Settled
    BY <2>3 DEF Settled, Stage
  <2> HIDE DEF c, x, y
  <2>6. post'[c].st = y /\ \A d \in Calls : d # c => post'[d] = post[d]
    BY <1>0, <2>3, <2>4 DEF PostRecords
  <2> QED
    BY <2>4, <2>5, <2>6, CountSame
<1>4. ASSUME NEW c \in Calls,
             \/ CallReq(c) \/ CallReqContinue(c) \/ ReaderStep(c) \/ NameRead(c) \/ ArgRead(c)
             \/ HandlerEnds(c) \/ (\E r \in Readers : StartRead(c, r))
             \/ (\E k \in Arg : WritePiece(c, k)) \/ Flush(c)
      PROVE  CountInv'
  <2>1. post' = post
    BY <1>4, QuietSteps
  <2>2. CASE HandlerEnds(c)
    BY <1>1, <2>1, <2>2, HandlerEndsSo DEF HandlerFrame
  <2>3. CASE ~HandlerEnds(c)
    <3>1. pendings' = pendings
      BY <1>4, <2>3 DEF CallReq, CallReqContinue, Arrives, ReaderStep, ReadAtOnce, ReadWhenWoken,
                        ReadWaits, Reading, NameRead, ArgRead, StartRead, WritePiece, Flush,
                        HandlerFrame
    <3> QED
      BY <1>1, <2>1, <3>1
  <2> QED
    BY <2>2, <2>3
<1>5. ASSUME NEW c \in Calls, PostStep(c) PROVE CountInv'
  <2>1. CASE PostReadsAtOnce(c)
    <3>1. pendings' = pendings /\ post[c].st \notin Settled
      BY <2>1 DEF PostReadsAtOnce, Settled
    <3>2. \E a, h : Streamed(c, a, h)
      BY <2>1 DEF PostReadsAtOnce
    <3>3. post'[c].st \notin Settled /\ \A d \in Calls : d # c => post'[d] = post[d]
      BY <3>2, StreamedMoves DEF Settled
    <3> QED
      BY <3>1, <3>3, CountSame
  <2>2. CASE PostResumes(c)
    <3>1. pendings' = pendings /\ post[c].st \notin Settled
      BY <2>2 DEF PostResumes, Settled
    <3>2. \E a, h : Streamed(c, a, h)
      BY <2>2 DEF PostResumes
    <3>3. post'[c].st \notin Settled /\ \A d \in Calls : d # c => post'[d] = post[d]
      BY <3>2, StreamedMoves DEF Settled
    <3> QED
      BY <3>1, <3>3, CountSame
  <2>3. CASE PostWaits(c)
    <3>1. /\ pendings' = pendings /\ post[c].st \notin Settled
          /\ post' = [post EXCEPT ![c].st = "wait"]
      BY <2>3 DEF PostWaits, Settled
    <3>2. post'[c].st \notin Settled /\ \A d \in Calls : d # c => post'[d] = post[d]
      BY <1>0, <3>1 DEF Settled, PostRecords
    <3> QED
      BY <3>1, <3>2, CountSame
  <2>4. CASE PostWoken(c)
    <3> DEFINE s == out[c][post[c].arg]
               a == ReadResult(s)
               h == IF s.exc THEN <<>> ELSE Chunks(s)
    <3>1. /\ pendings' = pendings /\ post[c].st \notin Settled
          /\ post' = [post EXCEPT ![c].st = a, ![c].hand = h]
      BY <2>4 DEF PostWoken, Settled
    <3>2. a \notin Settled
      BY DEF ReadResult, Settled
    <3> HIDE DEF a, h
    <3>3. post'[c].st = a /\ \A d \in Calls : d # c => post'[d] = post[d]
      BY <1>0, <3>1 DEF PostRecords
    <3> QED
      BY <3>1, <3>2, <3>3, CountSame
  <2> QED
    BY <1>5, <2>1, <2>2, <2>3, <2>4, CountEnds DEF PostStep
<1> QED
  BY <1>2, <1>3, <1>4, <1>5, CountDispatch DEF Next

-----------------------------------------------------------------------------
(* The result of the user's function and what the caller is told of it.    *)

\* What the wrapper made of the result res of a function of procedure p.
Wrapped(ret, p, res) == IF ret THEN Handle(p, res) ELSE DeprecatedHandle(p, "none", res)

\* A handler that went well, with the code it set.
WentWell(ret, p, res, cd) ==
  /\ CanEnd(p, res) /\ (~ret => p.scheme = "thrift")
  /\ Wrapped(ret, p, res).raises = "no" /\ Wrapped(ret, p, res).status = cd

ResultInv ==
  \A c \in Calls : result[c] # "pending" =>
    /\ pc[c] \in {"ended", "other", "tchannel"} /\ ~flushed[c]
    /\ pc[c] = "ended" => WentWell(returns, proc[c], result[c], code[c])

LEMMA ResultKept ==
  ASSUME ResultInv, UNCHANGED setting,
         \A d \in Calls :
           /\ result'[d] = result[d]
           /\ pc[d] \in {"ended", "other", "tchannel"} =>
                pc'[d] = pc[d] /\ code'[d] = code[d] /\ flushed'[d] = flushed[d]
  PROVE  ResultInv'
<1>1. returns' = returns /\ proc' = proc
  BY DEF setting
<1>2. ASSUME NEW d \in Calls, result'[d] # "pending"
      PROVE  /\ pc'[d] \in {"ended", "other", "tchannel"} /\ ~flushed'[d]
             /\ pc'[d] = "ended" => WentWell(returns, proc[d], result'[d], code'[d])
  BY <1>2 DEF ResultInv
<1> QED
  BY <1>1, <1>2 DEF ResultInv

\* A function that wrote its result to the response it was given has the same effect as one
\* that returned it.
LEMMA DeprecatedSame ==
  ASSUME NEW p, NEW w \in {"none", "value"}, NEW res \in Results,
         NEW h, h = DeprecatedHandle(p, w, res), h.raises = "no"
  PROVE  h = DeprecatedHandle(p, "none", IF res = "none" THEN w ELSE res)
<1>1. CASE w = "none"
  BY <1>1
<1>2. CASE w = "value" /\ res \in {"none", "value"}
  <2>1. h = WriteResult(p, "value")
    BY <1>2 DEF DeprecatedHandle
  <2>2. DeprecatedHandle(p, "none", "value") = HandleThrift(p, "value")
    BY DEF DeprecatedHandle
  <2>3. HandleThrift(p, "value") = WriteResult(p, "value")
    BY DEF HandleThrift, ResponseFromMixed, Response
  <2> QED
    BY <1>2, <2>1, <2>2, <2>3
<1>3. CASE w = "value" /\ res = "declared"
  BY <1>3 DEF DeprecatedHandle, Raise
<1>4. CASE w = "value" /\ res \in {"tchannel", "other"}
  <2>1. h = HandleThrift(p, res)
    BY <1>4 DEF DeprecatedHandle
  <2>2. HandleThrift(p, res) = Raise(res)
    BY <1>4 DEF HandleThrift, WriteExcInfo
  <2> QED
    BY <1>4, <2>1, <2>2 DEF Raise
<1> QED
  BY <1>1, <1>2, <1>3, <1>4 DEF Results

LEMMA ConcludeEnds ==
  ASSUME InputInv, OutputInv, NEW c \in Calls, NEW h, Outcome(h), Conclude(c, h)
  PROVE  /\ pc'[c] \in {"ended", "other", "tchannel"}
         /\ pc'[c] = "ended" => h.raises = "no" /\ code'[c] = h.status
<1>1. pc \in [Calls -> PcStates] /\ code \in [Calls -> {OK, FAILED}]
  BY DEF InputInv, RequestTypes, OutputInv, ResponseFuns
<1>2. CASE h.raises = "no" /\ WriteAll(c, h)
  <2>1. code' = [code EXCEPT ![c] = h.status] /\ pc' = [pc EXCEPT ![c] = "ended"]
    BY <1>2 DEF WriteAll, Ends
  <2> QED
    BY <1>1, <1>2, <2>1
<1>3. CASE h.raises = "no" /\ SerializeFails(c, h)
  <2>1. pc' = [pc EXCEPT ![c] = "other"]
    BY <1>3 DEF SerializeFails, Ends
  <2> QED
    BY <1>1, <2>1
<1>4. CASE h.raises # "no" /\ Ends(c, h.raises, out[c])
  <2>1. pc' = [pc EXCEPT ![c] = h.raises] /\ h.raises \in {"tchannel", "other"}
    BY <1>4 DEF Ends, Outcome
  <2> QED
    BY <1>1, <2>1
<1> QED
  BY <1>2, <1>3, <1>4 DEF Conclude

\* The other calls, while a handler ends.
LEMMA ResultOthers ==
  ASSUME InputInv, OutputInv, RestTypes, SettingTypes, NEW c \in Calls, HandlerEnds(c)
  PROVE  \A d \in Calls : d # c => /\ result'[d] = result[d] /\ pc'[d] = pc[d]
                                   /\ code'[d] = code[d] /\ flushed'[d] = flushed[d]
<1>1. /\ pc \in [Calls -> PcStates] /\ code \in [Calls -> {OK, FAILED}]
      /\ result \in [Calls -> Results \cup {"pending"}]
  BY DEF InputInv, RequestTypes, OutputInv, ResponseFuns, RestTypes
<1>02. PICK how \in {"no", "tchannel", "other"} : \E o : Ends(c, how, o)
  BY HandlerEndsSo
<1>2. PICK o : Ends(c, how, o)
  BY <1>02
<1>3. \A d \in Calls : d # c => pc'[d] = pc[d] /\ result'[d] = result[d]
  BY <1>1, <1>2, ResultChanges DEF Ends
<1>4. flushed' = flushed
  BY DEF HandlerEnds, Returned, Leaves, DeprecatedReturned, NotFound
<1>5. code' = code \/ \E x : code' = [code EXCEPT ![c] = x]
  BY DEF HandlerEnds, Returned, Leaves, DeprecatedReturned, NotFound, Conclude, WriteAll,
         SerializeFails
<1>6. \A d \in Calls : d # c => code'[d] = code[d]
  BY <1>1, <1>5
<1> QED
  BY <1>3, <1>4, <1>6

LEMMA ResultHandler ==
  ASSUME ResultInv, InputInv, OutputInv, RestTypes, SettingTypes, NEW c \in Calls, HandlerEnds(c)
  PROVE  ResultInv'
<1>1. /\ \A d \in Calls : d # c => /\ result'[d] = result[d] /\ pc'[d] = pc[d]
                                   /\ code'[d] = code[d] /\ flushed'[d] = flushed[d]
      /\ UNCHANGED setting /\ pc[c] = "run"
  BY ResultOthers, HandlerEndsSo DEF HandlerFrame
<1>2. returns' = returns /\ proc' = proc /\ result \in [Calls -> Results \cup {"pending"}]
      /\ proc[c] \in Procedures
  BY <1>1 DEF setting, RestTypes, SettingTypes
<1>3. flushed' = flushed
  BY DEF HandlerEnds, Returned, Leaves, DeprecatedReturned, NotFound
<1>4. result[c] = "pending"
  BY <1>1 DEF ResultInv
<1>5. ASSUME result'[c] # "pending"
      PROVE  /\ pc'[c] \in {"ended", "other", "tchannel"} /\ ~flushed[c]
             /\ pc'[c] = "ended" => WentWell(returns, proc[c], result'[c], code'[c])
  <2>1. CASE Returned(c)
    <3>1. PICK res \in Results : /\ CanEnd(proc[c], res) /\ result' = [result EXCEPT ![c] = res]
                                 /\ Conclude(c, Handle(proc[c], res))
      BY <2>1 DEF Returned
    <3> DEFINE h == Handle(proc[c], res)
    <3>2. Outcome(h)
      BY <1>2, <3>1, HandleKinds
    <3>3. returns /\ h = Wrapped(returns, proc[c], res)
      BY <2>1 DEF Returned, Wrapped
    <3>4. ~flushed[c]
      BY <1>1, <3>3 DEF OutputInv, Fresh
    <3>5. result'[c] = res
      BY <1>2, <3>1
    <3> HIDE DEF h
    <3>6. /\ pc'[c] \in {"ended", "other", "tchannel"}
          /\ pc'[c] = "ended" => h.raises = "no" /\ code'[c] = h.status
      BY <3>1, <3>2, ConcludeEnds DEF h
    <3> QED
      BY <3>1, <3>3, <3>4, <3>5, <3>6 DEF WentWell
  <2>2. CASE DeprecatedReturned(c)
    <3>1. PICK res \in Results, w \in {"none", "value"} :
            /\ CanEnd(proc[c], res)
            /\ result' = [result EXCEPT ![c] = IF res = "none" THEN w ELSE res]
            /\ Conclude(c, DeprecatedHandle(proc[c], w, res))
      BY <2>2 DEF DeprecatedReturned
    <3> DEFINE h == DeprecatedHandle(proc[c], w, res)
               x == IF res = "none" THEN w ELSE res
    <3>2. Outcome(h)
      BY <1>2, <3>1, HandleKinds
    <3>3. ~returns /\ ~flushed[c] /\ proc[c].scheme = "thrift"
      BY <2>2 DEF DeprecatedReturned
    <3>4. h.raises = "no" => h = DeprecatedHandle(proc[c], "none", x)
      BY DeprecatedSame
    <3>5. result'[c] = x /\ CanEnd(proc[c], x)
      BY <1>2, <3>1 DEF CanEnd
    <3>6. Conclude(c, h)
      BY <3>1
    <3> HIDE DEF h, x
    <3>7. /\ pc'[c] \in {"ended", "other", "tchannel"}
          /\ pc'[c] = "ended" => h.raises = "no" /\ code'[c] = h.status
      BY <3>2, <3>6, ConcludeEnds
    <3>8. pc'[c] = "ended" => WentWell(returns, proc[c], x, code'[c])
      BY <3>3, <3>4, <3>5, <3>7 DEF WentWell, Wrapped
    <3> QED
      BY <3>3, <3>5, <3>7, <3>8
  <2>3. CASE Leaves(c) \/ NotFound(c)
    <3>1. result' = result
      BY <2>3 DEF Leaves, NotFound
    <3> QED
      BY <1>4, <1>5, <3>1
  <2> QED
    BY <2>1, <2>2, <2>3 DEF HandlerEnds
<1>6. ASSUME NEW d \in Calls, result'[d] # "pending"
      PROVE  /\ pc'[d] \in {"ended", "other", "tchannel"} /\ ~flushed'[d]
             /\ pc'[d] = "ended" => WentWell(returns, proc[d], result'[d], code'[d])
  <2>1. CASE d = c
    BY <1>3, <1>5, <1>6, <2>1
  <2>2. CASE d # c
    BY <1>1, <1>6, <2>2 DEF ResultInv
  <2> QED
    BY <2>1, <2>2
<1> QED
  BY <1>2, <1>6 DEF ResultInv

LEMMA ResultNext ==
  ASSUME ResultInv, InputInv, OutputInv, RestTypes, SettingTypes, [Next]_vars
  PROVE  ResultInv'
<1>0. UNCHANGED setting
  BY SettingNext
<1>1. ASSUME UNCHANGED <<result, pc, code, flushed>> PROVE ResultInv'
  BY <1>0, <1>1, ResultKept
<1>2. CASE UNCHANGED vars \/ NextWrite \/ Close \/ OnMessage
  BY <1>1, <1>2 DEF vars, NextWrite, Close, OnMessage, response
<1>3. ASSUME NEW c \in Calls, ReaderStep(c) \/ (\E r \in Readers : StartRead(c, r)) \/ PostStep(c)
      PROVE  ResultInv'
  <2>1. CASE ReaderStep(c)
    BY <1>1, <2>1 DEF ReaderStep, ReadAtOnce, ReadWhenWoken, ReadWaits, Reading, response
  <2>2. CASE \E r \in Readers : StartRead(c, r)
    BY <1>1, <2>2 DEF StartRead, response
  <2>3. CASE PostStep(c)
    BY <1>1, <2>3 DEF PostStep, PostReadsAtOnce, PostWaits, PostWoken, PostResumes, PostEnds,
                      PostFrame
  <2> QED
    BY <1>3, <2>1, <2>2, <2>3
<1>4. ASSUME NEW c \in Calls, UNCHANGED <<result, code>>,
             pc[c] \notin {"ended", "other", "tchannel"},
             \A d \in Calls : d # c => pc'[d] = pc[d] /\ flushed'[d] = flushed[d]
      PROVE  ResultInv'
  BY <1>0, <1>4, ResultKept
<1>5. /\ pc \in [Calls -> PcStates] /\ flushed \in [Calls -> BOOLEAN]
      /\ \A c \in Calls : next[c] = 1 => pc[c] = "idle"
  BY DEF InputInv, RequestTypes, OutputInv, ResponseFuns, CallIn, ReadersInv
<1>6. ASSUME NEW c \in Calls, CallReq(c) \/ CallReqContinue(c) PROVE ResultInv'
  <2>1. UNCHANGED <<result, code, flushed>>
    BY <1>6 DEF CallReq, CallReqContinue, Arrives, response
  <2>2. pc' = pc \/ (next[c] = 1 /\ pc' = [pc EXCEPT ![c] = "name"])
    BY <1>6 DEF CallReq, CallReqContinue
  <2>3. CASE pc' = pc
    BY <1>1, <2>1, <2>3
  <2>4. CASE next[c] = 1 /\ pc' = [pc EXCEPT ![c] = "name"]
    BY <1>4, <1>5, <2>1, <2>4
  <2> QED
    BY <2>2, <2>3, <2>4
<1>7. ASSUME NEW c \in Calls, NameRead(c) \/ Dispatch(c) PROVE ResultInv'
  <2>1. /\ UNCHANGED <<result, code, flushed>> /\ pc[c] \notin {"ended", "other", "tchannel"}
        /\ \E q : pc' = [pc EXCEPT ![c] = q]
    BY <1>7 DEF NameRead, Dispatch, response
  <2> QED
    BY <1>4, <1>5, <2>1
<1>8. ASSUME NEW c \in Calls, ArgRead(c) \/ (\E k \in Arg : WritePiece(c, k)) \/ Flush(c)
      PROVE  ResultInv'
  <2>1. UNCHANGED <<result, code>> /\ pc[c] \notin {"ended", "other", "tchannel"}
    BY <1>8 DEF ArgRead, WritePiece, Flush, Runs
  <2>2. pc' = pc \/ \E q : pc' = [pc EXCEPT ![c] = q]
    BY <1>8 DEF ArgRead, WritePiece, Flush, Ends
  <2>3. flushed' = flushed \/ flushed' = [flushed EXCEPT ![c] = TRUE]
    BY <1>8 DEF ArgRead, WritePiece, Flush
  <2>4. \A d \in Calls : d # c => pc'[d] = pc[d] /\ flushed'[d] = flushed[d]
    BY <1>5, <2>2, <2>3
  <2> QED
    BY <1>4, <2>1, <2>4
<1> QED
  BY <1>2, <1>3, <1>6, <1>7, <1>8, ResultHandler DEF Next

\* What each wrapper makes of each result, when it makes a response of it.
LEMMA WrappedBodies ==
  ASSUME NEW p \in Procedures, NEW res \in Results, NEW ret, NEW cd, WentWell(ret, p, res, cd),
         NEW h, h = Wrapped(ret, p, res)
  PROVE  /\ res \in {"value", "none", "declared"}
         /\ res = "declared" => cd = FAILED /\ h.body = "exception" /\ p.throws
                                /\ p.scheme \in {"rw", "thrift"}
         /\ res # "declared" => cd = OK
         /\ res # "declared" /\ p.scheme \notin {"rw", "thrift"} => h.body = res
         /\ res = "none" /\ p.scheme = "rw" => h.body = "unset" /\ p.void
         /\ res = "none" /\ p.scheme = "thrift" => h.body = "unset"
         /\ res = "value" /\ p.scheme \in {"rw", "thrift"} =>
              h.body = IF p.void THEN "unset" ELSE "success"
<1>1. /\ CanEnd(p, res) /\ (~ret => p.scheme = "thrift") /\ h.raises = "no" /\ h.status = cd
  BY DEF WentWell
<1>2. \A e : Raise(e).raises = e
  BY DEF Raise
<1>3. \A x, b : Response(x, b).status = x /\ Response(x, b).body = b
  BY DEF Response
<1>4. OK # FAILED
  BY DEF OK, FAILED
<1>5. CASE p.scheme = "rw"
  <2>1. h = HandleRW(p, res)
    BY <1>1, <1>5 DEF Wrapped, Handle
  <2>2. CASE res \in {"value", "none"}
    <3>1. h = IF p.void THEN Response(OK, "unset")
              ELSE IF res = "none" THEN Raise("other") ELSE Response(OK, "success")
      BY <1>3, <2>1, <2>2 DEF HandleRW, ResponseFromMixed
    <3>2. p.void \/ res = "value"
      BY <1>1, <1>2, <2>2, <3>1
    <3>3. h = IF p.void THEN Response(OK, "unset") ELSE Response(OK, "success")
      BY <2>2, <3>1, <3>2
    <3> QED
      BY <1>1, <1>3, <1>5, <2>2, <3>2, <3>3
  <2>3. CASE res = "declared"
    <3>1. h = Response(FAILED, "exception")
      BY <2>1, <2>3 DEF HandleRW
    <3> QED
      BY <1>1, <1>3, <1>5, <2>3, <3>1 DEF CanEnd
  <2>4. CASE res \in {"tchannel", "other"}
    <3>1. h = Raise(res)
      BY <2>1, <2>4 DEF HandleRW
    <3> QED
      BY <1>1, <1>2, <2>4, <3>1
  <2> QED
    BY <2>2, <2>3, <2>4 DEF Results
<1>6. CASE p.scheme = "thrift"
  <2>1. CASE res = "none"
    <3>1. HandleThrift(p, res) = Response(OK, "unset")
      BY <1>3, <2>1 DEF HandleThrift, WriteResult, ResponseFromMixed
    <3>2. DeprecatedHandle(p, "none", res) = Response(OK, "unset")
      BY <2>1 DEF DeprecatedHandle
    <3>3. h = Response(OK, "unset")
      BY <1>6, <3>1, <3>2 DEF Wrapped, Handle
    <3> QED
      BY <1>1, <1>3, <1>6, <2>1, <3>3
  <2>2. CASE res # "none"
    <3>1. h = HandleThrift(p, res)
      BY <1>6, <2>2 DEF Wrapped, Handle, DeprecatedHandle
    <3>2. CASE res = "value"
      <4>1. h = WriteResult(p, "value")
        BY <1>3, <3>1, <3>2 DEF HandleThrift, ResponseFromMixed
      <4>2. CASE p.void /\ ~p.throws
        <5>1. h = Response(OK, "unset")
          BY <4>1, <4>2 DEF WriteResult
        <5> QED
          BY <1>1, <1>3, <1>6, <3>2, <4>2, <5>1
      <4>3. CASE ~p.void
        <5>1. h = Response(OK, "success")
          BY <4>1, <4>3 DEF WriteResult
        <5> QED
          BY <1>1, <1>3, <1>6, <3>2, <4>3, <5>1
      <4>4. CASE p.void /\ p.throws
        <5>1. h = Raise("other")
          BY <4>1, <4>4 DEF WriteResult
        <5> QED
          BY <1>1, <1>2, <5>1
      <4> QED
        BY <4>2, <4>3, <4>4
    <3>3. CASE res = "declared"
      <4>1. h = Response(FAILED, "exception")
        BY <3>1, <3>3 DEF HandleThrift, WriteExcInfo
      <4> QED
        BY <1>1, <1>3, <1>6, <3>3, <4>1 DEF CanEnd
    <3>4. CASE res \in {"tchannel", "other"}
      <4>1. h = Raise(res)
        BY <3>1, <3>4 DEF HandleThrift, WriteExcInfo
      <4> QED
        BY <1>1, <1>2, <3>4, <4>1
    <3> QED
      BY <2>2, <3>2, <3>3, <3>4 DEF Results
  <2> QED
    BY <2>1, <2>2
<1>7. CASE p.scheme \notin {"rw", "thrift"}
  <2>1. h = IF res \in {"value", "none"} THEN Response(OK, res) ELSE Raise(res)
    BY <1>1, <1>7 DEF Wrapped, Handle, ResponseFromMixed
  <2>2. res \in {"value", "none"}
    BY <1>1, <1>2, <2>1 DEF Results
  <2>3. h = Response(OK, res)
    BY <2>1, <2>2
  <2> QED
    BY <1>1, <1>3, <1>7, <2>2, <2>3
<1> QED
  BY <1>5, <1>6, <1>7

\* The caller's interfaces undo what the wrapper has done.
LEMMA ReadBack ==
  ASSUME NEW p \in Procedures, NEW res \in Results, NEW ret, NEW cd, WentWell(ret, p, res, cd),
         NEW h, h = Wrapped(ret, p, res)
  PROVE  /\ Read(p, h.body) \subseteq Expected(p, res)
         /\ cd = FAILED <=> Read(p, h.body) = {"raised"}
<1> DEFINE b == h.body
<1>1. /\ res \in {"value", "none", "declared"}
      /\ res = "declared" => cd = FAILED /\ b = "exception" /\ p.throws
                             /\ p.scheme \in {"rw", "thrift"}
      /\ res # "declared" => cd = OK
      /\ res # "declared" /\ p.scheme \notin {"rw", "thrift"} => b = res
      /\ res = "none" /\ p.scheme = "rw" => b = "unset" /\ p.void
      /\ res = "none" /\ p.scheme = "thrift" => b = "unset"
      /\ res = "value" /\ p.scheme \in {"rw", "thrift"} =>
           b = IF p.void THEN "unset" ELSE "success"
  BY WrappedBodies
<1> HIDE DEF b
<1>2. OK # FAILED /\ "raised" # "nothing" /\ "raised" # "value" /\ "raised" # "missing"
  BY DEF OK, FAILED
<1>3. p.void \in BOOLEAN /\ p.throws \in BOOLEAN
      /\ p.scheme \in {"raw", "json", "rw", "thrift"}
  BY DEF Procedures
<1>4. p.scheme \in {"raw", "json"} => ~p.void
  BY DEF Procedures
<1>5. CASE p.scheme = "rw"
  <2>1. Read(p, b) = {ReadBodyRW(p, b)}
    BY <1>5 DEF Read
  <2>2. CASE res = "declared"
    <3>1. ReadBodyRW(p, b) = "raised" /\ Expected(p, res) = {"raised"}
      BY <1>1, <2>2 DEF ReadBodyRW, Expected
    <3> QED
      BY <1>1, <2>1, <2>2, <3>1 DEF b
  <2>3. CASE res = "value" /\ ~p.void
    <3>1. ReadBodyRW(p, b) = "value" /\ Expected(p, res) = {"value"}
      BY <1>1, <1>5, <2>3 DEF ReadBodyRW, Expected
    <3> QED
      BY <1>1, <1>2, <2>1, <2>3, <3>1 DEF b
  <2>4. CASE p.void /\ res # "declared"
    <3>1. ReadBodyRW(p, b) = "nothing" /\ Expected(p, res) = {"nothing"}
      BY <1>1, <1>5, <2>4 DEF ReadBodyRW, Expected
    <3> QED
      BY <1>1, <1>2, <2>1, <2>4, <3>1 DEF b
  <2> QED
    BY <1>1, <1>5, <2>2, <2>3, <2>4
<1>6. CASE p.scheme = "thrift"
  <2>1. Read(p, b) = {ReadBodyThrift(p, b), CallResult(p, b)}
    BY <1>6 DEF Read
  <2>2. CASE res = "declared"
    <3>1. ReadBodyThrift(p, b) = "raised" /\ Expected(p, res) = {"raised"}
      BY <1>1, <2>2 DEF ReadBodyThrift, Expected
    <3>2. CallResult(p, b) = "raised"
      BY <1>1, <2>2 DEF CallResult
    <3> QED
      BY <1>1, <2>1, <2>2, <3>1, <3>2 DEF b
  <2>3. CASE res = "value" /\ ~p.void
    <3>1. ReadBodyThrift(p, b) = "value" /\ Expected(p, res) = {"value"}
      BY <1>1, <1>6, <2>3 DEF ReadBodyThrift, Expected
    <3>2. CallResult(p, b) = "value"
      BY <1>1, <1>6, <2>3 DEF CallResult
    <3> QED
      BY <1>1, <1>2, <2>1, <2>3, <3>1, <3>2 DEF b
  <2>4. CASE p.void /\ res # "declared"
    <3>1. b = "unset" /\ Expected(p, res) = {"nothing"}
      BY <1>1, <1>6, <2>4 DEF Expected
    <3>2. ReadBodyThrift(p, b) = "nothing"
      BY <2>4, <3>1 DEF ReadBodyThrift
    <3>3. CallResult(p, b) = "nothing"
      BY <2>4, <3>1 DEF CallResult
    <3> QED
      BY <1>1, <1>2, <2>1, <2>4, <3>1, <3>2, <3>3 DEF b
  <2>5. CASE res = "none" /\ ~p.void
    <3>1. b = "unset" /\ Expected(p, res) = {"missing"}
      BY <1>1, <1>6, <2>5 DEF Expected
    <3>2. ReadBodyThrift(p, b) = "missing"
      BY <2>5, <3>1 DEF ReadBodyThrift
    <3>3. CallResult(p, b) = "missing"
      BY <2>5, <3>1 DEF CallResult
    <3> QED
      BY <1>1, <1>2, <2>1, <2>5, <3>1, <3>2, <3>3 DEF b
  <2> QED
    BY <1>1, <2>2, <2>3, <2>4, <2>5
<1>7. CASE p.scheme \in {"raw", "json"}
  <2>1. Read(p, b) = {DeserializeBody(b)} /\ b = res /\ cd = OK /\ res \in {"value", "none"}
    BY <1>1, <1>7 DEF Read
  <2>2. CASE res = "value"
    <3>1. DeserializeBody(b) = "value" /\ Expected(p, res) = {"value"}
      BY <1>4, <1>7, <2>1, <2>2 DEF DeserializeBody, Expected
    <3> QED
      BY <1>2, <2>1, <3>1 DEF b
  <2>3. CASE res = "none"
    <3>1. DeserializeBody(b) = "nothing" /\ Expected(p, res) = {"nothing"}
      BY <1>7, <2>1, <2>3 DEF DeserializeBody, Expected
    <3> QED
      BY <1>2, <2>1, <3>1 DEF b
  <2> QED
    BY <2>1, <2>2, <2>3
<1> QED
  BY <1>3, <1>5, <1>6, <1>7

-----------------------------------------------------------------------------
(* The inductive invariant of the server, and what follows from it.        *)

ServerInv ==
  /\ InputInv /\ SettingTypes /\ OutputInv /\ Due(queue, post) /\ RestTypes
  /\ ErrorInv /\ CountInv /\ ResultInv

LEMMA ServerInit ==
  ASSUME Init
  PROVE  ServerInv
<1>1. InputInv /\ SettingTypes /\ OutputInv /\ Due(queue, post)
  BY InputInit, OutputInit
<1>2. /\ open = TRUE /\ chain = [c \in Calls |-> TRUE] /\ buffer = {}
      /\ result = [c \in Calls |-> "pending"] /\ writer = "off"
      /\ wire = [c \in Calls |-> <<>>] /\ frames = [c \in Calls |-> <<>>]
      /\ next = [c \in Calls |-> 1] /\ pendings = 0
  BY DEF Init
<1>3. RestTypes
  BY <1>2 DEF RestTypes, WriterStates
<1>4. ErrorInv
  <2>1. Kinds(<<>>) = {}
    BY DEF Kinds
  <2>2. \A c \in Calls : ~Reported(frames[c]) /\ ~Orphan(c)
    BY <1>2, <2>1 DEF Reported, Orphan
  <2> QED
    BY <2>2 DEF ErrorInv
<1>5. CountInv
  <2>1. \A c \in Calls : post[c].st = "off"
    BY DEF Init
  <2>2. Unsettled(post) = {}
    BY <2>1 DEF Unsettled, Settled
  <2> QED
    BY <1>2, <2>2, FS_EmptySet DEF CountInv
<1>6. ResultInv
  BY <1>2 DEF ResultInv
<1> QED
  BY <1>1, <1>3, <1>4, <1>5, <1>6 DEF ServerInv

LEMMA ServerNext ==
  ASSUME ServerInv, [Next]_vars
  PROVE  ServerInv'
<1>1. /\ InputInv /\ SettingTypes /\ OutputInv /\ Due(queue, post) /\ RestTypes
      /\ ErrorInv /\ CountInv /\ ResultInv
  BY DEF ServerInv
<1>2. InputInv'
  BY <1>1, InputNext
<1>3. OutputInv' /\ Due(queue, post)'
  BY <1>1, OutputNext
<1>4. SettingTypes' /\ RestTypes'
  BY <1>1, SettingNext, RestNext
<1>5. ErrorInv'
  BY <1>1, ErrorNext
<1>6. CountInv'
  BY <1>1, CountNext
<1>7. ResultInv'
  BY <1>1, ResultNext
<1> QED
  BY <1>2, <1>3, <1>4, <1>5, <1>6, <1>7 DEF ServerInv

LEMMA ServerAlways == Spec => []ServerInv
  BY ServerInit, ServerNext, PTL DEF Spec

\* The streams of a call deliver what is written to them, whatever the calls, the frames
\* their requests come in, the coroutines that read them and the turns the event loop gives:
\* each chunk of a request is read once and in order, no wake-up of InMemStream is lost, and
\* only a reader with a rival is ever told of an end too early.
THEOREM StreamsAlwaysDeliver == Spec => []StreamsDeliver
<1>1. ServerInv => StreamsDeliver
  <2> SUFFICES ASSUME ServerInv PROVE StreamsDeliver
    OBVIOUS
  <2>1. /\ RequestTypes /\ SettingTypes /\ ResponseFuns /\ Due(queue, post) /\ RestTypes
        /\ CountInv
        /\ \A c \in Calls :
             /\ CallIn(in[c], got[c], fed[c], rd[c], early[c], pc[c], returns, next[c])
             /\ CallOut(out[c], post[c], frames[c], seen[c], wrote[c], code[c], pc[c],
                        flushed[c])
    BY DEF ServerInv, InputInv, OutputInv
  <2>2. pendings \in Nat
    BY <2>1, FS_CardinalityType DEF CountInv
  <2>3. TypeOK
    BY <2>1, <2>2 DEF TypeOK, RequestTypes, SettingTypes, ResponseFuns, Due, RestTypes, Pieces,
                      PcStates, ReaderRecords, ResponseStreams, PostRecords, SeenRecords,
                      WriterStates
  <2>4. ReadInOrder
    BY <2>1 DEF ReadInOrder, CallIn, ArgInv
  <2>5. AloneSeesTheEnd
    BY <2>1 DEF AloneSeesTheEnd, CallIn, ReadersInv, AllRead, Rivals
  <2>6. ASSUME NEW c \in Calls, NEW k \in Arg, NEW r \in Readers, NEW i \in DOMAIN in[c][k].waiting,
               in[c][k].waiting[i] = r
        PROVE  ~Ready(in[c][k]) \/ Rivals(c, k)
    <3> DEFINE s == in[c][k]
    <3>1. s \in Streams(Readers) /\ WakeInv(s, k, rd[c])
      BY <2>1 DEF CallIn, ArgInv
    <3> HIDE DEF s
    <3>2. i \in DOMAIN s.waiting
      BY DEF s
    <3>3. s.waiting # <<>>
      BY <3>2
    <3>4. Ready(s) => AllRead(rd[c], k)
      BY <3>1, <3>3 DEF WakeInv
    <3> QED
      BY <3>4 DEF AllRead, Rivals, s
  <2>7. ASSUME NEW c \in Calls, NEW k \in Arg, out[c][k].waiting # <<>> PROVE ~Ready(out[c][k])
    BY <2>1, <2>7 DEF CallOut, OutStream
  <2>8. NoLostWakeup
    BY <2>6, <2>7 DEF NoLostWakeup
  <2> QED
    BY <2>3, <2>4, <2>5, <2>8 DEF StreamsDeliver
<1> QED
  BY <1>1, ServerAlways, PTL

\* A response marked complete carries, in order and in the right arguments, all that the
\* handler wrote, with the code it set, and nothing of the response follows: for every
\* interleaving of the handler, post_response and the Writer, and every size of a read.
THEOREM ResponsesAreWhole == Spec => []ResponseIsWhole
<1>1. ServerInv => ResponseIsWhole
  <2> SUFFICES ASSUME ServerInv PROVE ResponseIsWhole
    OBVIOUS
  <2>1. \A c \in Calls : CallOut(out[c], post[c], frames[c], seen[c], wrote[c], code[c], pc[c],
                                 flushed[c])
    BY DEF ServerInv, OutputInv
  <2>2. CompleteIsWhole
    BY <2>1 DEF CompleteIsWhole, CallOut, Sent
  <2>3. NothingAfterTheLast
    BY <2>1 DEF NothingAfterTheLast, CallOut, LastOnce
  <2> QED
    BY <2>2, <2>3 DEF ResponseIsWhole
<1> QED
  BY <1>1, ServerAlways, PTL

\* A caller is told of one end of its call: a complete response and an error are both sent
\* only if the handler flushed the response before it failed, or if the request was found to
\* be damaged after it had been dispatched.
THEOREM OneEndIsTold == Spec => []NotBothEnds
<1>1. ServerInv => NotBothEnds
  <2> SUFFICES ASSUME ServerInv, NEW c \in Calls, "last" \in Kinds(frames[c]),
                      Kinds(frames[c]) \cap {"error", "unexpected"} # {}
               PROVE  flushed[c] \/ ~chain[c]
    BY DEF NotBothEnds
  <2>1. flushed[c] \/ pc[c] = "ended"
    BY DEF ServerInv, OutputInv, CallOut, Ending
  <2>2. ~chain[c] \/ pc[c] \in Failures
    BY DEF ServerInv, ErrorInv, Reported
  <2> QED
    BY <2>1, <2>2 DEF Failures
<1> QED
  BY <1>1, ServerAlways, PTL

\* What a caller makes of a complete response is what the function did, for every argument
\* scheme, either style of handler and every client interface: the wrapper, the streams, the
\* frames and the reading of the body undo each other.
THEOREM CallersSeeResults == Spec => []CallerSeesResult
<1>1. ServerInv => CallerSeesResult
  <2> SUFFICES ASSUME ServerInv, NEW c \in Calls, "last" \in Kinds(frames[c]),
                      result[c] # "pending",
                      NEW h, h = Wrapped(returns, proc[c], result[c])
               PROVE  /\ Read(proc[c], h.body) \subseteq Expected(proc[c], result[c])
                      /\ seen[c].code = FAILED <=> Read(proc[c], h.body) = {"raised"}
    BY DEF CallerSeesResult, Wrapped
  <2>1. CallOut(out[c], post[c], frames[c], seen[c], wrote[c], code[c], pc[c], flushed[c])
    BY DEF ServerInv, OutputInv
  <2>2. (flushed[c] \/ pc[c] = "ended") /\ seen[c].code = code[c]
    BY <2>1 DEF CallOut, Ending, Sent
  <2>3. WentWell(returns, proc[c], result[c], code[c])
    BY <2>2 DEF ServerInv, ResultInv
  <2>4. proc[c] \in Procedures /\ result[c] \in Results
    BY DEF ServerInv, SettingTypes, RestTypes
  <2> QED
    <3> DEFINE p == proc[c]
               res == result[c]
               cd == code[c]
    <3>1. p \in Procedures /\ res \in Results /\ WentWell(returns, p, res, cd)
          /\ h = Wrapped(returns, p, res)
      BY <2>3, <2>4
    <3> HIDE DEF p, res, cd
    <3>2. /\ Read(p, h.body) \subseteq Expected(p, res)
          /\ cd = FAILED <=> Read(p, h.body) = {"raised"}
      BY <3>1, ReadBack
    <3> QED
      BY <2>2, <3>2 DEF p, res, cd
<1> QED
  BY <1>1, ServerAlways, PTL

=============================================================================
