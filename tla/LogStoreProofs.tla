---------------------------- MODULE LogStoreProofs ----------------------------
(***************************************************************************)
(* Safety of LogStore for any number of models, runtimes and subscribers,  *)
(* any ring and any channel: a ring holds the most recent lines, a stream  *)
(* is the end of the log, or at least has lines of it in order, and a      *)
(* runtime's log has every line of its models. The same with the page of a *)
(* model among the subscribers (ModelLogView), and what its screen shows.  *)
(***************************************************************************)
EXTENDS ModelLogView, FiniteSetTheorems, TLAPS

-------------------------------------------------------------------------------
(* Sequences                                                               *)

\* IsSuffix, position by position.
EndOf(s, t) ==
  Len(s) <= Len(t) /\ \A i \in 1 .. Len(s) : s[i] = t[Len(t) - Len(s) + i]

\* The elements of s are in t, in the same order.
Within(s, t) ==
  /\ \A i \in 1 .. Len(s) : \E k \in 1 .. Len(t) : t[k] = s[i]
  /\ \A i, j \in 1 .. Len(s) : i < j =>
       \E k, l \in 1 .. Len(t) : k < l /\ t[k] = s[i] /\ t[l] = s[j]

\* Sequences with the same elements are the same.
LEMMA SameSeq ==
  ASSUME NEW S, NEW s \in Seq(S), NEW t \in Seq(S), Len(s) = Len(t),
         \A i \in 1 .. Len(s) : s[i] = t[i]
  PROVE  s = t
<1>1. s = [i \in 1 .. Len(s) |-> s[i]] /\ t = [i \in 1 .. Len(s) |-> t[i]]
  OBVIOUS
<1>2. QED
  BY <1>1

\* An end, position by position, is a suffix.
LEMMA EndOfIsSuffix ==
  ASSUME NEW S, NEW s \in Seq(S), NEW t \in Seq(S), EndOf(s, t)
  PROVE  IsSuffix(s, t)
<1> DEFINE r == Reverse(s)
           u == Reverse(t)
<1>1. Len(s) \in Nat /\ Len(t) \in Nat /\ Len(s) <= Len(t)
  BY DEF EndOf
<1>2. r = [i \in 1 .. Len(s) |-> s[(Len(s) - i) + 1]]
      /\ u = [i \in 1 .. Len(t) |-> t[(Len(t) - i) + 1]]
  BY DEF Reverse
<1>3. \A i \in 1 .. Len(s) : s[(Len(s) - i) + 1] \in S
  BY <1>1
<1>4. \A i \in 1 .. Len(t) : t[(Len(t) - i) + 1] \in S
  BY <1>1
<1>5. r \in [1 .. Len(s) -> S] /\ u \in [1 .. Len(t) -> S]
  BY <1>2, <1>3, <1>4
<1>6. \A i \in 1 .. Len(s) : r[i] = u[i]
  <2> SUFFICES ASSUME NEW i \in 1 .. Len(s) PROVE r[i] = u[i]
    OBVIOUS
  <2>1. (Len(s) - i) + 1 \in 1 .. Len(s)
    BY <1>1
  <2>2. s[(Len(s) - i) + 1] = t[Len(t) - Len(s) + ((Len(s) - i) + 1)]
    BY <2>1 DEF EndOf
  <2>3. Len(t) - Len(s) + ((Len(s) - i) + 1) = (Len(t) - i) + 1
    BY <1>1
  <2>4. i \in 1 .. Len(t)
    BY <1>1
  <2>5. QED
    BY <1>2, <2>2, <2>3, <2>4
<1> HIDE DEF r, u
<1>7. r \in Seq(S) /\ u \in Seq(S) /\ Len(r) = Len(s) /\ Len(u) = Len(t)
  <2>1. \A n \in Nat : \A f \in [1 .. n -> S] : f \in Seq(S) /\ Len(f) = n
    OBVIOUS
  <2>2. QED
    BY <1>1, <1>5, <2>1
<1>8. SubSeq(r, 1, Len(r)) = SubSeq(u, 1, Len(r))
  <2>1. SubSeq(r, 1, Len(r)) = [i \in 1 .. Len(s) |-> r[i]]
    BY <1>1, <1>5, <1>7
  <2>2. SubSeq(u, 1, Len(r)) = [i \in 1 .. Len(s) |-> u[i]]
    BY <1>1, <1>5, <1>7
  <2>3. QED
    BY <1>6, <2>1, <2>2
<1>9. IsPrefix(r, u)
  BY <1>1, <1>7, <1>8 DEF IsPrefix
<1>10. QED
  BY <1>9 DEF IsSuffix, r, u

\* The end of an end is an end.
LEMMA EndOfTransitive ==
  ASSUME NEW S, NEW s \in Seq(S), NEW t \in Seq(S), NEW u \in Seq(S),
         EndOf(s, t), EndOf(t, u)
  PROVE  EndOf(s, u)
<1>1. Len(s) \in Nat /\ Len(t) \in Nat /\ Len(u) \in Nat
      /\ Len(s) <= Len(t) /\ Len(t) <= Len(u)
  BY DEF EndOf
<1>2. ASSUME NEW i \in 1 .. Len(s)
      PROVE  s[i] = u[Len(u) - Len(s) + i]
  <2>1. Len(t) - Len(s) + i \in 1 .. Len(t)
    BY <1>1
  <2>2. s[i] = t[Len(t) - Len(s) + i]
    BY DEF EndOf
  <2>3. t[Len(t) - Len(s) + i] = u[Len(u) - Len(t) + (Len(t) - Len(s) + i)]
    BY <2>1 DEF EndOf
  <2>4. Len(u) - Len(t) + (Len(t) - Len(s) + i) = Len(u) - Len(s) + i
    BY <1>1
  <2>5. QED
    BY <2>2, <2>3, <2>4
<1>3. QED
  BY <1>1, <1>2 DEF EndOf

\* An end has elements of the sequence in their order.
LEMMA EndOfWithin ==
  ASSUME NEW S, NEW s \in Seq(S), NEW t \in Seq(S), EndOf(s, t)
  PROVE  Within(s, t)
<1>1. Len(s) \in Nat /\ Len(t) \in Nat /\ Len(s) <= Len(t)
  BY DEF EndOf
<1> DEFINE at(i) == Len(t) - Len(s) + i
<1>2. \A i \in 1 .. Len(s) : at(i) \in 1 .. Len(t) /\ t[at(i)] = s[i]
  BY <1>1 DEF EndOf
<1>3. \A i, j \in 1 .. Len(s) : i < j => at(i) < at(j)
  BY <1>1
<1> HIDE DEF at
<1>4. QED
  BY <1>2, <1>3 DEF Within

\* Both sequences grow by the same element.
LEMMA EndOfAppend ==
  ASSUME NEW S, NEW s \in Seq(S), NEW t \in Seq(S), NEW x \in S, EndOf(s, t)
  PROVE  EndOf(Append(s, x), Append(t, x))
<1>1. Len(s) \in Nat /\ Len(t) \in Nat /\ Len(s) <= Len(t)
      /\ Len(Append(s, x)) = Len(s) + 1 /\ Len(Append(t, x)) = Len(t) + 1
  BY DEF EndOf
<1>2. ASSUME NEW i \in 1 .. Len(s) + 1
      PROVE  Append(s, x)[i] = Append(t, x)[(Len(t) + 1) - (Len(s) + 1) + i]
  <2>1. (Len(t) + 1) - (Len(s) + 1) + i = Len(t) - Len(s) + i
    BY <1>1
  <2>2. CASE i = Len(s) + 1
    BY <1>1, <2>1, <2>2
  <2>3. CASE i \in 1 .. Len(s)
    <3>1. Len(t) - Len(s) + i \in 1 .. Len(t)
      BY <1>1, <2>3
    <3>2. Append(s, x)[i] = s[i]
          /\ Append(t, x)[Len(t) - Len(s) + i] = t[Len(t) - Len(s) + i]
      BY <2>3, <3>1
    <3>3. QED
      BY <2>1, <2>3, <3>2 DEF EndOf
  <2>4. QED
    BY <1>1, <2>2, <2>3
<1>3. QED
  BY <1>1, <1>2 DEF EndOf

\* The longer sequence grows, or both do.
LEMMA WithinAppend ==
  ASSUME NEW S, NEW s \in Seq(S), NEW t \in Seq(S), NEW x \in S, Within(s, t)
  PROVE  Within(s, Append(t, x)) /\ Within(Append(s, x), Append(t, x))
<1> DEFINE u == Append(t, x)
           r == Append(s, x)
<1>1. Len(s) \in Nat /\ Len(t) \in Nat /\ Len(r) = Len(s) + 1 /\ Len(u) = Len(t) + 1
  OBVIOUS
<1>2. \A k \in 1 .. Len(t) : k \in 1 .. Len(u) /\ u[k] = t[k] /\ k < Len(u)
  BY <1>1
<1>3. Len(u) \in 1 .. Len(u) /\ u[Len(u)] = x
  BY <1>1
<1>4. \A i \in 1 .. Len(s) : r[i] = s[i]
  OBVIOUS
<1>5. r[Len(s) + 1] = x
  OBVIOUS
<1>6. \A i \in 1 .. Len(r) : i \in 1 .. Len(s) \/ i = Len(s) + 1
  BY <1>1
<1>7. \A i, j \in 1 .. Len(r) : i < j => i \in 1 .. Len(s)
  BY <1>1
<1> HIDE DEF u, r
<1>8. Within(s, u)
  BY <1>2 DEF Within
<1>9. \A i \in 1 .. Len(r) : \E k \in 1 .. Len(u) : u[k] = r[i]
  BY <1>2, <1>3, <1>4, <1>5, <1>6 DEF Within
<1>10. ASSUME NEW i \in 1 .. Len(r), NEW j \in 1 .. Len(r), i < j
       PROVE  \E k, l \in 1 .. Len(u) : k < l /\ u[k] = r[i] /\ u[l] = r[j]
  <2>1. i \in 1 .. Len(s)
    BY <1>7, <1>10
  <2>2. CASE j \in 1 .. Len(s)
    BY <1>2, <1>4, <1>10, <2>1, <2>2 DEF Within
  <2>3. CASE j = Len(s) + 1
    <3>1. PICK k \in 1 .. Len(t) : t[k] = s[i]
      BY <2>1 DEF Within
    <3>2. k \in 1 .. Len(u) /\ u[k] = r[i] /\ k < Len(u)
      BY <1>2, <1>4, <2>1, <3>1
    <3>3. u[Len(u)] = r[j]
      BY <1>3, <1>5, <2>3
    <3>4. QED
      BY <1>3, <3>2, <3>3
  <2>4. QED
    BY <1>6, <2>2, <2>3
<1>11. Within(r, u)
  BY <1>9, <1>10 DEF Within
<1>12. QED
  BY <1>8, <1>11 DEF u, r

\* Appending to the second part of a sequence.
LEMMA ConcatAppend ==
  ASSUME NEW S, NEW r \in Seq(S), NEW s \in Seq(S), NEW x \in S
  PROVE  r \o Append(s, x) = Append(r \o s, x)
<1> DEFINE left == r \o Append(s, x)
           right == Append(r \o s, x)
<1>1. Len(r) \in Nat /\ Len(s) \in Nat /\ r \o s \in Seq(S) /\ Len(r \o s) = Len(r) + Len(s)
      /\ Append(s, x) \in Seq(S) /\ Len(Append(s, x)) = Len(s) + 1
  OBVIOUS
<1>2. left \in Seq(S) /\ right \in Seq(S)
      /\ Len(left) = Len(r) + Len(s) + 1 /\ Len(right) = Len(r) + Len(s) + 1
  BY <1>1
<1>3. ASSUME NEW i \in 1 .. Len(r) + Len(s) + 1
      PROVE  left[i] = right[i]
  <2>1. CASE i <= Len(r)
    BY <1>1, <2>1
  <2>2. CASE i > Len(r) /\ i <= Len(r) + Len(s)
    BY <1>1, <2>2
  <2>3. CASE i = Len(r) + Len(s) + 1
    BY <1>1, <2>3
  <2>4. QED
    BY <1>1, <2>1, <2>2, <2>3
<1> HIDE DEF left, right
<1>4. left = right
  BY <1>2, <1>3, SameSeq
<1>5. QED
  BY <1>4 DEF left, right

\* Moving an element from the second part of a sequence to the first.
LEMMA ConcatShift ==
  ASSUME NEW S, NEW r \in Seq(S), NEW s \in Seq(S), s # <<>>
  PROVE  Append(r, Head(s)) \o Tail(s) = r \o s
<1> DEFINE left == Append(r, Head(s)) \o Tail(s)
           right == r \o s
<1>1. Len(r) \in Nat /\ Len(s) \in Nat /\ Len(s) > 0
      /\ Head(s) \in S /\ Tail(s) \in Seq(S) /\ Len(Tail(s)) = Len(s) - 1
      /\ Append(r, Head(s)) \in Seq(S) /\ Len(Append(r, Head(s))) = Len(r) + 1
  OBVIOUS
<1>2. left \in Seq(S) /\ right \in Seq(S)
      /\ Len(left) = Len(r) + Len(s) /\ Len(right) = Len(r) + Len(s)
  BY <1>1
<1>3. ASSUME NEW i \in 1 .. Len(r) + Len(s)
      PROVE  left[i] = right[i]
  <2>1. CASE i <= Len(r)
    BY <1>1, <2>1
  <2>2. CASE i = Len(r) + 1
    BY <1>1, <2>2
  <2>3. CASE i > Len(r) + 1
    BY <1>1, <2>3
  <2>4. QED
    BY <1>1, <2>1, <2>2, <2>3
<1> HIDE DEF left, right
<1>4. left = right
  BY <1>2, <1>3, SameSeq
<1>5. QED
  BY <1>4 DEF left, right

\* LastOf gives the end of a sequence.
LEMMA LastOfEnd ==
  ASSUME NEW S, NEW seq \in Seq(S), NEW n \in Nat
  PROVE  /\ LastOf(seq, n) \in Seq(S) /\ EndOf(LastOf(seq, n), seq)
         /\ Len(LastOf(seq, n)) = IF n = 0 \/ n > Len(seq) THEN Len(seq) ELSE n
<1>1. CASE n = 0 \/ n > Len(seq)
  <2>1. LastOf(seq, n) = seq
    BY <1>1 DEF LastOf
  <2>2. \A i \in 1 .. Len(seq) : Len(seq) - Len(seq) + i = i
    OBVIOUS
  <2>3. EndOf(seq, seq)
    BY <2>2 DEF EndOf
  <2>4. QED
    BY <1>1, <2>1, <2>3
<1>2. CASE ~(n = 0 \/ n > Len(seq))
  <2> DEFINE m == Len(seq) - n + 1
             r == SubSeq(seq, m, Len(seq))
  <2>1. m \in 1 .. Len(seq) /\ Len(seq) - m + 1 = n /\ Len(seq) \in Nat
    BY <1>2
  <2>2. LastOf(seq, n) = r
    BY <1>2 DEF LastOf
  <2>3. r \in Seq(S) /\ Len(r) = n
    BY <2>1
  <2>4. \A i \in 1 .. n : r[i] = seq[m + i - 1]
    BY <2>1, <2>3
  <2>5. \A i \in 1 .. n : m + i - 1 = Len(seq) - n + i
    BY <2>1
  <2> HIDE DEF r, m
  <2>6. QED
    BY <1>2, <2>1, <2>2, <2>3, <2>4, <2>5 DEF EndOf
<1>3. QED
  BY <1>1, <1>2

\* Two ends of one sequence of the same length are the same.
LEMMA EndsEqual ==
  ASSUME NEW S, NEW r \in Seq(S), NEW s \in Seq(S), NEW t \in Seq(S),
         EndOf(r, t), EndOf(s, t), Len(r) = Len(s)
  PROVE  r = s
<1>1. \A i \in 1 .. Len(r) : r[i] = s[i]
  BY DEF EndOf
<1>2. QED
  BY <1>1, SameSeq

\* Without its head a sequence is its own end.
LEMMA EndOfTail ==
  ASSUME NEW S, NEW s \in Seq(S), s # <<>>
  PROVE  Tail(s) \in Seq(S) /\ Len(Tail(s)) = Len(s) - 1 /\ EndOf(Tail(s), s)
<1>1. Len(s) \in Nat /\ Len(s) > 0 /\ Tail(s) \in Seq(S) /\ Len(Tail(s)) = Len(s) - 1
  OBVIOUS
<1>2. \A i \in 1 .. Len(s) - 1 : Tail(s)[i] = s[i + 1]
  OBVIOUS
<1>3. \A i \in 1 .. Len(s) - 1 : i + 1 = Len(s) - (Len(s) - 1) + i
  BY <1>1
<1>4. QED
  BY <1>1, <1>2, <1>3 DEF EndOf

\* Pushing into a full ring and taking the end of the log commute.
LEMMA PushKeeps ==
  ASSUME NEW S, NEW log \in Seq(S), NEW l \in S
  PROVE  Push(LastOf(log, Cap), l) = LastOf(Append(log, l), Cap)
<1> DEFINE r == LastOf(log, Cap)
           n == Len(log)
<1>1. Cap \in Nat /\ Cap > 0
  BY BoundAssumption
<1>2. r \in Seq(S) /\ EndOf(r, log) /\ Len(r) = IF Cap > n THEN n ELSE Cap
  BY <1>1, LastOfEnd
<1>3. Append(log, l) \in Seq(S) /\ Len(Append(log, l)) = n + 1 /\ n \in Nat
  OBVIOUS
<1>4. /\ LastOf(Append(log, l), Cap) \in Seq(S)
      /\ EndOf(LastOf(Append(log, l), Cap), Append(log, l))
      /\ Len(LastOf(Append(log, l), Cap)) = IF Cap > n + 1 THEN n + 1 ELSE Cap
  <2>1. Cap \in Nat /\ ~(Cap = 0)
    BY <1>1
  <2> HIDE DEF n
  <2>2. QED
    BY <1>3, <2>1, LastOfEnd
<1> HIDE DEF r, n
<1>5. /\ Push(r, l) \in Seq(S) /\ EndOf(Push(r, l), Append(log, l))
      /\ Len(Push(r, l)) = IF Cap > n + 1 THEN n + 1 ELSE Cap
  <2>1. CASE Len(r) >= Cap
    <3>1. r # <<>> /\ Len(r) = Cap
      BY <1>1, <1>2, <1>3, <2>1
    <3>2. Tail(r) \in Seq(S) /\ Len(Tail(r)) = Cap - 1 /\ EndOf(Tail(r), r)
      BY <1>2, <3>1, EndOfTail
    <3>3. EndOf(Tail(r), log)
      BY <1>2, <3>2, EndOfTransitive
    <3>4. Push(r, l) = Append(Tail(r), l)
      BY <2>1 DEF Push
    <3>5. Cap <= n
      BY <1>1, <1>2, <1>3, <2>1
    <3>6. Len(Append(Tail(r), l)) = Cap /\ Append(Tail(r), l) \in Seq(S)
      BY <1>1, <3>2
    <3>7. EndOf(Append(Tail(r), l), Append(log, l))
      BY <3>2, <3>3, EndOfAppend
    <3>8. ~(Cap > n + 1) \/ Cap = n + 1
      BY <1>1, <1>3, <3>5
    <3>9. QED
      BY <3>4, <3>6, <3>7, <3>8
  <2>2. CASE ~(Len(r) >= Cap)
    <3>1. Push(r, l) = Append(r, l)
      BY <2>2 DEF Push
    <3>2. Len(r) = n /\ n < Cap
      BY <1>1, <1>2, <1>3, <2>2
    <3>3. Append(r, l) \in Seq(S) /\ Len(Append(r, l)) = n + 1
      BY <1>2, <3>2
    <3>4. EndOf(Append(r, l), Append(log, l))
      BY <1>2, EndOfAppend
    <3>5. QED
      BY <1>1, <1>3, <3>1, <3>2, <3>3, <3>4
  <2>3. QED
    BY <2>1, <2>2
<1>6. QED
  BY <1>3, <1>4, <1>5, EndsEqual DEF r

-------------------------------------------------------------------------------
(* The invariant                                                           *)

SubRecord ==
  [buf : AllBufs \cup {None}, queue : Seq(Line), got : Seq(Line), dropped : BOOLEAN]

Types ==
  /\ lines \in [AllBufs -> Seq(Line)]
  /\ hist \in [AllBufs -> Seq(Line)]
  /\ pending \in [AllBufs -> Line \cup {None}]
  /\ sub \in [Subs -> SubRecord]

\* What one subscriber has got and will get, against the log of its buffer.
Follows(r, log) ==
  LET flow == r.got \o r.queue IN
  (r.dropped \/ EndOf(flow, log)) /\ Within(flow, log)

Streams == \A s \in Subs : sub[s].buf # None => Follows(sub[s], hist[sub[s].buf])

IInv == Types /\ KeepsMostRecent /\ Streams

\* A new line has a number within the bound.
LEMMA NextLine ==
  ASSUME Types, NEW b \in AllBufs, Own(b) < MaxLines
  PROVE  [from |-> b, n |-> Own(b) + 1] \in Line
<1> DEFINE D == DOMAIN hist[b]
           T == {k \in D : hist[b][k].from = b}
<1>1. D = 1 .. Len(hist[b]) /\ Len(hist[b]) \in Nat
  BY DEF Types
<1>2. IsFiniteSet(D)
  BY <1>1, FS_Interval
<1>3. T \in SUBSET D
  OBVIOUS
<1>4. Cardinality(T) \in Nat
  BY <1>2, <1>3, FS_Subset, FS_CardinalityType
<1>5. Own(b) \in Nat
  BY <1>4 DEF Own
<1>6. Own(b) + 1 \in 1 .. MaxLines
  BY <1>5, BoundAssumption
<1>7. QED
  BY <1>6 DEF Line

\* The new line reaches a subscriber's channel or is dropped there; the log
\* grows by it either way.
LEMMA FollowsDelivered ==
  ASSUME NEW r \in SubRecord, NEW log \in Seq(Line), NEW l \in Line, Follows(r, log)
  PROVE  /\ Follows([r EXCEPT !.queue = Append(@, l)], Append(log, l))
         /\ Follows([r EXCEPT !.dropped = TRUE], Append(log, l))
<1> DEFINE flow == r.got \o r.queue
           more == [r EXCEPT !.queue = Append(@, l)]
           less == [r EXCEPT !.dropped = TRUE]
<1>1. r.got \in Seq(Line) /\ r.queue \in Seq(Line) /\ flow \in Seq(Line)
  BY DEF SubRecord
<1>2. r.got \o Append(r.queue, l) = Append(flow, l)
  <2>1. l \in Line
    OBVIOUS
  <2>2. \A p, q \in Seq(Line) : p \o Append(q, l) = Append(p \o q, l)
    BY ONLY <2>1, ConcatAppend
  <2>3. QED
    BY ONLY <1>1, <2>2, Zenon
<1>3. more.got \o more.queue = Append(flow, l) /\ more.dropped = r.dropped
  BY <1>2 DEF SubRecord
<1>4. less.got \o less.queue = flow /\ less.dropped
  BY DEF SubRecord
<1>5. (r.dropped \/ EndOf(flow, log)) /\ Within(flow, log)
  BY DEF Follows
<1> HIDE DEF flow, more, less
<1>6. Within(flow, Append(log, l)) /\ Within(Append(flow, l), Append(log, l))
  BY <1>1, <1>5, WithinAppend
<1>7. r.dropped \/ EndOf(Append(flow, l), Append(log, l))
  BY <1>1, <1>5, EndOfAppend
<1>8. Follows(more, Append(log, l))
  BY <1>3, <1>6, <1>7 DEF Follows
<1>9. Follows(less, Append(log, l))
  BY <1>4, <1>6 DEF Follows
<1>10. QED
  BY <1>8, <1>9 DEF more, less

\* A line delivered to a buffer.
LEMMA DeliverKeeps ==
  ASSUME IInv, NEW b, NEW l \in Line, Deliver(b, l)
  PROVE  /\ lines' \in [AllBufs -> Seq(Line)] /\ hist' \in [AllBufs -> Seq(Line)]
         /\ sub' \in [Subs -> SubRecord]
         /\ KeepsMostRecent' /\ Streams'
<1> USE DEF IInv
<1>1. Cap \in Nat /\ Cap > 0
  BY BoundAssumption
<1>2. ASSUME NEW c \in AllBufs
      PROVE  /\ hist[c] \in Seq(Line) /\ lines[c] \in Seq(Line)
             /\ hist'[c] = IF c = b THEN Append(hist[c], l) ELSE hist[c]
             /\ lines'[c] = IF c = b THEN Push(lines[c], l) ELSE lines[c]
             /\ lines[c] = LastOf(hist[c], Cap)
  BY DEF Types, Deliver, KeepsMostRecent
<1>3. hist' = [c \in AllBufs |-> hist'[c]] /\ lines' = [c \in AllBufs |-> lines'[c]]
  BY DEF Types, Deliver
<1>4. ASSUME NEW c \in AllBufs
      PROVE  hist'[c] \in Seq(Line) /\ lines'[c] = LastOf(hist'[c], Cap)
  <2>1. CASE c = b
    <3>1. hist'[c] = Append(hist[c], l) /\ lines'[c] = Push(LastOf(hist[c], Cap), l)
      BY <1>2, <2>1
    <3>2. QED
      BY <1>2, <3>1, PushKeeps
  <2>2. CASE c # b
    BY <1>2, <2>2
  <2>3. QED
    BY <2>1, <2>2
<1>5. ASSUME NEW c \in AllBufs
      PROVE  lines'[c] \in Seq(Line)
  BY <1>1, <1>4, LastOfEnd
<1>6. lines' \in [AllBufs -> Seq(Line)] /\ hist' \in [AllBufs -> Seq(Line)]
  BY <1>3, <1>4, <1>5
<1>7. KeepsMostRecent'
  BY <1>4 DEF KeepsMostRecent
<1>8. ASSUME NEW s \in Subs
      PROVE  /\ sub[s] \in SubRecord
             /\ sub'[s] = IF sub[s].buf # b THEN sub[s]
                          ELSE IF Len(sub[s].queue) < QueueCap
                               THEN [sub[s] EXCEPT !.queue = Append(@, l)]
                               ELSE [sub[s] EXCEPT !.dropped = TRUE]
  BY DEF Types, Deliver
<1>9. ASSUME NEW s \in Subs
      PROVE  sub'[s] \in SubRecord /\ sub'[s].buf = sub[s].buf
  <2>1. sub[s].queue \in Seq(Line)
    BY <1>8 DEF SubRecord
  <2>2. Append(sub[s].queue, l) \in Seq(Line)
    BY <2>1
  <2>3. QED
    BY <1>8, <2>2 DEF SubRecord
<1>10. sub' \in [Subs -> SubRecord]
  BY <1>9 DEF Deliver
<1>11. ASSUME NEW s \in Subs, sub[s].buf # None
       PROVE  Follows(sub'[s], hist'[sub[s].buf])
  <2>1. sub[s].buf \in AllBufs /\ Follows(sub[s], hist[sub[s].buf])
    BY <1>8, <1>11 DEF SubRecord, Streams
  <2>2. CASE sub[s].buf # b
    BY <1>2, <1>8, <2>1, <2>2
  <2>3. CASE sub[s].buf = b
    <3>1. hist'[sub[s].buf] = Append(hist[sub[s].buf], l) /\ hist[sub[s].buf] \in Seq(Line)
      BY <1>2, <2>1, <2>3
    <3> DEFINE log == hist[sub[s].buf]
    <3>2. sub[s] \in SubRecord /\ log \in Seq(Line) /\ Follows(sub[s], log)
      BY <1>8, <2>1, <3>1
    <3>3. /\ Follows([sub[s] EXCEPT !.queue = Append(@, l)], Append(log, l))
          /\ Follows([sub[s] EXCEPT !.dropped = TRUE], Append(log, l))
      BY ONLY <3>2, FollowsDelivered, l \in Line
    <3>4. QED
      BY <1>8, <2>3, <3>1, <3>3
  <2>4. QED
    BY <2>2, <2>3
<1>12. Streams'
  BY <1>9, <1>11 DEF Streams
<1>13. QED
  BY <1>6, <1>7, <1>10, <1>12

-------------------------------------------------------------------------------
(* The steps                                                               *)

\* No line was logged and nobody listens.
LEMMA InitHolds == Init => IInv
<1> SUFFICES ASSUME Init PROVE IInv
  OBVIOUS
<1>1. <<>> \in Seq(Line)
  OBVIOUS
<1>2. NoSub \in SubRecord /\ NoSub.buf = None
  BY <1>1 DEF NoSub, SubRecord
<1>3. Types
  BY <1>1, <1>2 DEF Init, Types
<1>4. LastOf(<<>>, Cap) = <<>>
  <2>1. Len(<<>>) = 0 /\ Cap \in Nat /\ Cap > 0
    BY BoundAssumption
  <2>2. QED
    BY <2>1 DEF LastOf
<1>5. KeepsMostRecent
  BY <1>4 DEF Init, KeepsMostRecent
<1>6. Streams
  BY <1>2 DEF Init, Streams
<1>7. QED
  BY <1>3, <1>5, <1>6 DEF IInv

\* A line is appended, or mirrored.
LEMMA AppendHolds ==
  ASSUME IInv, NEW b \in AllBufs, AppendLine(b) \/ MirrorLine(b)
  PROVE  IInv'
<1>1. CASE AppendLine(b)
  <2> DEFINE l == [from |-> b, n |-> Own(b) + 1]
  <2>1. l \in Line
    BY <1>1, NextLine DEF AppendLine, IInv
  <2>2. Deliver(b, l) /\ pending' = [pending EXCEPT ![b] = IF mirror[b] = None THEN None ELSE l]
    BY <1>1 DEF AppendLine
  <2> HIDE DEF l
  <2>3. pending' \in [AllBufs -> Line \cup {None}]
    BY <2>1, <2>2 DEF IInv, Types
  <2>4. QED
    BY <2>1, <2>2, <2>3, DeliverKeeps DEF IInv, Types
<1>2. CASE MirrorLine(b)
  <2>1. pending[b] \in Line
    BY <1>2 DEF MirrorLine, Unlocked, IInv, Types
  <2>2. Deliver(mirror[b], pending[b]) /\ pending' = [pending EXCEPT ![b] = None]
    BY <1>2 DEF MirrorLine
  <2>3. pending' \in [AllBufs -> Line \cup {None}]
    BY <2>2 DEF IInv, Types
  <2>4. QED
    BY <2>1, <2>2, <2>3, DeliverKeeps DEF IInv, Types
<1>3. QED
  BY <1>1, <1>2

\* A subscriber is replayed the end of the ring, which is the end of the log.
LEMMA SubscribeHolds ==
  ASSUME IInv, NEW s \in Subs, NEW b \in AllBufs, NEW n \in Nat, Subscribe(s, b, n)
  PROVE  IInv'
<1> USE DEF IInv
<1>1. Cap \in Nat
  BY BoundAssumption
<1>2. hist[b] \in Seq(Line) /\ lines[b] \in Seq(Line) /\ lines[b] = LastOf(hist[b], Cap)
  BY DEF Types, KeepsMostRecent
<1> DEFINE got == LastOf(lines[b], n)
<1>3. got \in Seq(Line) /\ EndOf(got, lines[b]) /\ EndOf(lines[b], hist[b])
  BY <1>1, <1>2, LastOfEnd
<1>4. EndOf(got, hist[b])
  BY <1>2, <1>3, EndOfTransitive
<1>5. Within(got, hist[b])
  BY <1>2, <1>3, <1>4, EndOfWithin
<1> HIDE DEF got
<1> DEFINE r == [buf |-> b, queue |-> <<>>, got |-> got, dropped |-> FALSE]
<1>6. sub' = [sub EXCEPT ![s] = r] /\ UNCHANGED <<lines, pending, hist>>
  BY DEF Subscribe, got
<1>7. r = [buf |-> b, queue |-> <<>>, got |-> got, dropped |-> FALSE]
  OBVIOUS
<1> HIDE DEF r
<1>8. got \o <<>> = got /\ <<>> \in Seq(Line)
  BY <1>3
<1>9. r \in SubRecord /\ r.buf = b
  BY <1>3, <1>7, <1>8 DEF SubRecord
<1>10. Follows(r, hist[b])
  BY <1>4, <1>5, <1>7, <1>8 DEF Follows
<1>11. Types' /\ KeepsMostRecent'
  BY <1>6, <1>9 DEF Types, KeepsMostRecent
<1>12. \A t \in Subs : sub'[t] = IF t = s THEN r ELSE sub[t]
  BY <1>6 DEF Types
<1>13. Streams'
  BY <1>6, <1>9, <1>10, <1>12 DEF Streams
<1>14. QED
  BY <1>11, <1>13

\* The handler takes a line from its channel and sends it.
LEMMA SendHolds ==
  ASSUME IInv, NEW s \in Subs, Send(s)
  PROVE  IInv'
<1> USE DEF IInv
<1>1. sub[s] \in SubRecord /\ sub[s].queue # <<>>
  BY DEF Types, Send
<1>2. sub[s].got \in Seq(Line) /\ sub[s].queue \in Seq(Line)
  BY <1>1 DEF SubRecord
<1> DEFINE r == [sub[s] EXCEPT !.queue = Tail(@), !.got = Append(@, Head(sub[s].queue))]
<1>3. sub' = [sub EXCEPT ![s] = r] /\ UNCHANGED <<lines, pending, hist>>
  BY <1>1 DEF Send, Types
<1>4. Tail(sub[s].queue) \in Seq(Line) /\ Head(sub[s].queue) \in Line
      /\ Append(sub[s].got, Head(sub[s].queue)) \in Seq(Line)
  BY <1>1, <1>2
<1>5. r \in SubRecord /\ r.buf = sub[s].buf /\ r.dropped = sub[s].dropped
      /\ r.got = Append(sub[s].got, Head(sub[s].queue)) /\ r.queue = Tail(sub[s].queue)
  BY <1>1, <1>4 DEF SubRecord
<1>6. Append(sub[s].got, Head(sub[s].queue)) \o Tail(sub[s].queue) = sub[s].got \o sub[s].queue
  BY <1>1, <1>2, ConcatShift
<1> HIDE DEF r
<1>7. r.got \o r.queue = sub[s].got \o sub[s].queue
  BY <1>5, <1>6
<1>8. Types' /\ KeepsMostRecent'
  BY <1>3, <1>5 DEF Types, KeepsMostRecent
<1>9. \A t \in Subs : sub'[t] = IF t = s THEN r ELSE sub[t]
  BY <1>3 DEF Types
<1>10. Streams'
  BY <1>3, <1>5, <1>7, <1>9 DEF Streams, Follows
<1>11. QED
  BY <1>8, <1>10

\* A subscriber leaves, and the store's own operations.
LEMMA OtherHolds ==
  ASSUME IInv,
         \/ \E s \in Subs : Cancel(s)
         \/ \E id \in Ids, b \in Bufs : Get(id, b) \/ \E t \in Runtimes : BindModel(id, b, t)
         \/ \E id \in Ids : RemoveModel(id)
  PROVE  IInv'
<1> USE DEF IInv
<1>1. CASE \E s \in Subs : Cancel(s)
  <2> PICK s \in Subs : Cancel(s)
    BY <1>1
  <2>1. <<>> \in Seq(Line)
    OBVIOUS
  <2>2. NoSub \in SubRecord /\ NoSub.buf = None
    BY <2>1 DEF NoSub, SubRecord
  <2>3. sub' = [sub EXCEPT ![s] = NoSub] /\ UNCHANGED <<lines, pending, hist>>
    BY DEF Cancel
  <2>4. Types' /\ KeepsMostRecent'
    BY <2>2, <2>3 DEF Types, KeepsMostRecent
  <2>5. Streams'
    BY <2>2, <2>3 DEF Types, Streams
  <2>6. QED
    BY <2>4, <2>5
<1>2. CASE ~\E s \in Subs : Cancel(s)
  <2>1. UNCHANGED <<lines, pending, sub, hist>>
    BY <1>2 DEF Get, BindModel, RemoveModel
  <2>2. QED
    BY <2>1 DEF Types, KeepsMostRecent, Streams
<1>3. QED
  BY <1>1, <1>2

\* Every step, and a step that changes nothing.
LEMMA NextHolds == IInv /\ [Next]_vars => IInv'
<1> SUFFICES ASSUME IInv, [Next]_vars PROVE IInv'
  OBVIOUS
<1>1. CASE UNCHANGED vars
  BY <1>1 DEF vars, IInv, Types, KeepsMostRecent, Streams
<1>2. CASE \E b \in AllBufs : AppendLine(b) \/ MirrorLine(b)
  BY <1>2, AppendHolds
<1>3. CASE \E s \in Subs, b \in AllBufs, n \in Replays : Subscribe(s, b, n)
  BY <1>3, SubscribeHolds, BoundAssumption
<1>4. CASE \E s \in Subs : Send(s) \/ Cancel(s)
  BY <1>4, SendHolds, OtherHolds
<1>5. CASE \/ \E id \in Ids, b \in Bufs : Get(id, b) \/ \E t \in Runtimes : BindModel(id, b, t)
           \/ \E id \in Ids : RemoveModel(id)
  BY <1>5, OtherHolds
<1>6. QED
  BY <1>1, <1>2, <1>3, <1>4, <1>5 DEF Next

\* The invariant holds in every state of every behavior.
LEMMA Invariance == Spec => []IInv
BY InitHolds, NextHolds, PTL DEF Spec

-------------------------------------------------------------------------------
\* A ring holds exactly the most recent lines, whatever its size.
THEOREM RecentKept == Spec => []KeepsMostRecent
<1>1. IInv => KeepsMostRecent
  BY DEF IInv
<1>2. QED
  BY <1>1, Invariance, PTL

\* What the invariant says of a stream.
LEMMA NoGapHolds == IInv => NoGap
<1> SUFFICES ASSUME IInv, NEW s \in Subs, sub[s].buf # None
             PROVE  LET log == hist[sub[s].buf] IN
                    /\ ~sub[s].dropped => IsSuffix(Stream(s), log)
                    /\ \A i, j \in DOMAIN Stream(s) : i < j =>
                         \E k, l \in DOMAIN log :
                           k < l /\ log[k] = Stream(s)[i] /\ log[l] = Stream(s)[j]
  BY DEF NoGap
<1> DEFINE log == hist[sub[s].buf]
           flow == sub[s].got \o sub[s].queue
<1>1. sub[s] \in SubRecord
  BY DEF IInv, Types
<1>2. sub[s].buf \in AllBufs /\ sub[s].got \in Seq(Line) /\ sub[s].queue \in Seq(Line)
  BY <1>1 DEF SubRecord
<1>3. log \in Seq(Line) /\ flow \in Seq(Line)
  BY <1>2 DEF IInv, Types
<1>4. (sub[s].dropped \/ EndOf(flow, log)) /\ Within(flow, log)
  BY DEF IInv, Streams, Follows
<1>5. Stream(s) = flow
  BY DEF Stream
<1> HIDE DEF log, flow
<1>6. ~sub[s].dropped => IsSuffix(flow, log)
  BY <1>3, <1>4, EndOfIsSuffix
<1>7. DOMAIN flow = 1 .. Len(flow) /\ DOMAIN log = 1 .. Len(log)
  BY <1>3
<1>8. \A i, j \in DOMAIN flow : i < j =>
        \E k, l \in DOMAIN log : k < l /\ log[k] = flow[i] /\ log[l] = flow[j]
  <2> SUFFICES ASSUME NEW i \in DOMAIN flow, NEW j \in DOMAIN flow, i < j
               PROVE  \E k, l \in DOMAIN log : k < l /\ log[k] = flow[i] /\ log[l] = flow[j]
    OBVIOUS
  <2>1. i \in 1 .. Len(flow) /\ j \in 1 .. Len(flow)
    BY <1>7
  <2>2. PICK k, l \in 1 .. Len(log) : k < l /\ log[k] = flow[i] /\ log[l] = flow[j]
    BY <1>4, <2>1 DEF Within
  <2>3. k \in DOMAIN log /\ l \in DOMAIN log
    BY <1>7
  <2>4. QED
    BY <2>2, <2>3
<1>9. QED
  BY <1>5, <1>6, <1>8 DEF log

\* A stream has no gap between replay and live lines, repeats nothing and
\* keeps the order, for any number of subscribers and any size of channel.
THEOREM StreamsFollow == Spec => []NoGap
BY Invariance, NoGapHolds, PTL

-------------------------------------------------------------------------------
(***************************************************************************)
(* The log of a runtime.  A buffer of a model has its own lines only, and  *)
(* they are numbered; while it is locked, its last one is on the way to    *)
(* the runtime.  All the others up to there, back to the one after the     *)
(* last binding, are in the log of the runtime it is bound to, and in the  *)
(* log of any runtime lines of one model keep their order.                 *)
(***************************************************************************)
Numbered(b) == \A k \in 1 .. Len(hist[b]) : hist[b][k] = [from |-> b, n |-> k]

Locked(b) ==
  /\ since[b] <= Len(hist[b])
  /\ ~Unlocked(b) => /\ mirror[b] # None /\ since[b] < Len(hist[b])
                     /\ pending[b] = [from |-> b, n |-> Len(hist[b])]

InOrder(b, log, m) ==
  /\ \A k \in 1 .. Len(log) : log[k].from = b => log[k].n <= m
  /\ \A i, j \in 1 .. Len(log) :
       i < j /\ log[i].from = b /\ log[j].from = b => log[i].n < log[j].n

Complete(b, log, first, last) ==
  \A n \in first .. last : \E k \in 1 .. Len(log) : log[k] = [from |-> b, n |-> n]

MirrorInv ==
  /\ store \in [Ids -> Bufs \cup {None}]
  /\ mirror \in [AllBufs -> Runtimes \cup {None}]
  /\ since \in [AllBufs -> Nat]
  /\ \A t \in Runtimes : Unlocked(t) /\ mirror[t] = None
  /\ \A b \in Bufs : Numbered(b) /\ Locked(b)
  /\ \A b \in Bufs, t \in Runtimes : InOrder(b, hist[t], Mirrored(b))
  /\ \A b \in Bufs : mirror[b] # None =>
       Complete(b, hist[mirror[b]], since[b] + 1, Mirrored(b))

\* The buffers of models and the ones of runtimes are different ones.
LEMMA Apart ==
  /\ \A b \in Bufs : b \in AllBufs /\ b \notin Runtimes /\ b # None
  /\ \A t \in Runtimes : t \in AllBufs /\ t \notin Bufs /\ t # None
  /\ None \notin Line
BY NamesAssumption DEF AllBufs

\* All lines of a model's buffer are its own.
LEMMA OwnIsAll ==
  ASSUME Types, NEW b \in Bufs, Numbered(b)
  PROVE  Own(b) = Len(hist[b]) /\ Len(hist[b]) \in Nat
<1>1. hist[b] \in Seq(Line)
  BY Apart DEF Types
<1>2. DOMAIN hist[b] = 1 .. Len(hist[b]) /\ Len(hist[b]) \in Nat
  BY <1>1
<1>3. {k \in DOMAIN hist[b] : hist[b][k].from = b} = 1 .. Len(hist[b])
  <2>1. ASSUME NEW k \in 1 .. Len(hist[b]) PROVE hist[b][k].from = b
    <3>1. hist[b][k] = [from |-> b, n |-> k]
      BY DEF Numbered
    <3>2. QED
      BY <3>1
  <2> DEFINE own == {k \in DOMAIN hist[b] : hist[b][k].from = b}
  <2>2. \A k : k \in own <=> k \in 1 .. Len(hist[b])
    BY <1>2, <2>1
  <2> HIDE DEF own
  <2>3. own = 1 .. Len(hist[b])
    BY <2>2
  <2>4. QED
    BY <2>3 DEF own
<1>4. Cardinality(1 .. Len(hist[b])) = Len(hist[b])
  BY <1>2, FS_Interval
<1>5. QED
  BY <1>2, <1>3, <1>4 DEF Own

\* One log has grown by a line.
LEMMA Grown ==
  ASSUME Types, NEW c \in AllBufs, NEW l \in Line, Deliver(c, l)
  PROVE  /\ \A d \in AllBufs : d # c => hist'[d] = hist[d]
         /\ Len(hist[c]) \in Nat /\ Len(hist'[c]) = Len(hist[c]) + 1
         /\ hist'[c][Len(hist[c]) + 1] = l
         /\ \A k \in 1 .. Len(hist[c]) : hist'[c][k] = hist[c][k]
<1>1. hist[c] \in Seq(Line) /\ hist'[c] = Append(hist[c], l)
  BY DEF Deliver, Types
<1>2. \A d \in AllBufs : d # c => hist'[d] = hist[d]
  BY DEF Deliver, Types
<1>3. QED
  BY <1>1, <1>2

\* The numbers of the lines of a log.
LEMMA LineNumbers ==
  ASSUME NEW log \in Seq(Line)
  PROVE  Len(log) \in Nat /\ \A k \in 1 .. Len(log) : log[k] \in Line /\ log[k].n \in Nat
<1>1. \A k \in 1 .. Len(log) : log[k] \in Line
  OBVIOUS
<1>2. QED
  BY <1>1, BoundAssumption DEF Line

\* What a line of another buffer, or the next one of this, does to a log.
LEMMA OrderGrows ==
  ASSUME NEW b \in Bufs, NEW log \in Seq(Line), NEW more \in Seq(Line), NEW l \in Line,
         Len(more) = Len(log) + 1, more[Len(log) + 1] = l,
         \A k \in 1 .. Len(log) : more[k] = log[k],
         NEW m \in Nat, NEW p \in Nat, m <= p, InOrder(b, log, m),
         l.from = b => m < l.n /\ l.n <= p
  PROVE  InOrder(b, more, p)
<1>1. /\ Len(log) \in Nat /\ \A k \in 1 .. Len(log) + 1 : k = Len(log) + 1 \/ k \in 1 .. Len(log)
      /\ \A k \in 1 .. Len(log) : log[k].n \in Nat
  BY LineNumbers
<1>2. l.n \in Nat
  BY BoundAssumption DEF Line
<1>3. ASSUME NEW k \in 1 .. Len(more), more[k].from = b PROVE more[k].n <= p
  <2>1. CASE k = Len(log) + 1
    BY <1>3, <2>1
  <2>2. CASE k \in 1 .. Len(log)
    BY <1>1, <1>3, <2>2 DEF InOrder
  <2>3. QED
    BY <1>1, <2>1, <2>2
<1>4. ASSUME NEW i \in 1 .. Len(more), NEW j \in 1 .. Len(more), i < j,
             more[i].from = b, more[j].from = b
      PROVE  more[i].n < more[j].n
  <2>1. i \in 1 .. Len(log)
    BY <1>1, <1>4
  <2>2. CASE j = Len(log) + 1
    BY <1>1, <1>2, <1>4, <2>1, <2>2 DEF InOrder
  <2>3. CASE j \in 1 .. Len(log)
    BY <1>4, <2>1, <2>3 DEF InOrder
  <2>4. QED
    BY <1>1, <2>2, <2>3
<1>5. QED
  BY <1>3, <1>4 DEF InOrder

\* A log is in order up to any line after its last.
LEMMA OrderStays ==
  ASSUME NEW b, NEW log \in Seq(Line), NEW m \in Nat, NEW p \in Nat, m <= p, InOrder(b, log, m)
  PROVE  InOrder(b, log, p)
<1>1. \A k \in 1 .. Len(log) : log[k].n \in Nat
  BY LineNumbers
<1>2. QED
  BY <1>1 DEF InOrder

\* How many lines of a model are mirrored.
LEMMA MirroredIs ==
  ASSUME Types, MirrorInv, NEW b \in Bufs
  PROVE  /\ hist[b] \in Seq(Line) /\ Len(hist[b]) \in Nat /\ since[b] \in Nat
         /\ Mirrored(b) \in Nat /\ since[b] <= Mirrored(b) /\ Mirrored(b) <= Len(hist[b])
         /\ Unlocked(b) => Mirrored(b) = Len(hist[b])
         /\ ~Unlocked(b) => Mirrored(b) = Len(hist[b]) - 1
<1>1. hist[b] \in Seq(Line) /\ since[b] \in Nat /\ Locked(b)
  BY Apart DEF Types, MirrorInv
<1>2. Len(hist[b]) \in Nat
  BY <1>1
<1>3. QED
  BY <1>1, <1>2 DEF Locked, Mirrored

\* A step that leaves the logs and their locks alone.
LEMMA MirrorKept ==
  ASSUME MirrorInv, UNCHANGED <<mirror, pending, since, hist>>,
         store' \in [Ids -> Bufs \cup {None}]
  PROVE  MirrorInv'
<1>1. \A b \in Bufs : Mirrored(b)' = Mirrored(b) /\ (Numbered(b) => Numbered(b)')
                       /\ (Locked(b) => Locked(b)')
  BY DEF Numbered, Locked, Mirrored, Unlocked
<1>2. QED
  BY <1>1 DEF MirrorInv, Unlocked

\* No line, and nothing is bound.
LEMMA MirrorInit == Init => MirrorInv
<1> SUFFICES ASSUME Init PROVE MirrorInv
  OBVIOUS
<1>1. /\ store = [id \in Ids |-> None] /\ mirror = [b \in AllBufs |-> None]
      /\ since = [b \in AllBufs |-> 0] /\ Len(<<>>) = 0 /\ 1 .. 0 = {}
      /\ \A b \in AllBufs : hist[b] = <<>> /\ pending[b] = None /\ since[b] = 0 /\ mirror[b] = None
  BY DEF Init
<1>2. QED
  BY <1>1, Apart DEF MirrorInv, Numbered, Locked, InOrder, Unlocked

\* A line of a runtime itself.
LEMMA RuntimeLine ==
  ASSUME IInv, MirrorInv, NEW t \in Runtimes, AppendLine(t)
  PROVE  MirrorInv'
<1> DEFINE l == [from |-> t, n |-> Own(t) + 1]
<1>1. l \in Line /\ Types /\ t \in AllBufs
  BY Apart, NextLine DEF AppendLine, IInv
<1>2. Deliver(t, l) /\ UNCHANGED <<store, mirror, since>> /\ l.from = t
  BY DEF AppendLine
<1>3. pending' = pending
  <2>1. mirror[t] = None /\ pending[t] = None
    BY DEF MirrorInv, Unlocked
  <2>2. pending' = [pending EXCEPT ![t] = None]
    BY <2>1 DEF AppendLine
  <2>3. QED
    BY <1>1, <2>1, <2>2 DEF Types
<1> HIDE DEF l
<1>4. /\ \A d \in AllBufs : d # t => hist'[d] = hist[d]
      /\ Len(hist'[t]) = Len(hist[t]) + 1 /\ hist'[t][Len(hist[t]) + 1] = l
      /\ Len(hist[t]) \in Nat /\ \A k \in 1 .. Len(hist[t]) : hist'[t][k] = hist[t][k]
  BY <1>1, <1>2, Grown
<1>5. ASSUME NEW b \in Bufs
      PROVE  /\ hist'[b] = hist[b] /\ Mirrored(b)' = Mirrored(b) /\ Mirrored(b) \in Nat
             /\ Numbered(b)' /\ Locked(b)'
  <2>1. hist'[b] = hist[b] /\ hist[b] \in Seq(Line)
    BY <1>1, <1>4, Apart DEF Types
  <2>2. Numbered(b) /\ Locked(b) /\ since[b] \in Nat
    BY Apart DEF MirrorInv
  <2>3. Mirrored(b) \in Nat
    BY <1>1, MirroredIs
  <2>4. QED
    BY <1>2, <1>3, <2>1, <2>2, <2>3 DEF Numbered, Locked, Unlocked, Mirrored
<1>6. ASSUME NEW b \in Bufs, NEW u \in Runtimes PROVE InOrder(b, hist'[u], Mirrored(b)')
  <2>1. InOrder(b, hist[u], Mirrored(b)) /\ hist[u] \in Seq(Line)
    BY <1>1, Apart DEF MirrorInv, Types
  <2>2. CASE u = t
    <3>1. l.from # b
      BY <1>2, Apart
    <3>2. hist'[t] \in Seq(Line)
      BY <1>1, <1>2, DeliverKeeps, Apart
    <3>3. QED
      BY <1>1, <1>4, <1>5, <2>1, <2>2, <3>1, <3>2, OrderGrows
  <2>3. CASE u # t
    BY <1>4, <1>5, <2>1, <2>3, Apart
  <2>4. QED
    BY <2>2, <2>3
<1>7. ASSUME NEW b \in Bufs, mirror[b] # None
      PROVE  Complete(b, hist'[mirror[b]], since[b] + 1, Mirrored(b)')
  <2>1. Complete(b, hist[mirror[b]], since[b] + 1, Mirrored(b)) /\ mirror[b] \in Runtimes
    BY <1>7, Apart DEF MirrorInv
  <2>2. \A k \in 1 .. Len(hist[mirror[b]]) :
          k \in 1 .. Len(hist'[mirror[b]]) /\ hist'[mirror[b]][k] = hist[mirror[b]][k]
    BY <1>4, <2>1, Apart
  <2>3. QED
    BY <1>2, <1>5, <2>1, <2>2 DEF Complete
<1>8. QED
  BY <1>2, <1>3, <1>5, <1>6, <1>7 DEF MirrorInv, Unlocked

\* A line of a model: it is the last one of its buffer, and on its way if the
\* buffer is bound.
LEMMA ModelLine ==
  ASSUME IInv, MirrorInv, NEW b \in Bufs, AppendLine(b)
  PROVE  MirrorInv'
<1> DEFINE l == [from |-> b, n |-> Own(b) + 1]
<1>1. l \in Line /\ Types /\ b \in AllBufs /\ b \notin Runtimes
  BY Apart, NextLine DEF AppendLine, IInv
<1>2. /\ Deliver(b, l) /\ UNCHANGED <<store, mirror, since>>
      /\ pending' = [pending EXCEPT ![b] = IF mirror[b] = None THEN None ELSE l]
      /\ Unlocked(b)
  BY DEF AppendLine
<1>3. /\ Numbered(b) /\ Locked(b) /\ since[b] \in Nat /\ mirror[b] \in Runtimes \cup {None}
      /\ Own(b) = Len(hist[b]) /\ Len(hist[b]) \in Nat
  BY <1>1, OwnIsAll DEF MirrorInv
<1>4. l = [from |-> b, n |-> Len(hist[b]) + 1] /\ l # None
  BY <1>1, <1>3, Apart
<1> HIDE DEF l
<1>5. /\ \A d \in AllBufs : d # b => hist'[d] = hist[d]
      /\ Len(hist'[b]) = Len(hist[b]) + 1 /\ hist'[b][Len(hist[b]) + 1] = l
      /\ \A k \in 1 .. Len(hist[b]) : hist'[b][k] = hist[b][k]
  BY <1>1, <1>2, Grown
<1>6. \A d \in AllBufs : pending'[d] = IF d = b THEN IF mirror[b] = None THEN None ELSE l ELSE pending[d]
  BY <1>1, <1>2 DEF Types
<1>7. /\ Unlocked(b)' <=> mirror[b] = None
      /\ ~Unlocked(b)' => pending'[b] = l
  BY <1>1, <1>4, <1>6 DEF Unlocked
<1>8. /\ Mirrored(b) = Len(hist[b])
      /\ Mirrored(b)' = IF mirror[b] = None THEN Len(hist[b]) + 1 ELSE (Len(hist[b]) + 1) - 1
  BY <1>1, <1>2, <1>5, <1>7, MirroredIs DEF Mirrored
<1>9. ASSUME NEW c \in Bufs
      PROVE  /\ Numbered(c)' /\ Locked(c)' /\ Mirrored(c) \in Nat
             /\ Mirrored(c) <= Mirrored(c)' /\ Mirrored(c)' \in Nat
             /\ mirror[c] # None => Mirrored(c)' = Mirrored(c)
  <2>1. CASE c = b
    <3>1. \A k \in 1 .. Len(hist[b]) + 1 : k = Len(hist[b]) + 1 \/ k \in 1 .. Len(hist[b])
      BY <1>3
    <3>2. Numbered(b)'
      BY <1>3, <1>4, <1>5, <3>1 DEF Numbered
    <3>3. Locked(b)'
      <4>1. since[b] <= Len(hist[b]) + 1 /\ since[b] < Len(hist[b]) + 1
        BY <1>3 DEF Locked
      <4>2. QED
        BY <1>2, <1>4, <1>5, <1>7, <4>1 DEF Locked
    <3>4. (mirror[b] # None => Mirrored(b)' = Mirrored(b)) /\ Mirrored(b)' \in Nat
          /\ Mirrored(b) <= Mirrored(b)' /\ Mirrored(b) \in Nat
      BY <1>3, <1>8
    <3>5. QED
      BY <2>1, <3>2, <3>3, <3>4
  <2>2. CASE c # b
    <3>1. hist'[c] = hist[c] /\ pending'[c] = pending[c] /\ c \in AllBufs
      BY <1>1, <1>5, <1>6, <2>2, Apart
    <3>2. Numbered(c) /\ Locked(c) /\ Mirrored(c) \in Nat
      BY <1>1, MirroredIs DEF MirrorInv
    <3>3. Mirrored(c)' = Mirrored(c) /\ Numbered(c)' /\ Locked(c)'
      BY <1>2, <3>1, <3>2 DEF Numbered, Locked, Unlocked, Mirrored
    <3>4. QED
      BY <3>2, <3>3
  <2>3. QED
    BY <2>1, <2>2
<1>10. ASSUME NEW t \in Runtimes
       PROVE  hist'[t] = hist[t] /\ Unlocked(t)' /\ mirror'[t] = None /\ hist[t] \in Seq(Line)
  <2>1. t # b /\ t \in AllBufs /\ Unlocked(t) /\ mirror[t] = None
    BY <1>1, Apart DEF MirrorInv
  <2>2. QED
    BY <1>1, <1>2, <1>5, <1>6, <2>1 DEF Unlocked, Types
<1>11. ASSUME NEW c \in Bufs, NEW t \in Runtimes PROVE InOrder(c, hist'[t], Mirrored(c)')
  <2>1. InOrder(c, hist[t], Mirrored(c))
    BY DEF MirrorInv
  <2>2. QED
    BY <1>9, <1>10, <2>1, OrderStays
<1>12. ASSUME NEW c \in Bufs, mirror[c] # None
       PROVE  Complete(c, hist'[mirror[c]], since[c] + 1, Mirrored(c)')
  <2>1. Complete(c, hist[mirror[c]], since[c] + 1, Mirrored(c)) /\ mirror[c] \in Runtimes
    BY <1>12, Apart DEF MirrorInv
  <2>2. QED
    BY <1>9, <1>10, <1>12, <2>1
<1>13. QED
  BY <1>2, <1>9, <1>10, <1>11, <1>12 DEF MirrorInv

\* The line on the way arrives.
LEMMA MirroredLine ==
  ASSUME IInv, MirrorInv, NEW b \in AllBufs, MirrorLine(b)
  PROVE  MirrorInv'
<1> DEFINE t == mirror[b]
           l == pending[b]
<1>1. /\ b \in Bufs /\ Types /\ Numbered(b) /\ Locked(b) /\ ~Unlocked(b) /\ since[b] \in Nat
  BY DEF MirrorLine, IInv, MirrorInv, AllBufs
<1>2. /\ t \in Runtimes /\ t \in AllBufs /\ t # b /\ l \in Line
      /\ l = [from |-> b, n |-> Len(hist[b])] /\ since[b] < Len(hist[b])
      /\ hist[b] \in Seq(Line) /\ Len(hist[b]) \in Nat
  BY <1>1, Apart DEF Locked, MirrorInv, Types, Unlocked
<1>3. /\ Deliver(t, l) /\ UNCHANGED <<store, mirror, since>>
      /\ pending' = [pending EXCEPT ![b] = None]
  BY DEF MirrorLine
<1> HIDE DEF t, l
<1>4. /\ \A d \in AllBufs : d # t => hist'[d] = hist[d]
      /\ Len(hist'[t]) = Len(hist[t]) + 1 /\ hist'[t][Len(hist[t]) + 1] = l
      /\ Len(hist[t]) \in Nat /\ \A k \in 1 .. Len(hist[t]) : hist'[t][k] = hist[t][k]
  BY <1>1, <1>2, <1>3, Grown
<1>5. \A d \in AllBufs : pending'[d] = IF d = b THEN None ELSE pending[d]
  BY <1>1, <1>3 DEF Types
<1>6. /\ Mirrored(b)' = Len(hist[b]) /\ Mirrored(b) = Len(hist[b]) - 1
      /\ Mirrored(b) \in Nat /\ hist'[b] = hist[b] /\ Unlocked(b)'
  <2>1. hist'[b] = hist[b] /\ Unlocked(b)'
    BY <1>1, <1>2, <1>4, <1>5, Apart DEF Unlocked
  <2>2. QED
    BY <1>1, <2>1, MirroredIs DEF Mirrored
<1>7. ASSUME NEW c \in Bufs, c # b
      PROVE  /\ hist'[c] = hist[c] /\ pending'[c] = pending[c]
             /\ Mirrored(c) \in Nat /\ Mirrored(c)' = Mirrored(c)
  <2>1. hist'[c] = hist[c] /\ pending'[c] = pending[c] /\ c \in AllBufs /\ hist[c] \in Seq(Line)
    BY <1>1, <1>2, <1>4, <1>5, <1>7, Apart DEF Types
  <2>2. QED
    BY <1>1, <2>1, MirroredIs DEF Mirrored, Unlocked
<1>8. ASSUME NEW c \in Bufs PROVE Numbered(c)' /\ Locked(c)'
  <2>1. Numbered(c) /\ Locked(c)
    BY DEF MirrorInv
  <2>2. CASE c = b
    BY <1>2, <1>3, <1>6, <2>1, <2>2 DEF Numbered, Locked, Unlocked
  <2>3. CASE c # b
    BY <1>3, <1>7, <2>1, <2>3 DEF Numbered, Locked, Unlocked
  <2>4. QED
    BY <2>2, <2>3
<1>9. ASSUME NEW c \in Bufs, NEW u \in Runtimes PROVE InOrder(c, hist'[u], Mirrored(c)')
  <2>1. InOrder(c, hist[u], Mirrored(c)) /\ hist[u] \in Seq(Line) /\ hist[t] \in Seq(Line)
    BY <1>1, <1>2, Apart DEF MirrorInv, Types
  <2>2. /\ Mirrored(c) \in Nat /\ Mirrored(c)' \in Nat /\ Mirrored(c) <= Mirrored(c)'
        /\ l.from = c => Mirrored(c) < l.n /\ l.n <= Mirrored(c)'
    <3>1. CASE c = b
      BY <1>2, <1>6, <3>1
    <3>2. CASE c # b
      BY <1>2, <1>7, <3>2
    <3>3. QED
      BY <3>1, <3>2
  <2>3. CASE u = t
    <3>1. hist'[t] \in Seq(Line)
      BY <1>2, <1>3, DeliverKeeps
    <3>2. QED
      BY <1>2, <1>4, <2>1, <2>2, <2>3, <3>1, OrderGrows
  <2>4. CASE u # t
    BY <1>4, <2>1, <2>2, <2>4, OrderStays, Apart
  <2>5. QED
    BY <2>3, <2>4
<1>10. ASSUME NEW c \in Bufs, mirror[c] # None
       PROVE  Complete(c, hist'[mirror[c]], since[c] + 1, Mirrored(c)')
  <2>1. Complete(c, hist[mirror[c]], since[c] + 1, Mirrored(c)) /\ mirror[c] \in Runtimes /\ since[c] \in Nat
    BY <1>10, Apart DEF MirrorInv
  <2>2. \A k \in 1 .. Len(hist[mirror[c]]) :
          k \in 1 .. Len(hist'[mirror[c]]) /\ hist'[mirror[c]][k] = hist[mirror[c]][k]
    BY <1>4, <2>1, Apart
  <2>3. CASE c = b
    <3> SUFFICES ASSUME NEW n \in since[b] + 1 .. Len(hist[b])
                 PROVE  \E k \in 1 .. Len(hist'[mirror[b]]) : hist'[mirror[b]][k] = [from |-> b, n |-> n]
      BY <1>3, <1>6, <2>3 DEF Complete
    <3>1. CASE n = Len(hist[b])
      <4>1. Len(hist[t]) + 1 \in 1 .. Len(hist'[t])
        BY <1>4
      <4>2. QED
        BY <1>2, <1>4, <3>1, <4>1 DEF t
    <3>2. CASE n # Len(hist[b])
      <4>1. n \in since[b] + 1 .. Mirrored(b)
        BY <1>1, <1>2, <1>6, <3>2
      <4>2. QED
        BY <2>1, <2>2, <2>3, <4>1 DEF Complete
    <3>3. QED
      BY <3>1, <3>2
  <2>4. CASE c # b
    BY <1>3, <1>7, <2>1, <2>2, <2>4 DEF Complete
  <2>5. QED
    BY <2>3, <2>4
<1>11. \A u \in Runtimes : Unlocked(u)' /\ mirror'[u] = None
  BY <1>1, <1>3, <1>5, Apart DEF MirrorInv, Unlocked
<1>12. QED
  BY <1>3, <1>8, <1>9, <1>10, <1>11 DEF MirrorInv

\* A model is bound to a runtime, anew or again.
LEMMA BoundModel ==
  ASSUME IInv, MirrorInv, NEW id \in Ids, NEW b \in Bufs, NEW t \in Runtimes, BindModel(id, b, t)
  PROVE  MirrorInv'
<1>1. /\ UNCHANGED <<lines, pending, sub, hist>> /\ Unlocked(b)
      /\ mirror' = [mirror EXCEPT ![b] = t]
      /\ since' = IF mirror[b] = t THEN since ELSE [since EXCEPT ![b] = Len(hist[b])]
      /\ b \in AllBufs /\ b \notin Runtimes /\ t \in AllBufs /\ t # None
  BY Apart DEF BindModel
<1>2. hist[b] \in Seq(Line) /\ Len(hist[b]) \in Nat
  BY <1>1 DEF IInv, Types
<1>3. store' \in [Ids -> Bufs \cup {None}]
  BY DEF MirrorInv, BindModel, Getting
<1>4. /\ mirror' \in [AllBufs -> Runtimes \cup {None}] /\ since' \in [AllBufs -> Nat]
      /\ \A d \in AllBufs : d # b => mirror'[d] = mirror[d] /\ since'[d] = since[d]
      /\ mirror'[b] = t /\ since'[b] = IF mirror[b] = t THEN since[b] ELSE Len(hist[b])
  BY <1>1, <1>2 DEF MirrorInv
<1>5. \A c \in Bufs : Mirrored(c)' = Mirrored(c) /\ Numbered(c)' /\ (c # b => Locked(c)')
  BY <1>1, <1>4, Apart DEF MirrorInv, Mirrored, Numbered, Locked, Unlocked
<1>6. Locked(b)' /\ Mirrored(b) = Len(hist[b])
  <2>1. Mirrored(b) = Len(hist[b]) /\ since[b] <= Len(hist[b]) /\ Unlocked(b)'
    BY <1>1, MirroredIs DEF IInv, MirrorInv, Locked, Unlocked
  <2>2. since'[b] <= Len(hist[b])
    BY <1>2, <1>4, <2>1
  <2>3. QED
    BY <1>1, <2>1, <2>2 DEF Locked
<1>7. \A c \in Bufs, u \in Runtimes : InOrder(c, hist'[u], Mirrored(c)')
  BY <1>1, <1>5 DEF MirrorInv
<1>8. ASSUME NEW c \in Bufs, mirror'[c] # None
      PROVE  Complete(c, hist'[mirror'[c]], since'[c] + 1, Mirrored(c)')
  <2>1. CASE c # b
    <3>1. mirror'[c] = mirror[c] /\ since'[c] = since[c]
          /\ Complete(c, hist[mirror[c]], since[c] + 1, Mirrored(c))
      BY <1>4, <1>8, <2>1, Apart DEF MirrorInv
    <3>2. QED
      BY <1>1, <1>5, <3>1
  <2>2. CASE c = b /\ mirror[b] = t
    <3>1. mirror'[c] = mirror[c] /\ since'[c] = since[c]
          /\ Complete(c, hist[mirror[c]], since[c] + 1, Mirrored(c))
      BY <1>1, <1>4, <1>8, <2>2, Apart DEF MirrorInv
    <3>2. QED
      BY <1>1, <1>5, <3>1
  <2>3. CASE c = b /\ mirror[b] # t
    <3>1. since'[b] + 1 .. Mirrored(b)' = {}
      BY <1>2, <1>4, <1>5, <1>6, <2>3
    <3>2. QED
      BY <2>3, <3>1 DEF Complete
  <2>4. QED
    BY <2>1, <2>2, <2>3
<1>9. \A u \in Runtimes : Unlocked(u)' /\ mirror'[u] = None
  BY <1>1, <1>4, Apart DEF MirrorInv, Unlocked
<1>10. QED
  BY <1>3, <1>4, <1>5, <1>6, <1>7, <1>8, <1>9 DEF MirrorInv

\* Every step, and a step that changes nothing.
LEMMA MirrorStep == IInv /\ MirrorInv /\ [Next]_vars => MirrorInv'
<1> SUFFICES ASSUME IInv, MirrorInv, [Next]_vars PROVE MirrorInv'
  OBVIOUS
<1>1. CASE UNCHANGED vars
  BY <1>1, MirrorKept DEF vars, MirrorInv
<1>2. CASE \E b \in AllBufs : AppendLine(b) \/ MirrorLine(b)
  BY <1>2, RuntimeLine, ModelLine, MirroredLine DEF AllBufs
<1>3. CASE \/ \E s \in Subs, b \in AllBufs, n \in Replays : Subscribe(s, b, n)
           \/ \E s \in Subs : Send(s) \/ Cancel(s)
  BY <1>3, MirrorKept DEF Subscribe, Send, Cancel, MirrorInv
<1>4. CASE \E id \in Ids, b \in Bufs : Get(id, b)
  <2>1. UNCHANGED <<mirror, pending, since, hist>> /\ store' \in [Ids -> Bufs \cup {None}]
    BY <1>4 DEF Get, Getting, MirrorInv
  <2>2. QED
    BY <2>1, MirrorKept
<1>5. CASE \E id \in Ids, b \in Bufs, t \in Runtimes : BindModel(id, b, t)
  BY <1>5, BoundModel
<1>6. CASE \E id \in Ids : RemoveModel(id)
  <2>1. UNCHANGED <<mirror, pending, since, hist>> /\ store' \in [Ids -> Bufs \cup {None}]
    BY <1>6 DEF RemoveModel, MirrorInv
  <2>2. QED
    BY <2>1, MirrorKept
<1>7. QED
  BY <1>1, <1>2, <1>3, <1>4, <1>5, <1>6 DEF Next

\* What the invariant says of a runtime's log.
LEMMA MirrorSays == IInv /\ MirrorInv => MirrorFollows
<1> SUFFICES ASSUME IInv, MirrorInv, NEW b \in Bufs, mirror[b] # None
             PROVE  LET log == hist[mirror[b]]
                        its == {k \in DOMAIN log : log[k].from = b /\ log[k].n > since[b]}
                    IN  /\ {log[k] : k \in its} = {hist[b][n] : n \in since[b] + 1 .. Mirrored(b)}
                        /\ \A i, j \in its : i < j => log[i].n < log[j].n
  BY DEF MirrorFollows
<1> DEFINE log == hist[mirror[b]]
           its == {k \in DOMAIN log : log[k].from = b /\ log[k].n > since[b]}
           due == since[b] + 1 .. Mirrored(b)
<1>1. /\ mirror[b] \in Runtimes /\ b \in AllBufs /\ hist[b] \in Seq(Line) /\ log \in Seq(Line)
      /\ since[b] \in Nat /\ Numbered(b) /\ Locked(b)
      /\ InOrder(b, log, Mirrored(b)) /\ Complete(b, log, since[b] + 1, Mirrored(b))
      /\ Mirrored(b) \in Nat /\ Mirrored(b) <= Len(hist[b]) /\ Len(hist[b]) \in Nat
  BY Apart, MirroredIs DEF IInv, Types, MirrorInv
<1> HIDE DEF log
<1>2. DOMAIN log = 1 .. Len(log) /\ \A k \in 1 .. Len(log) : log[k] \in Line /\ log[k].n \in Nat
  BY <1>1, LineNumbers
<1>3. \A n \in due : n \in 1 .. Len(hist[b]) /\ hist[b][n] = [from |-> b, n |-> n]
  <2>1. \A n \in due : n \in 1 .. Len(hist[b])
    BY <1>1
  <2>2. QED
    BY <1>1, <2>1 DEF Numbered
<1>4. ASSUME NEW k \in its PROVE \E n \in due : log[k] = hist[b][n]
  <2>1. /\ log[k].from = b /\ log[k].n > since[b] /\ log[k].n \in Nat /\ log[k] \in Line
        /\ log[k].n <= Mirrored(b)
    BY <1>1, <1>2 DEF InOrder
  <2>2. log[k].n \in due
    BY <1>1, <2>1
  <2>3. log[k] = [from |-> b, n |-> log[k].n]
    BY <2>1 DEF Line
  <2>4. QED
    BY <1>3, <2>2, <2>3
<1>5. ASSUME NEW n \in due PROVE \E k \in its : log[k] = hist[b][n]
  <2>1. PICK k \in 1 .. Len(log) : log[k] = [from |-> b, n |-> n]
    BY <1>1 DEF Complete
  <2>2. n > since[b]
    BY <1>1
  <2>3. k \in its
    BY <1>2, <2>1, <2>2
  <2>4. QED
    BY <1>3, <2>1, <2>3
<1>6. \A i, j \in its : i < j => log[i].n < log[j].n
  BY <1>1, <1>2 DEF InOrder
<1>7. QED
  BY <1>4, <1>5, <1>6 DEF log

\* The log of a runtime has every line of a model since the model was bound to
\* it, once and in order, for any number of models that write into it at the
\* same time, are removed and registered anew, or are bound to another runtime.
THEOREM RuntimeLogComplete == Spec => []MirrorFollows
BY Invariance, MirrorInit, MirrorStep, MirrorSays, PTL DEF Spec

-------------------------------------------------------------------------------
(* The page of a model                                                     *)

\* The page has a model while it has a stream, and the store has buffers of
\* models only: what the handler subscribes to is a buffer.
Page ==
  /\ store \in [Ids -> Bufs \cup {None}]
  /\ es # "none" => viewed \in Ids

\* A step of the page or of its connection changes the log store as one of
\* the store's own operations does, or not at all.
LEMMA ViewNextHolds == IInv /\ Page /\ [ViewNext]_<<vars, view>> => IInv'
<1> SUFFICES ASSUME IInv, Page, [ViewNext]_<<vars, view>> PROVE IInv'
  OBVIOUS
<1>1. CASE UNCHANGED vars
  BY <1>1, NextHolds
<1>2. CASE LogStep
  <2>1. Next
    BY <1>2 DEF LogStep, Next
  <2>2. QED
    BY <2>1, NextHolds
<1>3. CASE \E s \in Subs : HandlerEnds(s)
  BY <1>3, OtherHolds DEF HandlerEnds
<1>4. CASE \E s \in Subs : Accept(s)
  <2>1. PICK s \in Subs : Accept(s)
    BY <1>4
  <2>2. Subscribe(s, store[viewed], Replay) /\ store[viewed] \in AllBufs
    BY <2>1 DEF Accept, Page, AllBufs
  <2>3. Replay \in Nat
    BY ViewAssumption
  <2>4. QED
    BY <2>2, <2>3, SubscribeHolds
<1>5. CASE \/ \E id \in Ids : OpenViewer(id)
           \/ CloseViewer \/ TogglePause \/ ClearView \/ Hear \/ Refuse \/ Break
  BY <1>1, <1>5 DEF OpenViewer, CloseViewer, TogglePause, ClearView, Hear, Refuse, Break
<1>6. QED
  BY <1>1, <1>2, <1>3, <1>4, <1>5 DEF ViewNext

\* Only models get buffers, and a stream ends with the page.
LEMMA PageHolds == Page /\ [ViewNext]_<<vars, view>> => Page'
<1> SUFFICES ASSUME Page, [ViewNext]_<<vars, view>> PROVE Page'
  OBVIOUS
<1> USE DEF Page
<1>1. CASE UNCHANGED <<vars, view>>
  BY <1>1 DEF vars, view, stream
<1>2. CASE LogStep
  <2>1. viewed' = viewed /\ es' = es
    BY <1>2 DEF LogStep, view, stream
  <2>2. \/ UNCHANGED store
        \/ \E id \in Ids, b \in Bufs : Getting(id, b)
        \/ \E id \in Ids : store' = [store EXCEPT ![id] = None]
    BY <1>2 DEF LogStep, AppendLine, MirrorLine, Subscribe, Send, Get, BindModel, RemoveModel
  <2>3. store' \in [Ids -> Bufs \cup {None}]
    BY <2>2 DEF Getting
  <2>4. QED
    BY <2>1, <2>3
<1>3. CASE \E s \in Subs : HandlerEnds(s) \/ Accept(s)
  BY <1>3 DEF HandlerEnds, Accept, Cancel, Subscribe, view, stream
<1>4. CASE (\E id \in Ids : OpenViewer(id)) \/ CloseViewer
  BY <1>4 DEF OpenViewer, CloseViewer, Disconnects, vars
<1>5. CASE TogglePause \/ ClearView \/ Hear \/ Refuse \/ Break
  BY <1>5 DEF TogglePause, ClearView, Hear, Refuse, Break, vars, stream
<1>6. QED
  BY <1>1, <1>2, <1>3, <1>4, <1>5 DEF ViewNext

\* The streams of the pages, which are dropped, dialled again and given
\* another model, keep to the log like every other.
THEOREM PageStreamsFollow == ViewSpec => []NoGap
<1>1. ViewInit => IInv /\ Page
  BY InitHolds DEF ViewInit, Init, Page
<1>2. QED
  BY <1>1, ViewNextHolds, PageHolds, NoGapHolds, PTL DEF ViewSpec
-------------------------------------------------------------------------------
(***************************************************************************)
(* What is on the screen.  The lines that arrived since the viewer was     *)
(* connected, cleared or resumed are the last ones it shows, as far back   *)
(* as a cut leaves them.  A line it shows next can only be out of order    *)
(* when nothing of this connection is on the screen yet, and then a        *)
(* connection was lost that no repetition stands for so far.               *)
(***************************************************************************)
RepeatsIn(seq) ==
  {i \in 1 .. Len(seq) - 1 : ~(seq[i].from = seq[i + 1].from /\ seq[i].n < seq[i + 1].n)}

Heard(seq, got, n, m) ==
  \A d \in 0 .. KeepView : d < n - m => d < Len(seq) /\ seq[Len(seq) - d] = got[n - d]

Continues(seq, got, n) ==
  seq # <<>> => \E i \in 1 .. n : seq[Len(seq)] = got[i]

Scalars ==
  /\ link \in Subs \cup {None} /\ heard \in Nat /\ mark \in Nat /\ breaks \in Nat
  /\ mark <= heard /\ (link = None => heard = 0) /\ (es # "open" => link = None)
  /\ shown \in Seq(Line) /\ Len(shown) <= MaxView + 1

Linked == link # None => sub[link].buf \in Bufs /\ heard <= Len(sub[link].got)

Fresh == link # None /\ ~paused => Heard(shown, sub[link].got, heard, mark)

FewRepeats ==
  /\ Cardinality(RepeatsIn(shown)) <= breaks
  /\ \/ shown = <<>>
     \/ link # None /\ Continues(shown, sub[link].got, heard)
     \/ Cardinality(RepeatsIn(shown)) + 1 <= breaks

ViewInv == Scalars /\ Linked /\ Fresh /\ FewRepeats

\* The limits of the viewer.
LEMMA ViewSizes ==
  MaxView \in Nat /\ KeepView \in Nat /\ KeepView > 0 /\ KeepView <= MaxView
BY ViewAssumption

\* The viewer adds a line to the end of what it shows.
LEMMA AddedIs ==
  ASSUME NEW seq \in Seq(Line), NEW l \in Line
  PROVE  \E kept \in Seq(Line) :
           /\ Added(seq, l) = Append(kept, l)
           /\ EndOf(kept, seq) /\ Len(kept) <= MaxView
           /\ Len(kept) = Len(seq) \/ (Len(kept) >= KeepView /\ Len(kept) < Len(seq))
<1>1. CASE Len(seq) > MaxView
  <2>1. /\ LastOf(seq, KeepView) \in Seq(Line) /\ EndOf(LastOf(seq, KeepView), seq)
        /\ Len(LastOf(seq, KeepView)) = KeepView
    BY <1>1, ViewSizes, LastOfEnd
  <2>2. Added(seq, l) = Append(LastOf(seq, KeepView), l)
    BY <1>1 DEF Added
  <2>3. KeepView < Len(seq) /\ KeepView >= KeepView
    BY <1>1, ViewSizes
  <2>4. QED
    BY <2>1, <2>2, <2>3, ViewSizes
<1>2. CASE ~(Len(seq) > MaxView)
  <2>1. Added(seq, l) = Append(seq, l) /\ Len(seq) <= MaxView
    BY <1>2, ViewSizes DEF Added
  <2>2. EndOf(seq, seq)
    BY DEF EndOf
  <2>3. QED
    BY <2>1, <2>2
<1>3. QED
  BY <1>1, <1>2

\* What repeats is counted among the lines shown.
LEMMA RepeatsFinite ==
  ASSUME NEW seq \in Seq(Line)
  PROVE  IsFiniteSet(RepeatsIn(seq)) /\ Cardinality(RepeatsIn(seq)) \in Nat
<1>1. IsFiniteSet(1 .. Len(seq) - 1)
  BY FS_Interval
<1>2. RepeatsIn(seq) \in SUBSET (1 .. Len(seq) - 1)
  BY DEF RepeatsIn
<1>3. QED
  BY <1>1, <1>2, FS_Subset, FS_CardinalityType

\* What a step shows again is there where the line is added, or was before.
LEMMA RepeatsGrow ==
  ASSUME NEW seq \in Seq(Line), NEW kept \in Seq(Line), NEW l \in Line, EndOf(kept, seq),
         kept = <<>> => seq = <<>>
  PROVE  /\ Cardinality(RepeatsIn(Append(kept, l))) <= Cardinality(RepeatsIn(seq)) + 1
         /\ (seq # <<>> => seq[Len(seq)].from = l.from /\ seq[Len(seq)].n < l.n) =>
              Cardinality(RepeatsIn(Append(kept, l))) <= Cardinality(RepeatsIn(seq))
<1> DEFINE more == Append(kept, l)
           k == Len(kept)
           d == Len(seq) - k
           old == RepeatsIn(more) \ {k}
           f == [i \in old |-> i + d]
<1>1. /\ k \in Nat /\ d \in Nat /\ Len(seq) = k + d /\ more \in Seq(Line) /\ Len(more) = k + 1
      /\ \A i \in 1 .. k : more[i] = kept[i] /\ kept[i] = seq[i + d]
      /\ more[k + 1] = l
  <2>1. /\ Len(kept) \in Nat /\ Len(seq) \in Nat /\ Len(kept) <= Len(seq)
        /\ \A i \in 1 .. Len(kept) : kept[i] = seq[Len(seq) - Len(kept) + i]
    BY DEF EndOf
  <2>2. d \in Nat /\ Len(seq) = k + d /\ \A i \in 1 .. Len(kept) : Len(seq) - Len(kept) + i = i + d
    BY <2>1
  <2>3. more \in Seq(Line) /\ Len(more) = k + 1 /\ more[k + 1] = l
        /\ \A i \in 1 .. k : more[i] = kept[i]
    OBVIOUS
  <2> HIDE DEF more, d
  <2>4. QED
    BY <2>1, <2>2, <2>3
<1> HIDE DEF more, k, d
<1>2. IsFiniteSet(RepeatsIn(more)) /\ IsFiniteSet(RepeatsIn(seq))
      /\ Cardinality(RepeatsIn(more)) \in Nat /\ Cardinality(RepeatsIn(seq)) \in Nat
  BY <1>1, RepeatsFinite
<1>3. ASSUME NEW i \in old PROVE i \in 1 .. k - 1 /\ i + d \in RepeatsIn(seq)
  <2>1. i \in 1 .. k - 1
    BY <1>1 DEF RepeatsIn
  <2>2. i \in 1 .. k /\ i + 1 \in 1 .. k /\ (i + 1) + d = (i + d) + 1
        /\ i + d \in 1 .. Len(seq) - 1
    BY <1>1, <2>1
  <2>3. more[i] = seq[i + d] /\ more[i + 1] = seq[(i + d) + 1]
    BY <1>1, <2>2
  <2>4. QED
    BY <2>1, <2>2, <2>3 DEF RepeatsIn
<1>4. f \in Injection(old, RepeatsIn(seq))
  <2>1. f \in [old -> RepeatsIn(seq)]
    BY <1>3
  <2>2. \A a, b \in old : f[a] = f[b] => a = b
    BY <1>1, <1>3
  <2> HIDE DEF f, old
  <2>3. QED
    BY <2>1, <2>2 DEF Injection, IsInjective
<1>5. IsFiniteSet(old) /\ Cardinality(old) <= Cardinality(RepeatsIn(seq)) /\ Cardinality(old) \in Nat
  <2> HIDE DEF f, old
  <2>1. QED
    BY <1>2, <1>4, FS_Injection, FS_CardinalityType
<1>6. Cardinality(old) = IF k \in RepeatsIn(more) THEN Cardinality(RepeatsIn(more)) - 1
                         ELSE Cardinality(RepeatsIn(more))
  BY <1>2, FS_RemoveElement
<1> HIDE DEF old
<1>7. Cardinality(RepeatsIn(more)) <= Cardinality(RepeatsIn(seq)) + 1
  BY <1>2, <1>5, <1>6
<1>8. ASSUME seq # <<>> => seq[Len(seq)].from = l.from /\ seq[Len(seq)].n < l.n
      PROVE  k \notin RepeatsIn(more)
  <2>1. CASE k = 0
    BY <1>1, <2>1 DEF RepeatsIn
  <2>2. CASE k # 0
    <3>1. k \in 1 .. k /\ more[k] = seq[Len(seq)] /\ seq # <<>>
      BY <1>1, <2>2
    <3>2. QED
      BY <1>1, <1>8, <3>1 DEF RepeatsIn
  <2>3. QED
    BY <2>1, <2>2
<1>9. QED
  BY <1>2, <1>5, <1>6, <1>7, <1>8 DEF more

\* The line that is heard is the last one on the screen, and those before it
\* are where they were.
LEMMA HeardMore ==
  ASSUME NEW seq \in Seq(Line), NEW kept \in Seq(Line), NEW l \in Line, EndOf(kept, seq),
         Len(kept) = Len(seq) \/ (Len(kept) >= KeepView /\ Len(kept) < Len(seq)),
         NEW got \in Seq(Line), NEW n \in Nat, NEW m \in Nat, m <= n, n < Len(got),
         got[n + 1] = l, Heard(seq, got, n, m)
  PROVE  Heard(Append(kept, l), got, n + 1, m)
<1> DEFINE more == Append(kept, l)
<1>1. /\ Len(kept) \in Nat /\ Len(seq) \in Nat /\ Len(kept) <= Len(seq)
      /\ \A i \in 1 .. Len(kept) : kept[i] = seq[Len(seq) - Len(kept) + i]
      /\ Len(more) = Len(kept) + 1 /\ more[Len(kept) + 1] = l
      /\ \A i \in 1 .. Len(kept) : more[i] = kept[i]
  BY DEF EndOf
<1> HIDE DEF more
<1> SUFFICES ASSUME NEW d \in 0 .. KeepView, d < (n + 1) - m
             PROVE  d < Len(more) /\ more[Len(more) - d] = got[(n + 1) - d]
  BY DEF Heard, more
<1>2. CASE d = 0
  <2>1. Len(more) - d = Len(kept) + 1 /\ (n + 1) - d = n + 1 /\ d < Len(more)
    BY <1>1, <1>2
  <2>2. QED
    BY <1>1, <2>1
<1>3. CASE d # 0
  <2>1. d - 1 \in 0 .. KeepView /\ d - 1 < n - m /\ n - (d - 1) = (n + 1) - d
    BY <1>3, ViewSizes
  <2>2. d - 1 < Len(seq) /\ seq[Len(seq) - (d - 1)] = got[(n + 1) - d]
    BY <2>1 DEF Heard
  <2>3. d <= Len(kept)
    BY <1>1, <2>1, <2>2, ViewSizes
  <2>4. /\ d < Len(more) /\ Len(more) - d = Len(kept) + 1 - d
        /\ Len(kept) + 1 - d \in 1 .. Len(kept)
        /\ Len(seq) - Len(kept) + (Len(kept) + 1 - d) = Len(seq) - (d - 1)
    BY <1>1, <1>3, <2>3
  <2>5. QED
    BY <1>1, <2>2, <2>4
<1>4. QED
  BY <1>2, <1>3

\* A subscriber of a model's buffer gets its lines in order.
LEMMA GotInOrder ==
  ASSUME IInv, MirrorInv, NEW s \in Subs, sub[s].buf \in Bufs
  PROVE  /\ sub[s].got \in Seq(Line)
         /\ \A i, j \in 1 .. Len(sub[s].got) : i < j =>
              sub[s].got[i].from = sub[s].got[j].from /\ sub[s].got[i].n < sub[s].got[j].n
<1> DEFINE b == sub[s].buf
           got == sub[s].got
           flow == got \o sub[s].queue
<1>1. /\ got \in Seq(Line) /\ sub[s].queue \in Seq(Line) /\ b # None /\ Numbered(b)
      /\ hist[b] \in Seq(Line)
  BY Apart DEF IInv, Types, SubRecord, MirrorInv
<1>2. Within(flow, hist[b])
  BY <1>1 DEF IInv, Streams, Follows
<1> HIDE DEF b, got
<1>3. /\ Len(got) \in Nat /\ Len(flow) = Len(got) + Len(sub[s].queue)
      /\ \A i \in 1 .. Len(got) : i \in 1 .. Len(flow) /\ flow[i] = got[i]
  BY <1>1
<1> HIDE DEF flow
<1>4. ASSUME NEW i \in 1 .. Len(got), NEW j \in 1 .. Len(got), i < j
      PROVE  got[i].from = got[j].from /\ got[i].n < got[j].n
  <2>1. PICK k, l \in 1 .. Len(hist[b]) : k < l /\ hist[b][k] = flow[i] /\ hist[b][l] = flow[j]
    BY <1>2, <1>3, <1>4 DEF Within
  <2>2. hist[b][k] = [from |-> b, n |-> k] /\ hist[b][l] = [from |-> b, n |-> l]
    BY <1>1 DEF Numbered
  <2>3. got[i] = [from |-> b, n |-> k] /\ got[j] = [from |-> b, n |-> l]
    BY <1>3, <2>1, <2>2
  <2>4. QED
    BY <2>1, <2>3
<1>5. QED
  BY <1>1, <1>4 DEF got

\* A step of the store: what the viewer's subscriber has got stays.
LEMMA LinkKept ==
  ASSUME IInv, ViewInv, UNCHANGED view,
         \A s \in Subs : s = link /\ s # None =>
           /\ sub'[s].buf = sub[s].buf /\ Len(sub'[s].got) >= Len(sub[s].got)
           /\ sub'[s].got \in Seq(Line)
           /\ \A i \in 1 .. Len(sub[s].got) : sub'[s].got[i] = sub[s].got[i]
  PROVE  ViewInv'
<1>1. /\ link' = link /\ heard' = heard /\ shown' = shown /\ mark' = mark /\ breaks' = breaks
      /\ es' = es /\ paused' = paused
  BY DEF view, stream
<1>2. Scalars'
  BY <1>1 DEF ViewInv, Scalars
<1>3. CASE link = None
  BY <1>1, <1>2, <1>3 DEF ViewInv, Linked, Fresh, FewRepeats
<1>4. CASE link # None
  <2>1. /\ link \in Subs /\ sub[link].buf \in Bufs /\ heard <= Len(sub[link].got)
        /\ heard \in Nat /\ mark \in Nat /\ mark <= heard
        /\ Len(sub'[link].got) >= Len(sub[link].got) /\ sub'[link].buf = sub[link].buf
        /\ \A i \in 1 .. Len(sub[link].got) : sub'[link].got[i] = sub[link].got[i]
    BY <1>4 DEF ViewInv, Scalars, Linked
  <2>2. Len(sub[link].got) \in Nat /\ Len(sub'[link].got) \in Nat
    BY <2>1 DEF IInv, Types, SubRecord
  <2>3. \A i \in 1 .. heard : sub'[link].got[i] = sub[link].got[i]
    BY <2>1, <2>2
  <2>4. Linked'
    BY <1>1, <2>1, <2>2 DEF Linked
  <2>5. Fresh'
    <3>1. CASE paused
      BY <1>1, <3>1 DEF Fresh
    <3>2. CASE ~paused
      <4>1. Heard(shown, sub[link].got, heard, mark)
        BY <1>4, <3>2 DEF ViewInv, Fresh
      <4>2. \A d \in 0 .. KeepView : d < heard - mark => heard - d \in 1 .. heard
        BY <2>1, ViewSizes
      <4>3. Heard(shown, sub'[link].got, heard, mark)
        BY <2>3, <4>1, <4>2 DEF Heard
      <4>4. QED
        BY <1>1, <4>3 DEF Fresh
    <3>3. QED
      BY <3>1, <3>2
  <2>6. FewRepeats'
    BY <1>1, <1>4, <2>3 DEF ViewInv, FewRepeats, Continues
  <2>7. QED
    BY <1>2, <2>4, <2>5, <2>6 DEF ViewInv
<1>5. QED
  BY <1>3, <1>4

\* What the log store does meanwhile.
LEMMA StoreMeanwhile ==
  ASSUME IInv, ViewInv, LogStep \/ \E s \in Subs : HandlerEnds(s)
  PROVE  ViewInv'
<1> SUFFICES ASSUME NEW t \in Subs, t = link, t # None
             PROVE  /\ sub'[t].buf = sub[t].buf /\ Len(sub'[t].got) >= Len(sub[t].got)
                    /\ sub'[t].got \in Seq(Line)
                    /\ \A i \in 1 .. Len(sub[t].got) : sub'[t].got[i] = sub[t].got[i]
  <2>1. UNCHANGED view
    BY DEF LogStep, HandlerEnds
  <2>2. QED
    BY <2>1, LinkKept
<1>1. /\ sub[t] \in SubRecord /\ sub[t].got \in Seq(Line) /\ sub[t].queue \in Seq(Line)
      /\ Len(sub[t].got) \in Nat /\ sub \in [Subs -> SubRecord]
  BY DEF IInv, Types, SubRecord
<1>2. CASE sub'[t].got = sub[t].got /\ sub'[t].buf = sub[t].buf
  BY <1>1, <1>2
<1>3. CASE \E b \in AllBufs : AppendLine(b) \/ MirrorLine(b)
  <2>1. PICK b, l : Deliver(b, l)
    BY <1>3 DEF AppendLine, MirrorLine
  <2>2. sub'[t] = IF sub[t].buf # b THEN sub[t]
                  ELSE IF Len(sub[t].queue) < QueueCap
                       THEN [sub[t] EXCEPT !.queue = Append(@, l)]
                       ELSE [sub[t] EXCEPT !.dropped = TRUE]
    BY <2>1 DEF Deliver
  <2>3. sub'[t].got = sub[t].got /\ sub'[t].buf = sub[t].buf
    BY <1>1, <2>2 DEF SubRecord
  <2>4. QED
    BY <1>2, <2>3
<1>4. CASE \E s \in Subs, b \in AllBufs, n \in Replays : Subscribe(s, b, n)
  <2>1. PICK s \in Subs : sub[s].buf = None /\ \E r : sub' = [sub EXCEPT ![s] = r]
    BY <1>4 DEF Subscribe
  <2>2. s # t
    BY <2>1, Apart DEF ViewInv, Linked
  <2>3. sub'[t] = sub[t]
    BY <1>1, <2>1, <2>2
  <2>4. QED
    BY <1>2, <2>3
<1>5. CASE \E s \in Subs : Send(s)
  <2>1. PICK s \in Subs : Send(s)
    BY <1>5
  <2>2. CASE s # t
    <3>1. sub'[t] = sub[t]
      BY <1>1, <2>1, <2>2 DEF Send
    <3>2. QED
      BY <1>2, <3>1
  <2>3. CASE s = t
    <3>1. /\ sub[t].queue # <<>> /\ Head(sub[t].queue) \in Line
          /\ sub'[t].got = Append(sub[t].got, Head(sub[t].queue)) /\ sub'[t].buf = sub[t].buf
      BY <1>1, <2>1, <2>3 DEF Send, SubRecord
    <3>2. QED
      BY <1>1, <3>1
  <2>4. QED
    BY <2>2, <2>3
<1>6. CASE \/ \E id \in Ids, b \in Bufs : Get(id, b) \/ \E u \in Runtimes : BindModel(id, b, u)
           \/ \E id \in Ids : RemoveModel(id)
  <2>1. sub' = sub
    BY <1>6 DEF Get, BindModel, RemoveModel
  <2>2. QED
    BY <1>2, <2>1
<1>7. CASE \E s \in Subs : HandlerEnds(s)
  <2>1. PICK s \in Subs : s # link /\ sub' = [sub EXCEPT ![s] = NoSub]
    BY <1>7 DEF HandlerEnds, Cancel
  <2>2. sub'[t] = sub[t]
    BY <1>1, <2>1
  <2>3. QED
    BY <1>2, <2>2
<1>8. QED
  BY <1>3, <1>4, <1>5, <1>6, <1>7 DEF LogStep

\* Nothing is on the screen, and nothing repeats.
LEMMA NothingShown ==
  /\ <<>> \in Seq(Line) /\ Len(<<>>) = 0 /\ Cardinality(RepeatsIn(<<>>)) = 0
<1>1. 1 .. Len(<<>>) - 1 = {} /\ <<>> \in Seq(Line) /\ Len(<<>>) = 0
  OBVIOUS
<1>2. RepeatsIn(<<>>) = {}
  BY <1>1, Zenon DEF RepeatsIn
<1>3. QED
  BY <1>1, <1>2, FS_EmptySet

\* Connected anew, cleared, paused or resumed, the viewer has heard nothing.
LEMMA NothingHeard ==
  ASSUME NEW seq, NEW got, NEW n \in Nat
  PROVE  Heard(seq, got, n, n)
BY ViewSizes DEF Heard

\* The page's own steps but for the arrival of a line.
LEMMA PageMeanwhile ==
  ASSUME IInv, Page, ViewInv,
         \/ \E id \in Ids : OpenViewer(id)
         \/ CloseViewer \/ TogglePause \/ ClearView \/ Refuse \/ Break
  PROVE  ViewInv'
<1> USE DEF ViewInv
<1>1. UNCHANGED sub
  BY DEF OpenViewer, CloseViewer, TogglePause, ClearView, Refuse, Break, vars
<1>2. CASE (\E id \in Ids : OpenViewer(id)) \/ CloseViewer
  <2>1. shown' = <<>> /\ breaks' = 0 /\ link' = None /\ heard' = 0 /\ mark' = 0
    BY <1>2 DEF OpenViewer, CloseViewer, Emptied, Connects, Disconnects
  <2>2. 0 <= MaxView + 1 /\ 0 <= 0 /\ 0 \in Nat
    BY ViewSizes
  <2>3. Scalars'
    BY <2>1, <2>2, NothingShown DEF Scalars
  <2>4. QED
    BY <2>1, <2>2, <2>3, NothingShown DEF Linked, Fresh, FewRepeats
<1>3. CASE TogglePause
  <2>1. UNCHANGED <<shown, breaks, link, heard, es>> /\ mark' = heard
    BY <1>3 DEF TogglePause, stream
  <2>2. Scalars' /\ Linked'
    BY <1>1, <2>1 DEF Scalars, Linked
  <2>3. Fresh'
    BY <2>1, NothingHeard DEF Fresh, Scalars
  <2>4. QED
    BY <1>1, <2>1, <2>2, <2>3 DEF FewRepeats
<1>4. CASE ClearView
  <2>1. UNCHANGED <<link, heard, es>> /\ mark' = heard /\ shown' = <<>> /\ breaks' = 0
    BY <1>4 DEF ClearView, Emptied, stream
  <2>2. 0 <= MaxView + 1 /\ 0 <= 0 /\ 0 \in Nat
    BY ViewSizes
  <2>3. Scalars' /\ Linked'
    BY <1>1, <2>1, <2>2, NothingShown DEF Scalars, Linked
  <2>4. Fresh'
    BY <2>1, NothingHeard DEF Fresh, Scalars
  <2>5. QED
    BY <2>1, <2>2, <2>3, <2>4, NothingShown DEF FewRepeats
<1>5. CASE Refuse
  <2>1. UNCHANGED <<shown, breaks, link, heard, mark, paused>> /\ link = None
    BY <1>5 DEF Refuse, Scalars
  <2>2. Scalars'
    BY <2>1 DEF Scalars
  <2>3. QED
    BY <2>1, <2>2 DEF Linked, Fresh, FewRepeats
<1>6. CASE Break
  <2>1. /\ UNCHANGED <<shown, paused>> /\ breaks' = breaks + 1 /\ mark' = 0
        /\ link' = None /\ heard' = 0
    BY <1>6 DEF Break, Lost, Connects
  <2>2. 0 <= 0 /\ 0 \in Nat /\ breaks + 1 \in Nat /\ breaks <= breaks + 1
    BY DEF Scalars
  <2>3. Scalars'
    BY <2>1, <2>2 DEF Scalars
  <2>4. Cardinality(RepeatsIn(shown)) \in Nat /\ breaks \in Nat
        /\ Cardinality(RepeatsIn(shown)) <= breaks
    BY RepeatsFinite DEF Scalars, FewRepeats
  <2>5. Cardinality(RepeatsIn(shown)) + 1 <= breaks + 1
        /\ Cardinality(RepeatsIn(shown)) <= breaks + 1
    BY <2>4
  <2>6. QED
    BY <2>1, <2>3, <2>5 DEF Linked, Fresh, FewRepeats
<1>7. QED
  BY <1>2, <1>3, <1>4, <1>5, <1>6

\* A connection is made, of which nothing was heard yet.
LEMMA AcceptMeanwhile ==
  ASSUME IInv, MirrorInv, Page, ViewInv, NEW s \in Subs, Accept(s)
  PROVE  ViewInv'
<1> USE DEF ViewInv
<1>1. /\ es = "connecting" /\ link = None /\ heard = 0 /\ mark = 0
      /\ UNCHANGED <<heard, shown, paused, mark, breaks>> /\ link' = s /\ es' = "open"
      /\ Subscribe(s, store[viewed], Replay) /\ store[viewed] \in Bufs
  BY DEF Accept, Scalars, Page
<1>2. sub'[s].buf = store[viewed] /\ sub'[s].got = LastOf(lines[store[viewed]], Replay)
  BY <1>1 DEF Subscribe, IInv, Types
<1>3. Len(sub'[s].got) \in Nat
  <2>1. lines[store[viewed]] \in Seq(Line) /\ Replay \in Nat
    BY <1>1, Apart, ViewAssumption DEF IInv, Types
  <2>2. QED
    BY <1>2, <2>1, LastOfEnd
<1>4. Scalars' /\ Linked'
  BY <1>1, <1>2, <1>3 DEF Scalars, Linked
<1>5. Fresh'
  BY <1>1, NothingHeard DEF Fresh
<1>6. Continues(shown, sub[link].got, 0) => shown = <<>>
  BY DEF Continues
<1>7. FewRepeats'
  BY <1>1 DEF FewRepeats
<1>8. QED
  BY <1>4, <1>5, <1>7

\* A line arrives.
LEMMA HearMeanwhile ==
  ASSUME IInv, MirrorInv, ViewInv, Hear
  PROVE  ViewInv'
<1> USE DEF ViewInv
<1> DEFINE got == sub[link].got
           l == got[heard + 1]
<1>1. /\ link # None /\ link \in Subs /\ sub[link].buf \in Bufs /\ heard < Len(got)
      /\ heard' = heard + 1 /\ UNCHANGED <<sub, es, link, paused, mark, breaks>>
      /\ shown' = IF paused THEN shown ELSE Added(shown, l)
      /\ heard \in Nat /\ mark \in Nat /\ mark <= heard /\ shown \in Seq(Line) /\ breaks \in Nat
  BY DEF Hear, vars, Scalars, Linked
<1>2. /\ got \in Seq(Line)
      /\ \A i, j \in 1 .. Len(got) : i < j => got[i].from = got[j].from /\ got[i].n < got[j].n
  BY <1>1, GotInOrder
<1> HIDE DEF got
<1>3. /\ Len(got) \in Nat /\ heard + 1 \in 1 .. Len(got) /\ l \in Line
      /\ \A i \in 1 .. heard : i \in 1 .. Len(got) /\ i < heard + 1 /\ i \in 1 .. heard + 1
  BY <1>1, <1>2
<1> HIDE DEF l
<1>4. Linked'
  BY <1>1, <1>3 DEF Linked, got
<1>5. CASE paused
  <2>1. shown' = shown
    BY <1>1, <1>5
  <2>2. Scalars'
    BY <1>1, <2>1 DEF Scalars
  <2>3. Fresh'
    BY <1>1, <1>5 DEF Fresh
  <2>4. Continues(shown, got, heard) => Continues(shown, got, heard + 1)
    BY <1>3 DEF Continues
  <2>5. FewRepeats'
    BY <1>1, <2>1, <2>4 DEF FewRepeats, got
  <2>6. QED
    BY <1>4, <2>2, <2>3, <2>5
<1>6. CASE ~paused
  <2>1. PICK kept \in Seq(Line) :
          /\ Added(shown, l) = Append(kept, l)
          /\ EndOf(kept, shown) /\ Len(kept) <= MaxView
          /\ Len(kept) = Len(shown) \/ (Len(kept) >= KeepView /\ Len(kept) < Len(shown))
    BY <1>1, <1>3, AddedIs
  <2>2. shown' = Append(kept, l)
    BY <1>1, <1>6, <2>1
  <2>3. shown' \in Seq(Line) /\ Len(shown') = Len(kept) + 1 /\ shown'[Len(kept) + 1] = l
        /\ Len(kept) \in Nat
    BY <1>3, <2>2
  <2>4. Scalars'
    BY <1>1, <2>1, <2>3, ViewSizes DEF Scalars
  <2>5. Fresh'
    <3>1. Heard(shown, got, heard, mark)
      BY <1>1, <1>6 DEF Fresh, got
    <3>2. Heard(Append(kept, l), got, heard + 1, mark)
      <4>1. got[heard + 1] = l
        BY DEF l
      <4>2. QED
        BY <1>1, <1>2, <1>3, <2>1, <3>1, <4>1, HeardMore
    <3>3. QED
      BY <1>1, <2>2, <3>2 DEF Fresh, got
  <2>6. Continues(shown', got, heard + 1)
    <3>1. heard + 1 \in 1 .. heard + 1 /\ got[heard + 1] = l
      BY <1>1 DEF l
    <3>2. QED
      BY <2>3, <3>1 DEF Continues
  <2>7. Cardinality(RepeatsIn(shown')) <= breaks
    <3>1. kept = <<>> => shown = <<>>
      BY <1>1, <2>1, ViewSizes
    <3>2. /\ Cardinality(RepeatsIn(shown')) <= Cardinality(RepeatsIn(shown)) + 1
          /\ (shown # <<>> => shown[Len(shown)].from = l.from /\ shown[Len(shown)].n < l.n) =>
               Cardinality(RepeatsIn(shown')) <= Cardinality(RepeatsIn(shown))
      BY <1>1, <1>3, <2>1, <2>2, <3>1, RepeatsGrow
    <3>3. Cardinality(RepeatsIn(shown')) \in Nat /\ Cardinality(RepeatsIn(shown)) \in Nat
      BY <1>1, <2>3, RepeatsFinite
    <3>4. CASE shown = <<>> \/ Continues(shown, got, heard)
      <4>1. ASSUME shown # <<>>
            PROVE  shown[Len(shown)].from = l.from /\ shown[Len(shown)].n < l.n
        <5>1. PICK i \in 1 .. heard : shown[Len(shown)] = got[i]
          BY <3>4, <4>1 DEF Continues
        <5>2. QED
          BY <1>2, <1>3, <5>1 DEF l
      <4>2. QED
        BY <1>1, <3>2, <3>3, <4>1 DEF FewRepeats
    <3>5. CASE Cardinality(RepeatsIn(shown)) + 1 <= breaks
      BY <1>1, <3>2, <3>3, <3>5
    <3>6. QED
      BY <1>1, <3>4, <3>5 DEF FewRepeats, got
  <2>8. FewRepeats'
    BY <1>1, <2>6, <2>7 DEF FewRepeats, got
  <2>9. QED
    BY <1>4, <2>4, <2>5, <2>8
<1>7. QED
  BY <1>5, <1>6

\* The store's part of the invariant with the page among the subscribers.
LEMMA ViewMirrorStep ==
  IInv /\ MirrorInv /\ Page /\ [ViewNext]_<<vars, view>> => MirrorInv'
<1> SUFFICES ASSUME IInv, MirrorInv, Page, [ViewNext]_<<vars, view>> PROVE MirrorInv'
  OBVIOUS
<1>1. CASE UNCHANGED vars
  BY <1>1, MirrorStep
<1>2. CASE LogStep
  <2>1. Next
    BY <1>2 DEF LogStep, Next
  <2>2. QED
    BY <2>1, MirrorStep
<1>3. CASE \E s \in Subs : HandlerEnds(s) \/ Accept(s)
  <2>1. UNCHANGED <<mirror, pending, since, hist, store>>
    BY <1>3 DEF HandlerEnds, Accept, Cancel, Subscribe
  <2>2. QED
    BY <2>1, MirrorKept DEF MirrorInv
<1>4. CASE \/ \E id \in Ids : OpenViewer(id)
           \/ CloseViewer \/ TogglePause \/ ClearView \/ Hear \/ Refuse \/ Break
  BY <1>1, <1>4 DEF OpenViewer, CloseViewer, TogglePause, ClearView, Hear, Refuse, Break
<1>5. QED
  BY <1>1, <1>2, <1>3, <1>4 DEF ViewNext

\* Every step, and a step that changes nothing.
LEMMA ViewStep ==
  IInv /\ MirrorInv /\ Page /\ ViewInv /\ [ViewNext]_<<vars, view>> => ViewInv'
<1> SUFFICES ASSUME IInv, MirrorInv, Page, ViewInv, [ViewNext]_<<vars, view>> PROVE ViewInv'
  OBVIOUS
<1>1. CASE UNCHANGED <<vars, view>>
  BY <1>1 DEF vars, view, stream, ViewInv, Scalars, Linked, Fresh, FewRepeats
<1>2. CASE ViewNext
  BY <1>2, StoreMeanwhile, PageMeanwhile, AcceptMeanwhile, HearMeanwhile DEF ViewNext
<1>3. QED
  BY <1>1, <1>2

\* No page is shown.
LEMMA ViewInitHolds == ViewInit => ViewInv
<1> SUFFICES ASSUME ViewInit PROVE ViewInv
  OBVIOUS
<1>1. /\ link = None /\ heard = 0 /\ mark = 0 /\ breaks = 0 /\ shown = <<>>
      /\ 0 <= MaxView + 1 /\ 0 <= 0 /\ 0 \in Nat
  BY ViewSizes DEF ViewInit
<1>2. Scalars
  BY <1>1, NothingShown DEF Scalars
<1>3. QED
  BY <1>1, <1>2, NothingShown DEF ViewInv, Linked, Fresh, FewRepeats

\* Two sequences in a row.
LEMMA Joined ==
  ASSUME NEW S, NEW a \in Seq(S), NEW b \in Seq(S)
  PROVE  /\ a \o b \in Seq(S) /\ Len(a \o b) = Len(a) + Len(b)
         /\ \A i \in 1 .. Len(a) + Len(b) :
              (a \o b)[i] = IF i <= Len(a) THEN a[i] ELSE b[i - Len(a)]
OBVIOUS

\* A piece of a sequence, and the rest of it and of the one after it.
LEMMA RestIsEnd ==
  ASSUME NEW S, NEW got \in Seq(S), NEW queue \in Seq(S), NEW m \in Nat, NEW n \in Nat,
         m <= n, n <= Len(got)
  PROVE  LET fresh == SubSeq(got, m + 1, n)
             ahead == SubSeq(got, n + 1, Len(got)) \o queue
         IN  /\ fresh \in Seq(S) /\ Len(fresh) = n - m
             /\ \A i \in 1 .. n - m : fresh[i] = got[m + i]
             /\ fresh \o ahead \in Seq(S) /\ EndOf(fresh \o ahead, got \o queue)
<1> DEFINE fresh == SubSeq(got, m + 1, n)
           later == SubSeq(got, n + 1, Len(got))
           ahead == later \o queue
           all == got \o queue
           some == fresh \o ahead
<1>1. Len(got) \in Nat /\ Len(queue) \in Nat /\ \A i \in 1 .. Len(got) : got[i] \in S
  OBVIOUS
<1>2. /\ fresh \in Seq(S) /\ Len(fresh) = n - m
      /\ \A i \in 1 .. n - m : fresh[i] = got[m + i]
  <2>1. fresh = [i \in 1 .. n - m |-> got[m + i]]
    <3>1. fresh = [i \in 1 .. (n - (m + 1)) + 1 |-> got[((m + 1) + i) - 1]]
      OBVIOUS
    <3>2. (n - (m + 1)) + 1 = n - m /\ \A i \in 1 .. n - m : ((m + 1) + i) - 1 = m + i
      OBVIOUS
    <3>3. QED
      BY <3>1, <3>2
  <2>2. \A i \in 1 .. n - m : got[m + i] \in S
    BY <1>1
  <2>3. n - m \in Nat
    OBVIOUS
  <2> HIDE DEF fresh
  <2>4. QED
    BY <2>1, <2>2, <2>3
<1>3. /\ later \in Seq(S) /\ Len(later) = Len(got) - n
      /\ \A i \in 1 .. Len(got) - n : later[i] = got[n + i]
  <2>1. later = [i \in 1 .. Len(got) - n |-> got[n + i]]
    <3>1. later = [i \in 1 .. (Len(got) - (n + 1)) + 1 |-> got[((n + 1) + i) - 1]]
      OBVIOUS
    <3>2. /\ (Len(got) - (n + 1)) + 1 = Len(got) - n
          /\ \A i \in 1 .. Len(got) - n : ((n + 1) + i) - 1 = n + i
      BY <1>1
    <3>3. QED
      BY <3>1, <3>2
  <2>2. \A i \in 1 .. Len(got) - n : got[n + i] \in S
    BY <1>1
  <2>3. Len(got) - n \in Nat
    BY <1>1
  <2> HIDE DEF later
  <2>4. QED
    BY <2>1, <2>2, <2>3
<1> HIDE DEF fresh, later
<1>4. /\ ahead \in Seq(S) /\ Len(ahead) = (Len(got) - n) + Len(queue)
      /\ \A i \in 1 .. (Len(got) - n) + Len(queue) :
           ahead[i] = IF i <= Len(got) - n THEN later[i] ELSE queue[i - (Len(got) - n)]
  <2>1. later \in Seq(S) /\ Len(later) = Len(got) - n
    BY <1>3
  <2>2. /\ ahead \in Seq(S) /\ Len(ahead) = Len(later) + Len(queue)
        /\ \A i \in 1 .. Len(later) + Len(queue) :
             ahead[i] = IF i <= Len(later) THEN later[i] ELSE queue[i - Len(later)]
    BY <2>1, Joined
  <2> HIDE DEF ahead
  <2>3. QED
    BY <2>1, <2>2
<1>5. /\ all \in Seq(S) /\ Len(all) = Len(got) + Len(queue)
      /\ \A i \in 1 .. Len(got) + Len(queue) :
           all[i] = IF i <= Len(got) THEN got[i] ELSE queue[i - Len(got)]
  <2> HIDE DEF all
  <2>1. QED
    BY <1>1, Joined DEF all
<1> HIDE DEF ahead, all
<1>6. /\ some \in Seq(S) /\ Len(some) = (n - m) + Len(ahead)
      /\ \A i \in 1 .. (n - m) + Len(ahead) :
           some[i] = IF i <= n - m THEN fresh[i] ELSE ahead[i - (n - m)]
  <2>1. fresh \in Seq(S) /\ Len(fresh) = n - m /\ ahead \in Seq(S)
    BY <1>2, <1>4
  <2>2. /\ some \in Seq(S) /\ Len(some) = Len(fresh) + Len(ahead)
        /\ \A i \in 1 .. Len(fresh) + Len(ahead) :
             some[i] = IF i <= Len(fresh) THEN fresh[i] ELSE ahead[i - Len(fresh)]
    BY <2>1, Joined
  <2> HIDE DEF some
  <2>3. QED
    BY <2>1, <2>2
<1> HIDE DEF some
<1>7. /\ Len(some) = (Len(got) - m) + Len(queue) /\ Len(some) <= Len(all)
      /\ Len(all) - Len(some) = m
  <2>1. /\ Len(some) = (n - m) + Len(ahead) /\ Len(ahead) = (Len(got) - n) + Len(queue)
        /\ Len(all) = Len(got) + Len(queue)
    BY <1>4, <1>5, <1>6
  <2>2. QED
    BY <1>1, <2>1
<1>8. ASSUME NEW i \in 1 .. Len(some) PROVE some[i] = all[m + i]
  <2>1. m + i \in 1 .. Len(got) + Len(queue) /\ i \in 1 .. (n - m) + Len(ahead)
    BY <1>1, <1>4, <1>6, <1>7
  <2>2. CASE i <= n - m
    <3>1. i \in 1 .. n - m /\ m + i <= Len(got)
      BY <2>2
    <3>2. some[i] = fresh[i]
      BY <1>6, <2>1, <2>2
    <3>3. fresh[i] = got[m + i]
      BY <1>2, <3>1
    <3>4. all[m + i] = got[m + i]
      BY <1>5, <2>1, <3>1
    <3>5. QED
      BY <3>2, <3>3, <3>4
  <2>3. CASE ~(i <= n - m) /\ i <= Len(got) - m
    <3>1. /\ i - (n - m) \in 1 .. Len(got) - n /\ m + i <= Len(got)
          /\ i - (n - m) \in 1 .. (Len(got) - n) + Len(queue) /\ n + (i - (n - m)) = m + i
          /\ i - (n - m) <= Len(got) - n
      BY <1>1, <2>3
    <3>2. some[i] = ahead[i - (n - m)] /\ ahead[i - (n - m)] = later[i - (n - m)]
      BY <1>4, <1>6, <2>1, <2>3, <3>1
    <3>3. QED
      BY <1>3, <1>5, <2>1, <3>1, <3>2
  <2>4. CASE ~(i <= n - m) /\ ~(i <= Len(got) - m)
    <3>1. /\ i - (n - m) \in 1 .. (Len(got) - n) + Len(queue) /\ ~(m + i <= Len(got))
          /\ ~(i - (n - m) <= Len(got) - n)
          /\ (i - (n - m)) - (Len(got) - n) = (m + i) - Len(got)
      BY <1>1, <1>7, <2>4
    <3>2. some[i] = ahead[i - (n - m)]
      BY <1>6, <2>1, <2>4
    <3>3. QED
      BY <1>4, <1>5, <2>1, <3>1, <3>2
  <2>5. QED
    BY <2>2, <2>3, <2>4
<1>9. EndOf(some, all)
  BY <1>7, <1>8 DEF EndOf
<1>10. QED
  BY <1>2, <1>6, <1>9 DEF fresh, later, ahead, all, some

\* What the invariant says of the screen.
LEMMA ViewSays == IInv /\ MirrorInv /\ ViewInv => ViewFollows
<1> SUFFICES ASSUME IInv, MirrorInv, ViewInv PROVE ViewFollows
  OBVIOUS
<1> USE DEF ViewInv
<1>1. Len(shown) <= MaxView + 1 /\ Cardinality(Repeats) <= breaks
  BY DEF Scalars, FewRepeats, RepeatsIn, Repeats
<1>2. ASSUME link # None, ~paused
      PROVE  LET fresh == SubSeq(sub[link].got, mark + 1, heard)
                 ahead == SubSeq(sub[link].got, heard + 1, Len(sub[link].got)) \o sub[link].queue
             IN  /\ IsSuffix(LastOf(fresh, KeepView + 1), shown)
                 /\ ~sub[link].dropped => IsSuffix(fresh \o ahead, hist[sub[link].buf])
  <2> DEFINE got == sub[link].got
             queue == sub[link].queue
             log == hist[sub[link].buf]
             fresh == SubSeq(got, mark + 1, heard)
             ahead == SubSeq(got, heard + 1, Len(got)) \o queue
  <2>1. /\ link \in Subs /\ sub[link].buf \in Bufs /\ heard <= Len(got) /\ heard \in Nat
        /\ mark \in Nat /\ mark <= heard /\ shown \in Seq(Line)
        /\ Heard(shown, got, heard, mark)
    BY <1>2 DEF Scalars, Linked, Fresh
  <2>2. got \in Seq(Line) /\ queue \in Seq(Line) /\ log \in Seq(Line) /\ sub[link].buf # None
    BY <2>1, Apart DEF IInv, Types, SubRecord
  <2>3. sub[link].dropped \/ EndOf(got \o queue, log)
    BY <2>1, <2>2 DEF IInv, Streams, Follows
  <2> HIDE DEF got, queue, log
  <2>4. /\ fresh \in Seq(Line) /\ Len(fresh) = heard - mark
        /\ \A i \in 1 .. heard - mark : fresh[i] = got[mark + i]
        /\ fresh \o ahead \in Seq(Line) /\ EndOf(fresh \o ahead, got \o queue)
    BY <2>1, <2>2, RestIsEnd
  <2>5. got \o queue \in Seq(Line)
    BY <2>2
  <2> HIDE DEF fresh, ahead
  <2>6. ASSUME ~sub[link].dropped PROVE IsSuffix(fresh \o ahead, log)
    <3>1. EndOf(fresh \o ahead, log)
      <4> DEFINE some == fresh \o ahead
                 all == got \o queue
      <4>1. some \in Seq(Line) /\ all \in Seq(Line) /\ EndOf(some, all) /\ EndOf(all, log)
        BY <2>3, <2>4, <2>5, <2>6
      <4> HIDE DEF some, all
      <4>2. EndOf(some, log)
        BY <2>2, <4>1, EndOfTransitive
      <4>3. QED
        BY <4>2 DEF some
    <3>2. QED
      BY <2>2, <2>4, <3>1, EndOfIsSuffix
  <2> DEFINE last == LastOf(fresh, KeepView + 1)
             m == Len(last)
  <2>7. /\ last \in Seq(Line) /\ EndOf(last, fresh) /\ m \in Nat
        /\ m <= heard - mark /\ m <= KeepView + 1
    <3>1. KeepView + 1 \in Nat /\ KeepView + 1 # 0
      BY ViewSizes
    <3>2. /\ last \in Seq(Line) /\ EndOf(last, fresh)
          /\ Len(last) = IF KeepView + 1 = 0 \/ KeepView + 1 > Len(fresh) THEN Len(fresh) ELSE KeepView + 1
      BY <2>4, <3>1, LastOfEnd
    <3> HIDE DEF last
    <3>3. QED
      BY <2>1, <2>4, <3>1, <3>2, ViewSizes
  <2> HIDE DEF last
  <2>8. ASSUME NEW i \in 1 .. m
        PROVE  Len(shown) - m + i \in 1 .. Len(shown) /\ last[i] = shown[Len(shown) - m + i]
    <3>1. m - i \in 0 .. KeepView /\ m - i < heard - mark
      BY <2>1, <2>7, ViewSizes
    <3>2. m - i < Len(shown) /\ shown[Len(shown) - (m - i)] = got[heard - (m - i)]
      BY <2>1, <3>1 DEF Heard
    <3>3. last[i] = fresh[(heard - mark) - m + i]
      BY <2>4, <2>7 DEF EndOf
    <3>4. /\ (heard - mark) - m + i \in 1 .. heard - mark
          /\ mark + ((heard - mark) - m + i) = heard - (m - i)
      BY <2>1, <2>7
    <3>5. Len(shown) - (m - i) = Len(shown) - m + i /\ Len(shown) - m + i \in 1 .. Len(shown)
      BY <2>1, <2>7, <3>2
    <3>6. QED
      BY <2>4, <3>2, <3>3, <3>4, <3>5
  <2>9. m <= Len(shown)
    <3>1. Len(shown) \in Nat
      BY <2>1
    <3>2. CASE m = 0
      BY <3>1, <3>2
    <3>3. CASE m # 0
      <4>1. 1 \in 1 .. m
        BY <2>7, <3>3
      <4>2. Len(shown) - m + 1 \in 1 .. Len(shown)
        BY <2>8, <4>1
      <4>3. QED
        BY <2>7, <3>1, <4>2
    <3>4. QED
      BY <3>2, <3>3
  <2>10. EndOf(last, shown)
    BY <2>8, <2>9 DEF EndOf
  <2>11. IsSuffix(last, shown)
    BY <2>1, <2>7, <2>10, EndOfIsSuffix
  <2>12. QED
    BY <2>6, <2>11 DEF last, fresh, ahead, got, queue, log
<1>3. QED
  BY <1>1, <1>2 DEF ViewFollows

\* The invariants hold in every state of every behavior of the page.
LEMMA ViewInvariance == ViewSpec => [](IInv /\ MirrorInv /\ Page /\ ViewInv)
<1>1. ViewInit => IInv /\ MirrorInv /\ Page /\ ViewInv
  BY InitHolds, MirrorInit, ViewInitHolds DEF ViewInit, Init, Page
<1>2. QED
  BY <1>1, ViewNextHolds, ViewMirrorStep, PageHolds, ViewStep, PTL DEF ViewSpec

\* The runtime's log is complete with the page among the subscribers, too.
THEOREM PageLogComplete == ViewSpec => []MirrorFollows
BY ViewInvariance, MirrorSays, PTL

\* What arrived since the viewer was last connected, cleared or resumed is on
\* the screen up to the last cut and continues to the end of the log, a line
\* comes again only where a connection was lost, and the viewer keeps within
\* its bound (ModelDetail.tsx 176-183), for every size of viewer and replay.
THEOREM ViewerFollows == ViewSpec => []ViewFollows
BY ViewInvariance, ViewSays, PTL
===============================================================================
